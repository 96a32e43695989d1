---------------------------- MODULE PackageFeed ----------------------------
(***************************************************************************)
(* PackageFeed: builders that share a hash equivalence server and a PR      *)
(* service, building one recipe over and over.  Each time                   *)
(*   - the signature generator asks for the unihash of do_package           *)
(*     (SignatureGeneratorUniHashMixIn.get_unihash in lib/bb/siggen.py),    *)
(*   - the task is built, and reports the hash of its output                *)
(*     (report_unihash),                                                    *)
(*   - do_packagedata asks for a PR value with the unihash as the checksum  *)
(*     (package_get_auto_pr in meta/classes/package.bbclass).               *)
(* The server goes down and comes back, connections are lost, and requests  *)
(* are sent again, by both kinds of client.                                 *)
(***************************************************************************)
EXTENDS HashServ, PRService, FiniteSets

CONSTANTS
  Outputs,         \* Outputs[t]: what a task with taskhash t may produce
  Remaps,          \* <<t, u>>: taskhashes t that a migration may report as u
  Builds,          \* Builds[b]: the taskhashes builder b may build
  MaxBuilds,       \* MaxBuilds[b]: bound, how often it does
  MaxPRLosses,     \* bound: connections to the PR service lost
  MaxFaults        \* bound: all that goes wrong, together

ASSUME PackageFeedAssumption ==
  /\ Checksums = Taskhashes
  /\ \A t \in Taskhashes : Outputs[t] \subseteq Outhashes
  /\ Remaps \subseteq Taskhashes \X Taskhashes
  /\ Builds \in [Clients -> SUBSET Taskhashes] /\ MaxBuilds \in [Clients -> Nat]
  /\ MaxPRLosses \in Nat /\ MaxFaults \in Nat

VARIABLES
  stage,           \* of each builder
  task,            \* the taskhash being built
  output,          \* what was built
  unihashes,       \* unitaskhashes, kept from build to build: of one taskhash
  prconns,         \* connections made to the PR service
  resent,          \* was the PR request sent a second time?
  prlosses,
  builds,          \* builds started
  equivalents      \* history: <<outhash, unihash>> of reports that were answered

buildervars == <<stage, task, output, unihashes, prconns, resent, prlosses, builds,
                equivalents>>
vars == <<hashvars, prvars, buildervars>>

Stages ==
  {"idle", "query", "package", "report", "lookup", "known", "remap", "getpr", "waitpr"}

-----------------------------------------------------------------------------
(* A build                                                                  *)

Starts(b, t) ==
  /\ stage[b] = "idle" /\ t \in Builds[b] /\ builds[b] < MaxBuilds[b]
  /\ builds' = [builds EXCEPT ![b] = @ + 1]
  /\ task' = [task EXCEPT ![b] = t]

\* get_unihash: the cache first, then the server.
GetUnihash(b, t, asking, known) ==
  /\ IF unihashes[b][t] # NoHash
     THEN stage' = [stage EXCEPT ![b] = known] /\ UNCHANGED clientvars
     ELSE stage' = [stage EXCEPT ![b] = asking] /\ Call(b, Query(t))
  /\ UNCHANGED <<tasks_v2, serving, losses, hashstops, prvars, output, unihashes,
                 prconns, resent, prlosses, equivalents>>

StartBuild(b, t) == Starts(b, t) /\ GetUnihash(b, t, "query", "package")

\* What a task knew is gone when it ends.
Ended(b) ==
  /\ stage' = [stage EXCEPT ![b] = "idle"]
  /\ task' = [task EXCEPT ![b] = NoHash]
  /\ output' = [output EXCEPT ![b] = NoOuthash]
  /\ resent' = [resent EXCEPT ![b] = FALSE]

CallEnds(b) == todo[b] = <<>> /\ result[b] # NoResult

Consumed(b) ==
  /\ result' = [result EXCEPT ![b] = NoResult]
  /\ UNCHANGED <<tasks_v2, serving, conn, mode, todo, attempts, restoring, nested,
                 reply, losses, hashstops>>

\* The unihash goes in with its taskhash, in the place of the last.
SetUnihash(b, t, u) ==
  unihashes' = [unihashes EXCEPT ![b] = [s \in Taskhashes |-> IF s = t THEN u ELSE NoHash]]

\* Without an answer, the taskhash is the unihash.
GotUnihash(b) ==
  /\ stage[b] \in {"query", "lookup"} /\ CallEnds(b)
  /\ SetUnihash(b, task[b], IF result[b].unihash = NoHash THEN task[b]
                            ELSE result[b].unihash)
  /\ stage' = [stage EXCEPT ![b] = IF @ = "query" THEN "package" ELSE "known"]
  /\ Consumed(b)
  /\ UNCHANGED <<prvars, task, output, prconns, resent, prlosses, builds, equivalents>>

\* do_package, and the call of report_unihash after it
Package(b, o) ==
  /\ stage[b] = "package" /\ o \in Outputs[task[b]]
  /\ output' = [output EXCEPT ![b] = o]
  /\ Call(b, Report(task[b], o, unihashes[b][task[b]]))
  /\ stage' = [stage EXCEPT ![b] = "report"]
  /\ UNCHANGED <<tasks_v2, serving, losses, hashstops, prvars, task, unihashes,
                 prconns, resent, prlosses, builds, equivalents>>

\* A report that fails is only warned about.
Reported(b) ==
  /\ stage[b] = "report" /\ CallEnds(b)
  /\ IF result[b].status = "ok"
     THEN /\ SetUnihash(b, task[b], result[b].unihash)
          /\ equivalents' = equivalents \cup {<<output[b], result[b].unihash>>}
     ELSE UNCHANGED <<unihashes, equivalents>>
  /\ stage' = [stage EXCEPT ![b] = "getpr"]
  /\ Consumed(b)
  /\ UNCHANGED <<prvars, task, output, prconns, resent, prlosses, builds>>

-----------------------------------------------------------------------------
(* A migration in the run queue (process_possible_migrations): the task is  *)
(* restored as u already, when its taskhash becomes t.                      *)

Rehash(b, t) ==
  /\ \E u \in Taskhashes : <<t, u>> \in Remaps
  /\ Starts(b, t)
  /\ GetUnihash(b, t, "lookup", "known")

\* Unless that leads to u by itself, the server is asked to take it for u.
Remap(b, u) ==
  /\ stage[b] = "known" /\ <<task[b], u>> \in Remaps
  /\ IF unihashes[b][task[b]] = u
     THEN Ended(b) /\ UNCHANGED clientvars
     ELSE /\ stage' = [stage EXCEPT ![b] = "remap"]
          /\ Call(b, ReportEquiv(task[b], u))
          /\ UNCHANGED <<task, output, resent>>
  /\ UNCHANGED <<tasks_v2, serving, losses, hashstops, prvars, unihashes, prconns,
                 prlosses, builds, equivalents>>

\* report_unihash_equiv: the answer is only taken if it is what was wanted.
Remapped(b) ==
  /\ stage[b] = "remap" /\ CallEnds(b)
  /\ IF <<task[b], result[b].unihash>> \in Remaps
     THEN SetUnihash(b, task[b], result[b].unihash)
     ELSE UNCHANGED unihashes
  /\ Ended(b)
  /\ Consumed(b)
  /\ UNCHANGED <<prvars, prconns, prlosses, builds, equivalents>>

-----------------------------------------------------------------------------
(* The PR value.  xmlrpc.client sends a request again, once, when the       *)
(* connection is lost.                                                      *)

AskForPR(b) ==
  /\ stage[b] = "getpr"
  /\ Accept(GetPR(b, prconns[b] + 1, unihashes[b][task[b]]))
  /\ prconns' = [prconns EXCEPT ![b] = @ + 1]
  /\ stage' = [stage EXCEPT ![b] = "waitpr"]
  /\ UNCHANGED <<hashvars, prbounds, task, output, unihashes, resent, prlosses,
                 builds, equivalents>>

\* Does the builder wait for the answer to the request r?
Awaits(r) == r.op = "getPR" /\ stage[r.client] = "waitpr" /\ r.conn = prconns[r.client]

AnswerPR ==
  /\ Answer(request.op = "getPR" /\ ~Awaits(request))
  /\ IF Awaits(request) THEN Ended(request.client)
                         ELSE UNCHANGED <<stage, task, output, resent>>
  /\ UNCHANGED <<hashvars, unihashes, prconns, prlosses, builds, equivalents>>

\* The request is sent again, or bb.fatal ends the task.
Disconnected(b) ==
  /\ IF resent[b]
     THEN Ended(b)
     ELSE /\ stage' = [stage EXCEPT ![b] = "getpr"]
          /\ resent' = [resent EXCEPT ![b] = TRUE]
          /\ UNCHANGED <<task, output>>
  /\ UNCHANGED <<hashvars, prvars, unihashes, prconns, builds, equivalents>>

LosePRConnection(b) ==
  /\ stage[b] = "waitpr" /\ prlosses < MaxPRLosses
  /\ prlosses' = prlosses + 1
  /\ Disconnected(b)

PRServerGone(b) ==
  /\ stage[b] = "waitpr" /\ ~Up
  /\ Disconnected(b)
  /\ UNCHANGED prlosses

\* Refused, or not answered in time.
GiveUpPR(b) ==
  /\ \/ stage[b] = "getpr" /\ ~Up
     \/ stage[b] \in {"getpr", "waitpr"} /\ Up /\ Stuck
  /\ Ended(b)
  /\ UNCHANGED <<hashvars, prvars, unihashes, prconns, prlosses, builds, equivalents>>

-----------------------------------------------------------------------------

Init ==
  /\ HashInit /\ PRInit
  /\ stage = [b \in Clients |-> "idle"]
  /\ task = [b \in Clients |-> NoHash]
  /\ output = [b \in Clients |-> NoOuthash]
  /\ unihashes = [b \in Clients |-> [t \in Taskhashes |-> NoHash]]
  /\ prconns = [b \in Clients |-> 0] /\ resent = [b \in Clients |-> FALSE]
  /\ prlosses = 0 /\ builds = [b \in Clients |-> 0]
  /\ equivalents = {}

Builder(b) ==
  \/ \E t \in Taskhashes : StartBuild(b, t) \/ Rehash(b, t) \/ Remap(b, t)
  \/ GotUnihash(b)
  \/ \E o \in Outhashes : Package(b, o)
  \/ Reported(b)
  \/ Remapped(b)
  \/ AskForPR(b) \/ PRServerGone(b) \/ GiveUpPR(b)

MayFail == losses + hashstops + signals + quits + crashes + prlosses < MaxFaults

Next ==
  \/ HashStep /\ UNCHANGED <<prvars, buildervars>>
  \/ HashFault /\ MayFail /\ UNCHANGED <<prvars, buildervars>>
  \/ (PRHandler \/ PRMain \/ StartPRServer) /\ UNCHANGED <<hashvars, buildervars>>
  \/ PRFault /\ MayFail /\ UNCHANGED <<hashvars, buildervars>>
  \/ AnswerPR
  \/ \E b \in Clients : Builder(b) \/ (LosePRConnection(b) /\ MayFail)

(* The client and the handlers run on; nothing makes a builder start, a     *)
(* connection fail or a server stop or start.                               *)
Fairness ==
  /\ \A c \in Clients :
       WF_vars((Connect(c) \/ ConnectionFails(c) \/ Handle(c) \/ Reject(c) \/ Deliver(c))
               /\ UNCHANGED <<prvars, buildervars>>)
  /\ WF_vars(PRHandler /\ UNCHANGED <<hashvars, buildervars>>)
  /\ WF_vars(AnswerPR)
  /\ WF_vars(PRMain /\ UNCHANGED <<hashvars, buildervars>>)

Spec == Init /\ [][Next]_vars /\ Fairness

-----------------------------------------------------------------------------
(* Properties                                                               *)

TypeOK ==
  /\ tasks_v2 \in Seq(Row) /\ serving \in BOOLEAN
  /\ conn \in [Clients -> {"none", "dead", "normal", "stream"}]
  /\ mode \in [Clients -> {"normal", "stream"}]
  /\ \A c \in Clients : /\ Len(todo[c]) <= 2 /\ Len(reply[c]) <= 1
                        /\ \A i \in DOMAIN reply[c] : reply[c][i] \in Unihashes
  /\ attempts \in [Clients -> 0 .. Retries] /\ nested \in [Clients -> 0 .. Retries]
  /\ restoring \in [Clients -> BOOLEAN]
  /\ prtable \in [Checksums -> {NoRow} \cup PRValues]
  /\ prdisk \in [Checksums -> {NoRow} \cup PRValues]
  /\ {transaction, dirty, quitflag} \subseteq BOOLEAN
  /\ stage \in [Clients -> Stages] /\ task \in [Clients -> Unihashes]
  /\ unihashes \in [Clients -> [Taskhashes -> Unihashes]]
  /\ \A b \in Clients : stage[b] = "getpr" => unihashes[b][task[b]] \in Checksums

(* Outputs are equivalent when their hash is: whatever builders ask for in  *)
(* whatever order, and however often they send it, all rows of one outhash  *)
(* have one unihash (handle_report).                                        *)
OneUnihashPerOutput ==
  \A i, j \in DOMAIN tasks_v2 :
    tasks_v2[i].outhash = tasks_v2[j].outhash /\ tasks_v2[i].outhash # NoOuthash
      => tasks_v2[i].unihash = tasks_v2[j].unihash

(* ... and so builders whose reports were answered agree on it, be the      *)
(* answer to the first or to a repeated report (_send_wrapper).             *)
BuildersAgree ==
  \A e, f \in equivalents : e[1] = f[1] => e[2] = f[2]

(* A unihash is one of the taskhashes it stands for: no answer leads from a *)
(* class of taskhashes, closed under having an output in common and under   *)
(* migration, to one outside, however answers were delayed, lost or asked   *)
(* for again (send_stream, get_unihash).                                    *)
Closed(C) ==
  /\ \A t, u \in Taskhashes : Outputs[t] \cap Outputs[u] # {} => (t \in C <=> u \in C)
  /\ \A p \in Remaps : p[1] \in C <=> p[2] \in C
UnihashIsSound ==
  \A C \in SUBSET Taskhashes : Closed(C) =>
    \A b \in Clients, t \in Taskhashes :
      unihashes[b][t] # NoHash => (unihashes[b][t] \in C <=> t \in C)

(* What a builder was told of a taskhash stays true: duplicate reports      *)
(* "always return the unihash from the first reported taskhash"             *)
(* (lib/hashserv/tests.py).                                                 *)
FirstReportWins ==
  [][\A t \in Taskhashes : FastQuery(t) # NoHash => FastQuery(t)' = FastQuery(t)]_tasks_v2

(* Whatever is sent on a new connection, the server is in the mode for it:  *)
(* connect() restores the mode, itself over connections that may fail, as   *)
(* long as no more of them are lost than a message has tries to spare.      *)
ModesAgree ==
  losses <= Retries /\ hashstops = 0 =>
    \A c \in Clients :
      todo[c] # <<>> /\ conn[c] \in {"normal", "stream"} /\ reply[c] = <<>>
        => Understood(c)

(* A call of the client ends, with an answer or an error: the tries of a    *)
(* message and those that restore the mode under each of them do not feed   *)
(* each other for ever (_send_wrapper, connect).                            *)
CallsEnd == \A b \in Clients : todo[b] # <<>> ~> todo[b] = <<>>

(* Once quitflag is set, by a client or by the handler of SIGTERM, the      *)
(* server ends, though the thread that waits and the one it waits for both  *)
(* use the database, and either may fail at it (work_forever,               *)
(* sigterm_handler, process_request_thread).                                *)
QuitEnds == quitflag /\ Up ~> ~Up

(* What builders take for a unihash they may take for it (report_unihash,   *)
(* get_unihash), and ask for in the right way.                              *)
UnihashesSound == TypeOK /\ BuildersAgree /\ UnihashIsSound /\ ModesAgree

(* Whoever waits for an answer, or for the end of the PR server, does not   *)
(* wait for ever (_send_wrapper, work_forever).                             *)
WaitingEnds == CallsEnd /\ QuitEnds
=============================================================================
