------------------------ MODULE BitbakeWorkerProofs ------------------------
(***************************************************************************)
(* What is proved of BitbakeWorker for any tasks and pipes of any length:   *)
(* tasks are run with the hashes they were asked for with, exit codes are   *)
(* those of the tasks' processes and come after what the tasks had to tell. *)
(*                                                                          *)
(* The messages that are on their way - waiting to be written, in the pipe, *)
(* read - are one line, to which the server appends and from whose head the *)
(* worker takes.  What is invariant is that the versions of the hashes,     *)
(* counted along the line, lead from what the worker has to what the server *)
(* has sent, and meet what each task was asked for with.                    *)
(***************************************************************************)
EXTENDS BitbakeWorker, SequenceTheorems, FiniteSetTheorems, TLAPS

Ops == {"newtaskhashes", "runtask", "finishnow", "quit"}
Messages == [op : Ops, task : Tasks \cup {NoTask}]

\* Those asked for in line w are different, and have no process yet.
Waits(w, a, p) ==
  /\ w \in Seq(Messages)
  /\ \A i \in 1 .. Len(w) : w[i].op = "runtask" =>
       w[i].task \in Tasks /\ p[w[i].task] = "none" /\ a[w[i].task] # -1
  /\ \A i, j \in 1 .. Len(w) :
       i # j /\ w[i].op = "runtask" /\ w[j].op = "runtask" => w[i].task # w[j].task

\* f[i] is the version after i messages of w.
Counts(w, f, a, from) ==
  /\ f \in [0 .. Len(w) -> Nat] /\ f[0] = from
  /\ \A i \in 1 .. Len(w) :
       /\ f[i] = IF w[i].op = "newtaskhashes" THEN f[i - 1] + 1 ELSE f[i - 1]
       /\ w[i].op = "runtask" => a[w[i].task] = f[i - 1]

Leads(w, a, p, from, to) ==
  Waits(w, a, p) /\ \E f : Counts(w, f, a, from) /\ f[Len(w)] = to

(* The line gets longer when the server asks for a task (runtask) ...       *)
LEMMA AppendRun ==
  ASSUME NEW w, NEW a \in [Tasks -> Int], NEW p, NEW from, NEW to \in Nat,
         Leads(w, a, p, from, to), NEW t \in Tasks, a[t] = -1, p[t] = "none"
  PROVE  Leads(Append(w, Msg("runtask", t)), [a EXCEPT ![t] = to], p, from, to)
<1> DEFINE m == Msg("runtask", t)
           v == Append(w, m)
           b == [a EXCEPT ![t] = to]
<1>1. PICK f : Counts(w, f, a, from) /\ f[Len(w)] = to
  BY DEF Leads
<1>2. w \in Seq(Messages) /\ m \in Messages /\ m.op = "runtask" /\ m.task = t
  BY DEF Leads, Waits, Messages, Ops, Msg
<1>3. /\ v \in Seq(Messages) /\ Len(v) = Len(w) + 1 /\ Len(w) \in Nat
      /\ v[Len(v)] = m /\ \A i \in 1 .. Len(w) : v[i] = w[i]
  BY <1>2
<1>4. \A i \in 1 .. Len(w) : w[i].op = "runtask" =>
        w[i].task \in Tasks /\ w[i].task # t /\ b[w[i].task] = a[w[i].task]
  BY DEF Leads, Waits
<1>5. b[t] = to
  OBVIOUS
<1> HIDE DEF m, v, b
<1>6. Waits(v, b, p)
  <2>1. \A i \in 1 .. Len(v) : i = Len(v) \/ i \in 1 .. Len(w)
    BY <1>3
  <2>2. \A i \in 1 .. Len(v) : v[i].op = "runtask" =>
          v[i].task \in Tasks /\ p[v[i].task] = "none" /\ b[v[i].task] # -1
    <3> SUFFICES ASSUME NEW i \in 1 .. Len(v), v[i].op = "runtask"
                 PROVE  v[i].task \in Tasks /\ p[v[i].task] = "none" /\ b[v[i].task] # -1
      OBVIOUS
    <3>1. CASE i = Len(v)
      BY <1>2, <1>3, <1>5, <3>1
    <3>2. CASE i \in 1 .. Len(w)
      BY <1>3, <1>4, <3>2 DEF Leads, Waits
    <3> QED BY <2>1, <3>1, <3>2
  <2>3. \A i, j \in 1 .. Len(v) :
          i # j /\ v[i].op = "runtask" /\ v[j].op = "runtask" => v[i].task # v[j].task
    <3> SUFFICES ASSUME NEW i \in 1 .. Len(v), NEW j \in 1 .. Len(v), i # j,
                        v[i].op = "runtask", v[j].op = "runtask"
                 PROVE  v[i].task # v[j].task
      OBVIOUS
    <3>1. CASE i \in 1 .. Len(w) /\ j \in 1 .. Len(w)
      BY <1>3, <3>1 DEF Leads, Waits
    <3>2. CASE i = Len(v)
      BY <1>2, <1>3, <1>4, <2>1, <3>2
    <3>3. CASE j = Len(v)
      BY <1>2, <1>3, <1>4, <2>1, <3>3
    <3> QED BY <2>1, <3>1, <3>2, <3>3
  <2> QED BY <1>3, <2>2, <2>3 DEF Waits
<1> DEFINE g == [i \in 0 .. Len(v) |-> IF i = Len(v) THEN to ELSE f[i]]
<1>7. Counts(v, g, b, from) /\ g[Len(v)] = to
  <2>1. g \in [0 .. Len(v) -> Nat] /\ g[0] = from
    BY <1>1, <1>3 DEF Counts
  <2>2. \A i \in 1 .. Len(w) : g[i] = f[i] /\ g[i - 1] = f[i - 1]
    BY <1>3
  <2>3. g[Len(v)] = to /\ g[Len(v) - 1] = to
    BY <1>1, <1>3
  <2> HIDE DEF g
  <2>4. ASSUME NEW i \in 1 .. Len(v)
        PROVE  /\ g[i] = IF v[i].op = "newtaskhashes" THEN g[i - 1] + 1 ELSE g[i - 1]
               /\ v[i].op = "runtask" => b[v[i].task] = g[i - 1]
    <3>1. CASE i = Len(v)
      BY <1>2, <1>3, <1>5, <2>3, <3>1
    <3>2. CASE i \in 1 .. Len(w)
      <4>1. f[i] = IF w[i].op = "newtaskhashes" THEN f[i - 1] + 1 ELSE f[i - 1]
        BY <1>1, <3>2 DEF Counts
      <4>2. w[i].op = "runtask" => a[w[i].task] = f[i - 1]
        BY <1>1, <3>2 DEF Counts
      <4> QED BY <1>3, <1>4, <2>2, <3>2, <4>1, <4>2
    <3> QED BY <1>3, <3>1, <3>2
  <2> QED BY <2>1, <2>3, <2>4 DEF Counts
<1> HIDE DEF g
<1> QED BY <1>6, <1>7 DEF Leads, m, v, b

(* ... or sends anything else (newtaskhashes, finishnow, quit).             *)
LEMMA AppendOther ==
  ASSUME NEW w, NEW a, NEW p, NEW from, NEW to \in Nat, Leads(w, a, p, from, to),
         NEW m \in Messages, m.op # "runtask", NEW new \in Nat,
         new = IF m.op = "newtaskhashes" THEN to + 1 ELSE to
  PROVE  Leads(Append(w, m), a, p, from, new)
<1> DEFINE v == Append(w, m)
<1>1. PICK f : Counts(w, f, a, from) /\ f[Len(w)] = to
  BY DEF Leads
<1>2. w \in Seq(Messages)
  BY DEF Leads, Waits
<1>3. /\ v \in Seq(Messages) /\ Len(v) = Len(w) + 1 /\ Len(w) \in Nat
      /\ v[Len(v)] = m /\ \A i \in 1 .. Len(w) : v[i] = w[i]
  BY <1>2
<1> HIDE DEF v
<1>4. Waits(v, a, p)
  BY <1>3 DEF Leads, Waits
<1> DEFINE g == [i \in 0 .. Len(v) |-> IF i = Len(v) THEN new ELSE f[i]]
<1>5. Counts(v, g, a, from) /\ g[Len(v)] = new
  <2>1. g \in [0 .. Len(v) -> Nat] /\ g[0] = from
    BY <1>1, <1>3 DEF Counts
  <2>2. \A i \in 1 .. Len(w) : g[i] = f[i] /\ g[i - 1] = f[i - 1]
    BY <1>3
  <2>3. g[Len(v)] = new /\ g[Len(v) - 1] = to
    BY <1>1, <1>3
  <2> HIDE DEF g
  <2>4. ASSUME NEW i \in 1 .. Len(v)
        PROVE  /\ g[i] = IF v[i].op = "newtaskhashes" THEN g[i - 1] + 1 ELSE g[i - 1]
               /\ v[i].op = "runtask" => a[v[i].task] = g[i - 1]
    <3>1. CASE i = Len(v)
      BY <1>3, <2>3, <3>1
    <3>2. CASE i \in 1 .. Len(w)
      <4>1. /\ f[i] = IF w[i].op = "newtaskhashes" THEN f[i - 1] + 1 ELSE f[i - 1]
            /\ w[i].op = "runtask" => a[w[i].task] = f[i - 1]
        BY <1>1, <3>2 DEF Counts
      <4> QED BY <1>3, <2>2, <3>2, <4>1
    <3> QED BY <1>3, <3>1, <3>2
  <2> QED BY <2>1, <2>3, <2>4 DEF Counts
<1> HIDE DEF g
<1> QED BY <1>4, <1>5 DEF Leads, v

(* A task at the head is met by the hashes it was asked for with            *)
(* (handle_runtask).                                                        *)
LEMMA HeadIsMet ==
  ASSUME NEW w, NEW a, NEW p, NEW from, NEW to,
         Leads(w, a, p, from, to), w # <<>>, w[1].op = "runtask"
  PROVE  w[1].task \in Tasks /\ p[w[1].task] = "none" /\ a[w[1].task] = from
<1>1. PICK f : Counts(w, f, a, from) /\ f[Len(w)] = to
  BY DEF Leads
<1>2. w \in Seq(Messages)
  BY DEF Leads, Waits
<1>3. 1 \in 1 .. Len(w)
  BY <1>2
<1> QED BY <1>1, <1>3 DEF Leads, Waits, Counts

(* The line gets shorter when the worker handles what is at its head        *)
(* (handle_item).                                                           *)
LEMMA TakeHead ==
  ASSUME NEW w, NEW a, NEW p, NEW q, NEW from \in Nat, NEW to, NEW new \in Nat,
         Leads(w, a, p, from, to), w # <<>>,
         new = IF w[1].op = "newtaskhashes" THEN from + 1 ELSE from,
         \A t \in Tasks : p[t] = "none" => q[t] = "none" \/ (w[1].op = "runtask" /\ w[1].task = t)
  PROVE  Leads(Tail(w), a, q, new, to)
<1> DEFINE v == Tail(w)
<1>1. PICK f : Counts(w, f, a, from) /\ f[Len(w)] = to
  BY DEF Leads
<1>2. w \in Seq(Messages)
  BY DEF Leads, Waits
<1>3. /\ v \in Seq(Messages) /\ Len(w) = Len(v) + 1 /\ Len(v) \in Nat
      /\ \A i \in 1 .. Len(v) : v[i] = w[i + 1]
  BY <1>2
<1> HIDE DEF v
<1>5. Waits(v, a, q)
  <2>1. \A i \in 1 .. Len(v) : i + 1 \in 1 .. Len(w) /\ i + 1 # 1 /\ 1 \in 1 .. Len(w)
    BY <1>3
  <2>2. \A i, j \in 1 .. Len(v) : i # j => i + 1 # j + 1
    BY <1>3
  <2>3. Waits(w, a, p)
    BY DEF Leads
  <2>4. ASSUME NEW i \in 1 .. Len(v), v[i].op = "runtask"
        PROVE  v[i].task \in Tasks /\ q[v[i].task] = "none" /\ a[v[i].task] # -1
    <3>1. w[i + 1].op = "runtask" /\ w[i + 1].task = v[i].task /\ i + 1 \in 1 .. Len(w)
      BY <1>3, <2>1, <2>4
    <3>2. v[i].task \in Tasks /\ p[v[i].task] = "none" /\ a[v[i].task] # -1
      BY <2>3, <3>1 DEF Waits
    <3>3. ~ (w[1].op = "runtask" /\ w[1].task = v[i].task)
      BY <2>1, <2>3, <3>1 DEF Waits
    <3> QED BY <3>2, <3>3
  <2>5. \A i, j \in 1 .. Len(v) :
          i # j /\ v[i].op = "runtask" /\ v[j].op = "runtask" => v[i].task # v[j].task
    BY <1>3, <2>1, <2>2, <2>3 DEF Waits
  <2> QED BY <1>3, <2>4, <2>5 DEF Waits
<1> DEFINE g == [i \in 0 .. Len(v) |-> f[i + 1]]
<1>6. Counts(v, g, a, new) /\ g[Len(v)] = to
  <2>1. f \in [0 .. Len(w) -> Nat] /\ f[0] = from /\ f[1] = new
    BY <1>1, <1>3 DEF Counts
  <2>2. g \in [0 .. Len(v) -> Nat] /\ g[0] = new /\ g[Len(v)] = to
    BY <1>1, <1>3, <2>1
  <2>3. \A i \in 1 .. Len(v) : g[i] = f[i + 1] /\ g[i - 1] = f[(i + 1) - 1] /\ i + 1 \in 1 .. Len(w)
    BY <1>3
  <2> HIDE DEF g
  <2> QED BY <1>1, <1>3, <2>2, <2>3 DEF Counts
<1> HIDE DEF g
<1> QED BY <1>5, <1>6 DEF Leads, v

(* What was not written yet is lost with the server.                        *)
LEMMA DropLast ==
  ASSUME NEW w \in Seq(Messages), NEW m \in Messages, NEW a, NEW p, NEW from, NEW to,
         Leads(Append(w, m), a, p, from, to)
  PROVE  \E old \in Nat : Leads(w, a, p, from, old)
<1> DEFINE v == Append(w, m)
<1>1. PICK f : Counts(v, f, a, from) /\ f[Len(v)] = to
  BY DEF Leads
<1>2. Len(v) = Len(w) + 1 /\ Len(w) \in Nat /\ \A i \in 1 .. Len(w) : v[i] = w[i]
  OBVIOUS
<1>3. Waits(v, a, p)
  BY DEF Leads
<1> HIDE DEF v
<1>4. Waits(w, a, p)
  BY <1>2, <1>3 DEF Waits
<1> DEFINE g == [i \in 0 .. Len(w) |-> f[i]]
<1>5. f \in [0 .. Len(v) -> Nat] /\ f[0] = from
  BY <1>1 DEF Counts
<1>6. g \in [0 .. Len(w) -> Nat] /\ g[0] = from /\ g[Len(w)] \in Nat
  BY <1>2, <1>5
<1>7. \A i \in 1 .. Len(w) : g[i] = f[i] /\ g[i - 1] = f[i - 1] /\ i \in 1 .. Len(v)
  BY <1>2
<1> HIDE DEF g
<1>8. Counts(w, g, a, from)
  BY <1>1, <1>2, <1>6, <1>7 DEF Counts
<1> QED BY <1>4, <1>6, <1>8 DEF Leads

(* Tasks that have no process keep none as others go on.                    *)
LEMMA OthersGoOn ==
  ASSUME NEW w, NEW a, NEW p, NEW q, NEW from, NEW to, Leads(w, a, p, from, to),
         \A t \in Tasks : p[t] = "none" => q[t] = "none"
  PROVE  Leads(w, a, q, from, to)
  BY DEF Leads, Waits

-----------------------------------------------------------------------------
(* The invariant                                                            *)

Codes == {"none", "exited", "killed"}
Procs == Running \cup {"none", "zombie", "reaped", "orphan"}

Types ==
  /\ asked \in [Tasks -> Int] /\ hashes \in [Tasks -> Int] /\ heard \in [Tasks -> Codes]
  /\ proc \in [Tasks -> Procs] /\ status \in [Tasks -> Codes]
  /\ newhashes \in Nat /\ sentHashes \in Nat
  /\ \A t \in Tasks : asked[t] = -1 => proc[t] = "none"

Line == queue \o stdin \o sending

Pieces ==
  /\ queue \in Seq(Messages) /\ stdin \in Seq(Messages)
  /\ sending = <<>> \/ \E m \in Messages : sending = <<m>>
  /\ wpc \in Ops => queue # <<>>

\* What a server that died had not written is missing.
InLine ==
  \E to \in Nat : /\ Leads(Line, asked, proc, newhashes, to)
                  /\ srv # "dead" => to = sentHashes

LineOK == Up => Pieces /\ InLine

Reports == [op : {"event", "exitcode"}, task : Tasks, status : Codes]
AllTrue(s, p, st) ==
  /\ s \in Seq(Reports)
  /\ \A i \in 1 .. Len(s) : s[i].op = "exitcode" =>
       p[s[i].task] = "reaped" /\ s[i].status = st[s[i].task]
CodesOK ==
  /\ AllTrue(worker_queue, proc, status) /\ AllTrue(stdout, proc, status)
  /\ pipe \in [Tasks -> Seq(Reports)]
  /\ \A t \in Tasks : pipe[t] = <<>> \/ pipe[t] = <<Event(t)>>
  /\ ExitCodesAreTrue

WorkerInv == Types /\ LineOK /\ HashesInOrder /\ CodesOK

(* The pieces of the line, put together.                                    *)
LEMMA LineFacts ==
  ASSUME Pieces
  PROVE  /\ Line \in Seq(Messages)
         /\ sending = <<>> => Line = queue \o stdin
         /\ queue # <<>> => /\ Line # <<>> /\ Line[1] = Head(queue) /\ Head(queue) \in Messages
                            /\ Tail(queue) \in Seq(Messages)
                            /\ Tail(queue) \o stdin \o sending = Tail(Line)
<1>1. sending \in Seq(Messages)
  <2>1. \A m \in Messages : <<m>> \in Seq(Messages)
    OBVIOUS
  <2> QED BY <2>1, EmptySeq DEF Pieces
<1>2. queue \in Seq(Messages) /\ stdin \in Seq(Messages)
  BY DEF Pieces
<1>3. Line \in Seq(Messages)
  BY <1>1, <1>2 DEF Line
<1>4. sending = <<>> => Line = queue \o stdin
  BY <1>2, ConcatEmptySeq DEF Line
<1>5. ASSUME queue # <<>>
      PROVE  /\ Line # <<>> /\ Line[1] = Head(queue) /\ Head(queue) \in Messages
             /\ Tail(queue) \in Seq(Messages)
             /\ Tail(queue) \o stdin \o sending = Tail(Line)
  <2>1. Tail(queue) \in Seq(Messages) /\ Head(queue) \in Messages /\ Len(queue) \in Nat
        /\ Len(queue) > 0 /\ Len(Tail(queue)) = Len(queue) - 1 /\ Head(queue) = queue[1]
    BY <1>2, <1>5
  <2>2. Len(Line) = Len(queue) + Len(stdin) + Len(sending) /\ Line[1] = queue[1]
    BY <1>1, <1>2, <2>1 DEF Line
  <2>3. Tail(queue) \o stdin \o sending = Tail(Line)
    BY <1>1, <1>2, <1>3, <2>1, <2>2 DEF Line
  <2> QED BY <1>1, <1>2, <1>3, <2>1, <2>2, <2>3
<1> QED BY <1>3, <1>4, <1>5

(* What is sent comes last (RunQueueWorker, runQueuePipe).                  *)
LEMMA SentIsLast ==
  ASSUME Pieces, NEW m \in Messages
  PROVE  /\ queue \o stdin \o <<m>> = Append(queue \o stdin, m)
         /\ queue \o Append(stdin, m) \o <<>> = Append(queue \o stdin, m)
         /\ (queue \o stdin) \o <<>> = queue \o stdin
<1>1. queue \in Seq(Messages) /\ stdin \in Seq(Messages)
  BY DEF Pieces
<1>2. queue \o stdin \in Seq(Messages) /\ <<m>> \in Seq(Messages)
  BY <1>1
<1>3. queue \o stdin \o <<m>> = Append(queue \o stdin, m)
  BY <1>2, AppendIsConcat
<1>4. Append(stdin, m) = stdin \o <<m>> /\ Append(stdin, m) \in Seq(Messages)
  BY <1>1, AppendIsConcat
<1>5. queue \o Append(stdin, m) \in Seq(Messages)
      /\ queue \o Append(stdin, m) = (queue \o stdin) \o <<m>>
  BY <1>1, <1>2, <1>4, ConcatAssociative
<1> QED BY <1>2, <1>3, <1>5, ConcatEmptySeq

(* Where serve() goes on, there is an item (handle_item).                   *)
LEMMA GoesOnWithItem ==
  ASSUME queue' \in Seq(Messages)
  PROVE  /\ \A op \in Ops : GoOn(op) => (wpc' \in Ops => queue' # <<>>)
         /\ wpc' = NextItem(queue', 0) => (wpc' \in Ops => queue' # <<>>)
<1>1. "pipes" \notin Ops
  BY DEF Ops
<1>2. ASSUME NEW op \in Ops, GoOn(op), wpc' \in Ops PROVE queue' # <<>>
  <2>1. CASE Another(op)'
    <3>1. PICK i \in DOMAIN queue' : TRUE
      BY <2>1 DEF Another
    <3> QED BY <3>1
  <2>2. CASE ~ Another(op)'
    BY <1>1, <1>2, <2>2 DEF GoOn, After, NextItem
  <2> QED BY <2>1, <2>2
<1>3. ASSUME wpc' = NextItem(queue', 0), wpc' \in Ops PROVE queue' # <<>>
  BY <1>1, <1>3 DEF NextItem
<1> QED BY <1>2, <1>3

-----------------------------------------------------------------------------
(* The line                                                                 *)

\* No process is forgotten, and none appears.
NoneAppears == \A t \in Tasks : proc[t] = "none" => proc'[t] = "none"

(* Steps that do not touch the line keep it.                                *)
LEMMA LineKept ==
  ASSUME LineOK, UNCHANGED <<queue, stdin, sending, asked, newhashes, srv, sentHashes>>,
         NoneAppears, Up' => Up, Up' /\ wpc' \in Ops => queue # <<>>
  PROVE  LineOK'
<1> SUFFICES ASSUME Up' PROVE Pieces' /\ InLine'
  BY DEF LineOK
<1>1. Pieces /\ InLine
  BY DEF LineOK
<1>2. Pieces'
  BY <1>1 DEF Pieces
<1>3. PICK to \in Nat : Leads(Line, asked, proc, newhashes, to) /\ (srv # "dead" => to = sentHashes)
  BY <1>1 DEF InLine
<1>4. Leads(Line, asked, proc', newhashes, to)
  BY <1>3, OthersGoOn DEF NoneAppears
<1>5. Line' = Line
  BY DEF Line
<1> QED BY <1>2, <1>3, <1>4, <1>5 DEF InLine

(* What the server sends goes to the end (runtask).                         *)
LEMMA AskForKeepsLine ==
  ASSUME Types, LineOK, NEW t \in Tasks, AskFor(t)
  PROVE  LineOK'
<1> SUFFICES ASSUME Up' PROVE Pieces' /\ InLine'
  BY DEF LineOK
<1> DEFINE m == Msg("runtask", t)
<1>1. /\ srv = "run" /\ asked[t] = -1 /\ sending = <<>> /\ sending' = <<m>>
      /\ asked' = [asked EXCEPT ![t] = sentHashes]
      /\ UNCHANGED <<srv, sentHashes, stdin, wpc, queue, newhashes, proc>>
  BY DEF AskFor, Sends, loopvars, procvars
<1>2. Pieces /\ InLine
  BY <1>1 DEF LineOK, Up
<1>3. m \in Messages
  BY DEF Messages, Ops, Msg
<1>4. Pieces'
  BY <1>1, <1>2, <1>3 DEF Pieces
<1>5. Leads(Line, asked, proc, newhashes, sentHashes) /\ Line = queue \o stdin
  BY <1>1, <1>2, LineFacts DEF InLine
<1>6. asked \in [Tasks -> Int] /\ proc[t] = "none" /\ sentHashes \in Nat
  BY <1>1 DEF Types
<1>7. Leads(Append(Line, m), asked', proc, newhashes, sentHashes)
  BY <1>1, <1>5, <1>6, AppendRun
<1>8. Line' = Append(Line, m)
  BY <1>1, <1>2, <1>3, <1>5, SentIsLast DEF Line
<1> HIDE DEF m
<1> QED BY <1>1, <1>4, <1>6, <1>7, <1>8 DEF InLine

(* process_possible_migrations, finish_now, _teardown_worker                *)
LEMMA SendsKeepLine ==
  ASSUME Types, LineOK, SendHashes \/ FinishNow \/ TearDown
  PROVE  LineOK'
<1> SUFFICES ASSUME Up' PROVE Pieces' /\ InLine'
  BY DEF LineOK
<1>1. PICK m \in Messages :
        /\ m.op # "runtask" /\ sending = <<>> /\ sending' = <<m>> /\ srv # "dead"
        /\ sentHashes' = IF m.op = "newtaskhashes" THEN sentHashes + 1 ELSE sentHashes
        /\ UNCHANGED <<asked, stdin, wpc, queue, newhashes, proc>>
  <2>1. CASE SendHashes
    <3>1. Msg("newtaskhashes", NoTask) \in Messages
      BY DEF Messages, Ops, Msg
    <3> QED BY <2>1, <3>1 DEF SendHashes, Sends, Msg, loopvars, procvars
  <2>2. CASE FinishNow
    <3>1. Msg("finishnow", NoTask) \in Messages
      BY DEF Messages, Ops, Msg
    <3> QED BY <2>2, <3>1 DEF FinishNow, Sends, Msg, loopvars, procvars
  <2>3. CASE TearDown
    <3>1. Msg("quit", NoTask) \in Messages
      BY DEF Messages, Ops, Msg
    <3> QED BY <2>3, <3>1 DEF TearDown, Sends, Msg, loopvars, procvars
  <2> QED BY <2>1, <2>2, <2>3
<1>2. Pieces /\ InLine
  BY <1>1 DEF LineOK, Up
<1>3. Pieces'
  BY <1>1, <1>2 DEF Pieces
<1>4. Leads(Line, asked, proc, newhashes, sentHashes) /\ Line = queue \o stdin
  BY <1>1, <1>2, LineFacts DEF InLine
<1>5. sentHashes \in Nat /\ sentHashes' \in Nat
  BY <1>1 DEF Types
<1>6. Leads(Append(Line, m), asked, proc, newhashes, sentHashes')
  BY <1>1, <1>4, <1>5, AppendOther
<1>7. Line' = Append(Line, m)
  BY <1>1, <1>2, <1>4, SentIsLast DEF Line
<1> QED BY <1>1, <1>3, <1>5, <1>6, <1>7 DEF InLine

(* The write and the read move it on; a server that dies leaves its end off *)
(* (RunQueueWorker.process, serve).                                         *)
LEMMA MovesKeepLine ==
  ASSUME Types, LineOK, Write \/ Select \/ ServerDies
  PROVE  LineOK'
<1> SUFFICES ASSUME Up' PROVE Pieces' /\ InLine'
  BY DEF LineOK
<1>1. Up
  BY DEF Write, Select, ServerDies, Up
<1>2. Pieces /\ InLine
  BY <1>1 DEF LineOK
<1>3. PICK to \in Nat : Leads(Line, asked, proc, newhashes, to) /\ (srv # "dead" => to = sentHashes)
  BY <1>2 DEF InLine
<1>4. UNCHANGED <<asked, proc, newhashes, sentHashes>>
  BY DEF Write, Select, ServerDies, loopvars, procvars, srvvars
<1>5. CASE Write
  <2>1. PICK m \in Messages : sending = <<m>>
    BY <1>2, <1>5 DEF Write, Pieces
  <2>2. /\ stdin' = Append(stdin, m) /\ sending' = <<>> /\ queue' = queue /\ wpc' = wpc
        /\ srv' # "dead" => srv # "dead"
    BY <1>1, <1>5, <2>1 DEF Write, loopvars
  <2>3. Pieces'
    BY <1>2, <2>2 DEF Pieces
  <2>4. Line' = Line
    BY <1>2, <2>1, <2>2, SentIsLast DEF Line
  <2> QED BY <1>3, <1>4, <2>2, <2>3, <2>4 DEF InLine
<1>6. CASE Select
  <2>1. /\ queue' = queue \o stdin /\ stdin' = <<>> /\ UNCHANGED <<sending, srv>>
        /\ wpc' = NextItem(queue', 0)
    BY <1>6 DEF Select, srvvars
  <2>2. queue \in Seq(Messages) /\ stdin \in Seq(Messages) /\ queue' \in Seq(Messages)
        /\ stdin' \in Seq(Messages)
    BY <1>2, <2>1, EmptySeq DEF Pieces
  <2>3. Pieces'
    BY <1>2, <2>1, <2>2, GoesOnWithItem DEF Pieces
  <2>4. Line' = Line
    BY <2>1, <2>2, ConcatEmptySeq DEF Line
  <2> QED BY <1>3, <1>4, <2>1, <2>3, <2>4 DEF InLine
<1>7. CASE ServerDies
  <2>1. sending' = <<>> /\ srv' = "dead" /\ UNCHANGED <<queue, stdin, wpc>>
    BY <1>7 DEF ServerDies, loopvars
  <2>2. Pieces'
    BY <1>2, <2>1 DEF Pieces
  <2>3. queue \o stdin \in Seq(Messages) /\ Line' = queue \o stdin
    BY <1>2, <2>1, ConcatEmptySeq DEF Pieces, Line
  <2>4. CASE sending = <<>>
    BY <1>2, <1>3, <1>4, <2>1, <2>2, <2>3, <2>4, LineFacts DEF InLine
  <2>5. ASSUME NEW m \in Messages, sending = <<m>> PROVE InLine'
    <3>1. Line = Append(queue \o stdin, m)
      BY <1>2, <2>5, SentIsLast DEF Line
    <3>2. PICK old \in Nat : Leads(queue \o stdin, asked, proc, newhashes, old)
      BY <1>3, <2>3, <3>1, DropLast
    <3> QED BY <1>4, <2>1, <2>3, <3>2 DEF InLine
  <2> QED BY <1>2, <2>2, <2>4, <2>5 DEF Pieces
<1> QED BY <1>5, <1>6, <1>7

(* An item that is handled is taken from the head; a task that is started   *)
(* then has the hashes it was asked for with (handle_runtask).              *)
LEMMA HandlingKeepsLine ==
  ASSUME Types, LineOK,
         HandleNewTaskHashes \/ HandleRunTask \/ HandleFinishNow \/ HandleQuit
  PROVE  /\ LineOK'
         /\ HandleRunTask => LET t == Head(queue).task IN
              t \in Tasks /\ proc[t] = "none" /\ asked[t] = newhashes
<1>1. /\ wpc \in Ops /\ Head(queue).op = wpc /\ queue' = Tail(queue)
      /\ UNCHANGED <<stdin, sending, asked, srv, sentHashes>>
      /\ newhashes' = IF Head(queue).op = "newtaskhashes" THEN newhashes + 1 ELSE newhashes
      /\ \/ GoOn(wpc)
         \/ wpc' \notin Ops
      /\ HandleRunTask <=> wpc = "runtask"
      /\ IF HandleRunTask
         THEN proc' = [proc EXCEPT ![Head(queue).task] = "forked"]
         ELSE proc' = proc
  <2>1. CASE HandleNewTaskHashes
    BY <2>1 DEF HandleNewTaskHashes, HandleRunTask, Handling, srvvars, procvars, Ops
  <2>2. CASE HandleRunTask
    BY <2>2 DEF HandleRunTask, Handling, srvvars, Ops
  <2>3. CASE HandleFinishNow
    BY <2>3 DEF HandleFinishNow, HandleRunTask, Handling, srvvars, procvars, Ops
  <2>4. CASE HandleQuit
    BY <2>4 DEF HandleQuit, HandleRunTask, Handling, srvvars, procvars, Ops
  <2> QED BY <2>1, <2>2, <2>3, <2>4
<1>2. Pieces /\ InLine /\ queue # <<>>
  BY <1>1 DEF LineOK, Pieces, Up, Ops
<1>3. PICK to \in Nat : Leads(Line, asked, proc, newhashes, to) /\ (srv # "dead" => to = sentHashes)
  BY <1>2 DEF InLine
<1>4. /\ Line # <<>> /\ Line[1] = Head(queue) /\ Tail(queue) \in Seq(Messages)
      /\ Line' = Tail(Line)
  BY <1>1, <1>2, LineFacts DEF Line
<1>5. newhashes \in Nat /\ newhashes' \in Nat
  BY <1>1 DEF Types
<1>6. \A t \in Tasks : proc[t] = "none" =>
        proc'[t] = "none" \/ (Line[1].op = "runtask" /\ Line[1].task = t)
  BY <1>1, <1>4 DEF Types
<1>7. /\ Leads(Tail(Line), asked, proc', newhashes', to)
      /\ Line[1].op = "runtask" => Line[1].task \in Tasks /\ proc[Line[1].task] = "none"
                                   /\ asked[Line[1].task] = newhashes
  <2>1. newhashes' = IF Line[1].op = "newtaskhashes" THEN newhashes + 1 ELSE newhashes
    BY <1>1, <1>4
  <2>2. Leads(Line, asked, proc, newhashes, to) /\ Line # <<>>
    BY <1>3, <1>4
  <2>3. PICK w, q, new : w = Line /\ q = proc' /\ new = newhashes'
    OBVIOUS
  <2>4. /\ Leads(w, asked, proc, newhashes, to) /\ w # <<>> /\ new \in Nat /\ newhashes \in Nat
        /\ new = IF w[1].op = "newtaskhashes" THEN newhashes + 1 ELSE newhashes
        /\ \A t \in Tasks : proc[t] = "none" => q[t] = "none" \/ (w[1].op = "runtask" /\ w[1].task = t)
    BY <1>5, <1>6, <2>1, <2>2, <2>3
  <2>5. Leads(Tail(w), asked, q, new, to)
    BY <2>4, TakeHead
  <2>6. w[1].op = "runtask" => w[1].task \in Tasks /\ proc[w[1].task] = "none"
                                 /\ asked[w[1].task] = newhashes
    BY <2>4, HeadIsMet
  <2> QED BY <2>3, <2>5, <2>6
<1>8. Pieces'
  BY <1>1, <1>2, <1>4, GoesOnWithItem DEF Pieces
<1>9. InLine'
  BY <1>1, <1>3, <1>4, <1>7 DEF InLine
<1> QED BY <1>1, <1>4, <1>7, <1>8, <1>9 DEF LineOK

-----------------------------------------------------------------------------
(* Exit codes                                                               *)

\* What has been collected stays as it is.
ReapedStay ==
  \A t \in Tasks : proc[t] = "reaped" => proc'[t] = "reaped" /\ status'[t] = status[t]

(* Codes that are under way stay true.                                      *)
LEMMA TrueStay ==
  ASSUME NEW s, NEW p, NEW st, NEW q, NEW su, AllTrue(s, p, st),
         \A t \in Tasks : p[t] = "reaped" => q[t] = "reaped" /\ su[t] = st[t]
  PROVE  AllTrue(s, q, su)
<1> SUFFICES ASSUME NEW i \in 1 .. Len(s), s[i].op = "exitcode"
             PROVE  q[s[i].task] = "reaped" /\ s[i].status = su[s[i].task]
  BY DEF AllTrue
<1>1. s[i] \in Reports
  BY ElementOfSeq DEF AllTrue
<1>2. s[i].task \in Tasks
  BY <1>1 DEF Reports
<1> QED BY <1>2 DEF AllTrue

LEMMA CodesStay ==
  ASSUME CodesOK, ReapedStay
  PROVE  /\ AllTrue(worker_queue, proc', status') /\ AllTrue(stdout, proc', status')
         /\ UNCHANGED heard => ExitCodesAreTrue'
<1>1. AllTrue(worker_queue, proc', status')
  BY TrueStay DEF CodesOK, ReapedStay
<1>2. AllTrue(stdout, proc', status')
  BY TrueStay DEF CodesOK, ReapedStay
<1>3. UNCHANGED heard => ExitCodesAreTrue'
  BY DEF CodesOK, ReapedStay, ExitCodesAreTrue
<1> QED BY <1>1, <1>2, <1>3

(* What is written to the pipe back keeps its order and its truth           *)
(* (worker_flush).                                                          *)
LEMMA TrueTogether ==
  ASSUME NEW r, NEW s, NEW p, NEW st, AllTrue(r, p, st), AllTrue(s, p, st)
  PROVE  AllTrue(r \o s, p, st)
<1>0. r \in Seq(Reports) /\ s \in Seq(Reports)
  BY DEF AllTrue
<1>1. /\ r \o s \in Seq(Reports) /\ Len(r \o s) = Len(r) + Len(s)
      /\ Len(r) \in Nat /\ Len(s) \in Nat
      /\ \A i \in 1 .. Len(r) + Len(s) : (r \o s)[i] = IF i <= Len(r) THEN r[i] ELSE s[i - Len(r)]
  BY <1>0, ConcatProperties, LenProperties
<1> DEFINE z == r \o s
<1> HIDE DEF z
<1>2. ASSUME NEW i \in 1 .. Len(z), z[i].op = "exitcode"
      PROVE  p[z[i].task] = "reaped" /\ z[i].status = st[z[i].task]
  <2>1. CASE i <= Len(r)
    BY <1>1, <1>2, <2>1 DEF AllTrue, z
  <2>2. CASE ~ i <= Len(r)
    <3>1. z[i] = s[i - Len(r)] /\ i - Len(r) \in 1 .. Len(s)
      BY <1>1, <2>2 DEF z
    <3> QED BY <1>2, <3>1 DEF AllTrue
  <2> QED BY <1>1, <2>1, <2>2
<1> QED BY <1>1, <1>2 DEF AllTrue, z

(* Events, from the tasks' pipes (runQueueWorkerPipe.read).                 *)
LEMMA EventsRead ==
  ASSUME NEW S \in SUBSET Tasks, NEW ts \in Orders(S)
  PROVE  LET es == [i \in DOMAIN ts |-> Event(ts[i])] IN
           es \in Seq(Reports) /\ \A i \in 1 .. Len(es) : es[i].op = "event"
<1>1. Cardinality(S) \in Nat
  BY BitbakeWorkerAssumption, FS_Subset, FS_CardinalityType
<1>2. ts \in [1 .. Cardinality(S) -> Tasks]
  BY DEF Orders
<1>3. \A i \in 1 .. Cardinality(S) : Event(ts[i]) \in Reports /\ Event(ts[i]).op = "event"
  BY <1>2 DEF Event, Reports, Codes
<1> DEFINE es == [i \in DOMAIN ts |-> Event(ts[i])]
<1>4. es = [i \in 1 .. Cardinality(S) |-> Event(ts[i])]
  BY <1>2
<1>5. es \in Seq(Reports) /\ Len(es) = Cardinality(S)
  BY <1>1, <1>3, <1>4
<1> QED BY <1>3, <1>4, <1>5

(* Steps that read and write no code.                                       *)
LEMMA CodesKept ==
  ASSUME CodesOK, ReapedStay, UNCHANGED <<worker_queue, stdout, heard, pipe>>
  PROVE  CodesOK'
  BY CodesStay DEF CodesOK

(* A pipe holds at most one event of its task, or was read.                 *)
PipesOK ==
  /\ pipe \in [Tasks -> Seq(Reports)]
  /\ \A t \in Tasks : pipe[t] = <<>> \/ pipe[t] = <<Event(t)>>

LEMMA PipesKept ==
  ASSUME PipesOK,
         \/ \E S : pipe' = [t \in Tasks |-> IF t \in S THEN <<>> ELSE pipe[t]]
         \/ \E t \in Tasks : pipe' = [pipe EXCEPT ![t] = <<Event(t)>>]
  PROVE  PipesOK'
<1>1. \A t \in Tasks : <<Event(t)>> \in Seq(Reports)
  <2>1. \A t \in Tasks : Event(t) \in Reports
    BY DEF Event, Reports, Codes
  <2> QED BY <2>1
<1>2. <<>> \in Seq(Reports)
  BY EmptySeq
<1>3. CASE \E S : pipe' = [t \in Tasks |-> IF t \in S THEN <<>> ELSE pipe[t]]
  BY <1>2, <1>3 DEF PipesOK
<1>4. CASE \E t \in Tasks : pipe' = [pipe EXCEPT ![t] = <<Event(t)>>]
  BY <1>1, <1>4 DEF PipesOK
<1> QED BY <1>3, <1>4

(* Reading the tasks' pipes adds events only (ReadPipes, handle_finishnow). *)
LEMMA ReadKeepsCodes ==
  ASSUME CodesOK, ReapedStay, UNCHANGED <<stdout, heard>>, NEW S \in SUBSET Tasks, ReadFrom(S)
  PROVE  CodesOK'
<1>1. PICK ts \in Orders(S) :
        worker_queue' = worker_queue \o [i \in DOMAIN ts |-> Event(ts[i])]
  BY DEF ReadFrom
<1> DEFINE es == [i \in DOMAIN ts |-> Event(ts[i])]
<1>2. es \in Seq(Reports) /\ \A i \in 1 .. Len(es) : es[i].op = "event"
  BY EventsRead
<1>3. AllTrue(es, proc', status')
  BY <1>2 DEF AllTrue
<1>4. AllTrue(worker_queue \o es, proc', status')
  BY <1>3, CodesStay, TrueTogether
<1>8. AllTrue(worker_queue', proc', status') /\ AllTrue(stdout', proc', status')
  BY <1>1, <1>4, CodesStay
<1>9. PipesOK'
  BY PipesKept DEF ReadFrom, Drained, CodesOK, PipesOK
<1> QED BY <1>8, <1>9, CodesStay DEF CodesOK, PipesOK

-----------------------------------------------------------------------------
(* The steps                                                                *)

\* What the processes may do: they do not appear, nor change once collected.
Proceeds ==
  /\ proc' \in [Tasks -> Procs] /\ status' \in [Tasks -> Codes]
  /\ NoneAppears /\ ReapedStay

(* Nothing is asked for or started, so the hashes stay in order.            *)
LEMMA TypesKept ==
  ASSUME Types, HashesInOrder, Proceeds, UNCHANGED <<asked, hashes>>,
         heard' \in [Tasks -> Codes], newhashes' \in Nat, sentHashes' \in Nat
  PROVE  Types' /\ HashesInOrder'
  BY DEF Types, HashesInOrder, Proceeds, NoneAppears

LEMMA NothingProceeds ==
  ASSUME Types, UNCHANGED <<proc, status>> PROVE Proceeds
  BY DEF Types, Proceeds, NoneAppears, ReapedStay

(* The server's steps (runtask, _teardown_worker, runQueuePipe.read)        *)
LEMMA ServerKeeps ==
  ASSUME WorkerInv, Server
  PROVE  WorkerInv'
<1> USE DEF WorkerInv
<1>1. ASSUME NEW t \in Tasks, AskFor(t) PROVE WorkerInv'
  <2>1. /\ asked[t] = -1 /\ asked' = [asked EXCEPT ![t] = sentHashes]
        /\ UNCHANGED <<proc, status, hashes, heard, newhashes, sentHashes, worker_queue, stdout, pipe>>
    BY <1>1 DEF AskFor, Sends, loopvars, procvars
  <2>2. Types' /\ HashesInOrder'
    BY <2>1 DEF Types, HashesInOrder
  <2>3. CodesOK'
    BY <2>1, NothingProceeds, CodesKept DEF Proceeds
  <2> QED BY <1>1, <2>2, <2>3, AskForKeepsLine
<1>2. CASE SendHashes \/ FinishNow \/ TearDown \/ Write \/ ServerDies
  <2>1. /\ UNCHANGED <<asked, proc, status, hashes, heard, newhashes, worker_queue, stdout, pipe>>
        /\ sentHashes' \in {sentHashes, sentHashes + 1}
    BY <1>2 DEF SendHashes, FinishNow, TearDown, Write, ServerDies, loopvars, procvars
  <2>2. heard' \in [Tasks -> Codes] /\ newhashes' \in Nat /\ sentHashes' \in Nat
    BY <2>1 DEF Types
  <2>3. Types' /\ HashesInOrder' /\ CodesOK'
    BY <2>1, <2>2, NothingProceeds, TypesKept, CodesKept DEF Proceeds
  <2> QED BY <1>2, <2>3, SendsKeepLine, MovesKeepLine
<1>3. CASE ReadBack
  <2>1. /\ UNCHANGED <<asked, proc, status, hashes, newhashes, sentHashes, worker_queue, pipe, queue,
                       stdin, sending, srv, wpc>>
        /\ stdout # <<>> /\ stdout' = Tail(stdout)
        /\ IF Head(stdout).op = "event" THEN heard' = heard
           ELSE heard' = [heard EXCEPT ![Head(stdout).task] = Head(stdout).status]
    BY <1>3 DEF ReadBack, loopvars, procvars
  <2>2. stdout \in Seq(Reports) /\ AllTrue(stdout, proc, status)
    BY DEF CodesOK, AllTrue
  <2>3. /\ Head(stdout) = stdout[1] /\ Head(stdout) \in Reports /\ Tail(stdout) \in Seq(Reports)
        /\ 1 \in 1 .. Len(stdout)
        /\ \A i \in 1 .. Len(Tail(stdout)) : Tail(stdout)[i] = stdout[i + 1] /\ i + 1 \in 1 .. Len(stdout)
    BY <2>1, <2>2, HeadTailProperties, LenProperties
  <2>4. AllTrue(stdout', proc, status)
    BY <2>1, <2>2, <2>3 DEF AllTrue
  <2>5. heard' \in [Tasks -> Codes] /\ ExitCodesAreTrue'
    <3>1. CASE heard' = heard
      BY <2>1, <3>1 DEF Types, CodesOK, ExitCodesAreTrue
    <3>2. CASE Head(stdout).op # "event"
      <4>1. /\ Head(stdout).op = "exitcode" /\ Head(stdout).task \in Tasks
            /\ Head(stdout).status \in Codes
        BY <2>3, <3>2 DEF Reports
      <4>2. /\ proc[Head(stdout).task] = "reaped"
            /\ Head(stdout).status = status[Head(stdout).task]
        BY <2>2, <2>3, <4>1 DEF AllTrue
      <4> QED BY <2>1, <3>2, <4>1, <4>2 DEF Types, CodesOK, ExitCodesAreTrue
    <3> QED BY <2>1, <3>1, <3>2
  <2>6. CodesOK'
    BY <2>1, <2>4, <2>5 DEF CodesOK
  <2>7. newhashes' \in Nat /\ sentHashes' \in Nat
    BY <2>1 DEF Types
  <2>8. Types' /\ HashesInOrder' /\ Proceeds
    BY <2>1, <2>5, <2>7, NothingProceeds, TypesKept
  <2>9. LineOK'
    <3>1. wpc \in Ops /\ Up => queue # <<>>
      BY DEF LineOK, Pieces
    <3> QED BY <2>1, <2>8, <3>1, LineKept DEF Proceeds, Up
  <2> QED BY <2>6, <2>8, <2>9
<1> QED BY <1>1, <1>2, <1>3 DEF Server

(* Steps that leave the line where it is                                    *)
LEMMA RestKept ==
  ASSUME WorkerInv, Proceeds, CodesOK', Up' => Up,
         UNCHANGED <<queue, stdin, sending, asked, newhashes, srv, sentHashes, hashes, heard>>,
         wpc' \in Ops => queue # <<>>
  PROVE  WorkerInv'
<1>1. heard' \in [Tasks -> Codes] /\ newhashes' \in Nat /\ sentHashes' \in Nat
  BY DEF WorkerInv, Types
<1>2. Types' /\ HashesInOrder'
  BY <1>1, TypesKept DEF WorkerInv
<1>3. LineOK'
  BY LineKept DEF WorkerInv, Proceeds
<1> QED BY <1>2, <1>3 DEF WorkerInv

(* The steps of a task's process (fork_off_task, worker_child_fire)         *)
LEMMA ProcessKeeps ==
  ASSUME WorkerInv, NEW t \in Tasks, Process(t)
  PROVE  WorkerInv'
<1>1. /\ UNCHANGED <<queue, stdin, stdout, worker_queue, sending, asked, newhashes, srv, sentHashes,
                     hashes, heard, wpc>>
      /\ proc[t] \in Running
  BY DEF Process, SetUp, Fire, Exit, Terminated, Running, loopvars, srvvars
<1>2. wpc' \in Ops /\ Up' => queue # <<>>
  BY <1>1 DEF WorkerInv, LineOK, Pieces, Up
<1>3. PipesOK'
  <2>1. CASE pipe' = pipe
    BY <2>1 DEF WorkerInv, CodesOK, PipesOK
  <2>2. CASE Fire(t)
    BY <2>2, PipesKept DEF WorkerInv, CodesOK, PipesOK, Fire
  <2>3. CASE Terminated(t) /\ pipe' # pipe
    <3>1. pipe' = [u \in Tasks |-> IF u \in siblings[t] THEN <<>> ELSE pipe[u]]
      BY <2>3 DEF Terminated
    <3> QED BY <3>1, PipesKept DEF WorkerInv, CodesOK, PipesOK
  <2>4. SetUp(t) \/ Exit(t) => pipe' = pipe
    BY DEF SetUp, Exit
  <2> QED BY <2>1, <2>2, <2>3, <2>4 DEF Process
<1>4. Proceeds
  <2>1. proc \in [Tasks -> Procs] /\ status \in [Tasks -> Codes]
    BY DEF WorkerInv, Types
  <2>2. /\ \/ proc' = proc
           \/ \E s \in {"leader", "ready", "zombie"} : proc' = [proc EXCEPT ![t] = s]
        /\ status' = status \/ \E s \in {"exited", "killed"} : status' = [status EXCEPT ![t] = s]
    BY DEF Process, SetUp, Fire, Exit, Terminated, Ends
  <2>3. proc' \in [Tasks -> Procs] /\ status' \in [Tasks -> Codes]
    BY <2>1, <2>2 DEF Procs, Codes, Running
  <2>4. \A u \in Tasks : u # t => proc'[u] = proc[u] /\ status'[u] = status[u]
    BY <2>1, <2>2
  <2>5. proc[t] # "none" /\ proc[t] # "reaped"
    BY <1>1 DEF Running
  <2> QED BY <2>3, <2>4, <2>5 DEF Proceeds, NoneAppears, ReapedStay
<1>5. CodesOK'
  BY <1>1, <1>3, <1>4, CodesStay DEF WorkerInv, CodesOK, PipesOK, Proceeds
<1>6. CASE Up'
  BY <1>1, <1>2, <1>4, <1>5, <1>6, RestKept DEF Up
<1>7. CASE ~Up'
  <2>1. heard' \in [Tasks -> Codes] /\ newhashes' \in Nat /\ sentHashes' \in Nat
    BY <1>1 DEF WorkerInv, Types
  <2> QED BY <1>1, <1>4, <1>5, <1>7, <2>1, TypesKept DEF WorkerInv, LineOK
<1> QED BY <1>6, <1>7

(* A worker that is gone has no line.                                       *)
LEMMA GoneKeeps ==
  ASSUME WorkerInv, Gone
  PROVE  WorkerInv'
<1>1. /\ UNCHANGED <<queue, stdin, stdout, sending, asked, newhashes, srv, sentHashes, hashes, heard,
                     status, pipe>>
      /\ worker_queue' = <<>> /\ wpc' = "gone"
  BY DEF Gone, loopvars, srvvars
<1>2. Proceeds
  <2>1. proc \in [Tasks -> Procs] /\ status \in [Tasks -> Codes]
    BY DEF WorkerInv, Types
  <2>2. proc' = [t \in Tasks |-> IF proc[t] \in Running THEN "orphan"
                                 ELSE IF proc[t] = "zombie" THEN "reaped" ELSE proc[t]]
    BY DEF Gone
  <2>3. proc' \in [Tasks -> Procs]
    BY <2>1, <2>2 DEF Procs
  <2>4. NoneAppears /\ ReapedStay
    BY <1>1, <2>2 DEF NoneAppears, ReapedStay, Running
  <2> QED BY <1>1, <2>1, <2>3, <2>4 DEF Proceeds
<1>3. AllTrue(<<>>, proc', status')
  BY EmptySeq DEF AllTrue
<1>4. CodesOK'
  BY <1>1, <1>2, <1>3, CodesStay DEF WorkerInv, CodesOK, Proceeds
<1>5. ~Up' /\ wpc' \notin Ops
  BY <1>1 DEF Up, Ops
<1> QED BY <1>1, <1>2, <1>4, <1>5, RestKept DEF Up

PidsOK == build_pids \subseteq Tasks /\ ready \subseteq Tasks

(* serve(), process_waitpid and handle_finishnow                            *)
LEMMA ServeKeeps ==
  ASSUME WorkerInv, PidsOK, Serve
  PROVE  WorkerInv'
<1>0. Types /\ LineOK /\ HashesInOrder /\ CodesOK
  BY DEF WorkerInv
<1>1. CASE Select \/ HandleNewTaskHashes \/ HandleFinishNow \/ HandleQuit
  <2>1. /\ UNCHANGED <<asked, proc, status, hashes, heard, sentHashes, worker_queue, stdout, pipe>>
        /\ newhashes' \in {newhashes, newhashes + 1}
    BY <1>1 DEF Select, HandleNewTaskHashes, HandleFinishNow, HandleQuit, srvvars, procvars
  <2>2. heard' \in [Tasks -> Codes] /\ newhashes' \in Nat /\ sentHashes' \in Nat
    BY <1>0, <2>1 DEF Types
  <2>3. Types' /\ HashesInOrder' /\ CodesOK'
    BY <1>0, <2>1, <2>2, NothingProceeds, TypesKept, CodesKept DEF Proceeds
  <2> QED BY <1>0, <1>1, <2>3, MovesKeepLine, HandlingKeepsLine DEF WorkerInv
<1>2. CASE HandleRunTask
  <2>1. PICK t : t = Head(queue).task
    OBVIOUS
  <2>2. /\ proc' = [proc EXCEPT ![t] = "forked"] /\ hashes' = [hashes EXCEPT ![t] = newhashes]
        /\ UNCHANGED <<asked, status, heard, newhashes, sentHashes, worker_queue, stdout, pipe>>
    BY <1>2, <2>1 DEF HandleRunTask, srvvars
  <2>3. t \in Tasks /\ proc[t] = "none" /\ asked[t] = newhashes
    BY <1>0, <1>2, <2>1, HandlingKeepsLine
  <2>4. Types'
    BY <1>0, <2>2, <2>3 DEF Types, Procs, Running
  <2>5. HashesInOrder'
    BY <1>0, <2>2, <2>3 DEF Types, HashesInOrder
  <2>6. ReapedStay
    BY <1>0, <2>2, <2>3 DEF Types, ReapedStay
  <2> QED BY <1>0, <1>2, <2>2, <2>4, <2>5, <2>6, CodesKept, HandlingKeepsLine DEF WorkerInv
<1>3. CASE SelectEOF \/ Garbled \/ NoneToReap \/ \E t \in Tasks : KillOne(t)
  <2>1. /\ UNCHANGED <<queue, stdin, stdout, worker_queue, sending, asked, newhashes, srv, sentHashes,
                       hashes, heard, proc, status, pipe>>
        /\ wpc # "gone" /\ wpc' \notin Ops
    BY <1>3 DEF SelectEOF, Garbled, NoneToReap, KillOne, loopvars, srvvars, procvars, Items, Ops
  <2>2. Proceeds /\ CodesOK'
    BY <1>0, <2>1, NothingProceeds, CodesKept DEF Proceeds
  <2> QED BY <2>1, <2>2, RestKept DEF Up
<1>4. ASSUME NEW S \in SUBSET Tasks, ReadFrom(S), UNCHANGED <<proc, status, stdout, srvvars, stdin, asked,
             newhashes, hashes, queue>>, wpc # "gone", wpc' \in Ops => queue # <<>>
      PROVE  WorkerInv'
  <2>1. UNCHANGED <<sending, srv, sentHashes, heard>>
    BY <1>4 DEF srvvars
  <2>2. Proceeds /\ CodesOK'
    BY <1>0, <1>4, <2>1, NothingProceeds, ReadKeepsCodes DEF Proceeds
  <2> QED BY <1>4, <2>1, <2>2, RestKept DEF Up
<1>5. CASE ReadPipes
  <2>1. {t \in ready : pipe[t] # <<>>} \in SUBSET Tasks
    BY DEF PidsOK
  <2> QED BY <1>4, <1>5, <2>1 DEF ReadPipes, Ops, srvvars
<1>6. CASE KilledAll
  <2>1. CASE dies
    BY <1>6, <2>1, GoneKeeps DEF KilledAll
  <2>2. CASE ~ dies
    <3>1. {t \in build_pids : pipe[t] # <<>>} \in SUBSET Tasks
      BY DEF PidsOK
    <3>2. ReadFrom({t \in build_pids : pipe[t] # <<>>}) /\ GoOn("finishnow") /\ wpc = "kill"
          /\ UNCHANGED <<proc, status, stdout, srvvars, stdin, asked, newhashes, hashes, queue>>
      BY <1>6, <2>2 DEF KilledAll, srvvars, loopvars
    <3>3. queue' \in Seq(Messages)
      BY <1>0, <3>2 DEF LineOK, Pieces, Up
    <3>4. wpc' \in Ops => queue # <<>>
      BY <3>2, <3>3, GoesOnWithItem DEF Ops
    <3> QED BY <1>4, <3>1, <3>2, <3>4
  <2> QED BY <2>1, <2>2
<1>7. ASSUME NEW t \in Tasks, Reap(t) PROVE WorkerInv'
  <2>1. /\ UNCHANGED <<queue, stdin, stdout, sending, asked, newhashes, srv, sentHashes, hashes, heard,
                       status>>
        /\ wpc = "reap" /\ wpc' = "reap" /\ proc[t] = "zombie"
        /\ proc' = [proc EXCEPT ![t] = "reaped"]
        /\ worker_queue' = worker_queue \o (pipe[t] \o <<ExitCode(t, status[t])>>)
        /\ pipe' = [u \in Tasks |-> IF u \in {t} THEN <<>> ELSE pipe[u]]
    BY <1>7 DEF Reap, srvvars, Collected, CodeOf, Drained, Zombies
  <2>2. Proceeds
    BY <1>0, <2>1 DEF Types, Procs, Proceeds, NoneAppears, ReapedStay
  <2>3. AllTrue(pipe[t], proc', status')
    <3>1. pipe[t] \in Seq(Reports)
      BY <1>0 DEF CodesOK
    <3>2. CASE pipe[t] = <<>>
      BY <3>1, <3>2 DEF AllTrue
    <3>3. CASE pipe[t] = <<Event(t)>>
      BY <3>1, <3>3 DEF AllTrue, Event
    <3> QED BY <1>0, <3>2, <3>3 DEF CodesOK
  <2>4. AllTrue(<<ExitCode(t, status[t])>>, proc', status')
    <3>1. ExitCode(t, status[t]) \in Reports
      BY <1>0 DEF Types, Reports, ExitCode
    <3>2. <<ExitCode(t, status[t])>> \in Seq(Reports)
      BY <3>1
    <3>3. proc'[t] = "reaped" /\ status'[t] = status[t]
      BY <1>0, <2>1 DEF Types
    <3> QED BY <3>2, <3>3 DEF AllTrue, ExitCode
  <2>5. AllTrue(worker_queue', proc', status') /\ AllTrue(stdout', proc', status')
    BY <1>0, <2>1, <2>2, <2>3, <2>4, CodesStay, TrueTogether DEF Proceeds
  <2>6. PipesOK'
    BY <1>0, <2>1, PipesKept DEF CodesOK, PipesOK
  <2>7. CodesOK'
    BY <1>0, <2>1, <2>2, <2>5, <2>6, CodesStay DEF CodesOK, PipesOK, Proceeds
  <2> QED BY <2>1, <2>2, <2>7, RestKept DEF Up, Ops
<1>8. ASSUME NEW t \in Tasks, WaitOne(t) PROVE WorkerInv'
  <2>1. /\ UNCHANGED <<queue, stdin, stdout, sending, asked, newhashes, srv, sentHashes, hashes, heard,
                       status, worker_queue, pipe>>
        /\ wpc = "wait" /\ wpc' = "kill" /\ proc[t] = "zombie"
        /\ proc' = [proc EXCEPT ![t] = "reaped"]
    BY <1>8 DEF WaitOne, srvvars, loopvars, Zombies
  <2>2. Proceeds
    BY <1>0, <2>1 DEF Types, Procs, Proceeds, NoneAppears, ReapedStay
  <2>3. CodesOK'
    BY <1>0, <2>1, <2>2, CodesKept DEF Proceeds
  <2> QED BY <2>1, <2>2, <2>3, RestKept DEF Up, Ops
<1> QED BY <1>1, <1>2, <1>3, <1>5, <1>6, <1>7, <1>8 DEF Serve

(* The worker knows of processes of tasks only (build_pids).                *)
LEMMA PidsKept ==
  ASSUME WorkerInv, PidsOK, [Next]_vars
  PROVE  PidsOK'
<1>1. CASE Select \/ (\E t \in Tasks : Reap(t)) \/ ReadPipes
  BY <1>1 DEF PidsOK, Select, Reap, ReadPipes
<1>2. CASE HandleRunTask
  BY <1>2, HandlingKeepsLine DEF PidsOK, HandleRunTask, WorkerInv
<1>3. CASE UNCHANGED <<ready, build_pids>>
  BY <1>3 DEF PidsOK
<1>4. Server \/ (\E t \in Tasks : Process(t)) \/ Flush \/ Leave \/ WorkerKilled \/ UNCHANGED vars
        => UNCHANGED <<ready, build_pids>>
  BY DEF Server, AskFor, SendHashes, FinishNow, TearDown, Write, ReadBack, ServerDies, Process, SetUp,
     Fire, Exit, Terminated, Flush, Leave, WorkerKilled, Gone, loopvars, vars
<1>5. SelectEOF \/ HandleNewTaskHashes \/ HandleFinishNow \/ HandleQuit \/ Garbled \/ NoneToReap
        \/ KilledAll \/ (\E t \in Tasks : KillOne(t) \/ WaitOne(t)) => UNCHANGED <<ready, build_pids>>
  BY DEF SelectEOF, HandleNewTaskHashes, HandleFinishNow, HandleQuit, Garbled, NoneToReap, KilledAll,
     KillOne, WaitOne, Gone, loopvars
<1> QED BY <1>1, <1>2, <1>3, <1>4, <1>5 DEF Next, Serve

(* The thread that writes (worker_flush), and the end                       *)
LEMMA FlushKeeps ==
  ASSUME WorkerInv, Flush
  PROVE  WorkerInv'
<1>0. Types /\ CodesOK /\ LineOK
  BY DEF WorkerInv
<1>1. /\ UNCHANGED <<queue, stdin, sending, asked, newhashes, srv, sentHashes, hashes, heard,
                     proc, status, pipe, wpc>>
      /\ worker_queue # <<>> /\ worker_queue' = Tail(worker_queue) /\ Up
      /\ stdout' = Append(stdout, Head(worker_queue))
  BY DEF Flush, srvvars, loopvars, procvars
<1>2. worker_queue \in Seq(Reports) /\ stdout \in Seq(Reports)
  BY <1>0 DEF CodesOK, AllTrue
<1> DEFINE m == Head(worker_queue)
<1>3. /\ m = worker_queue[1] /\ m \in Reports /\ Tail(worker_queue) \in Seq(Reports)
      /\ 1 \in 1 .. Len(worker_queue)
      /\ \A i \in 1 .. Len(Tail(worker_queue)) :
           Tail(worker_queue)[i] = worker_queue[i + 1] /\ i + 1 \in 1 .. Len(worker_queue)
  BY <1>1, <1>2, HeadTailProperties, LenProperties
<1>4. AllTrue(worker_queue', proc, status)
  BY <1>0, <1>1, <1>3 DEF CodesOK, AllTrue
<1>5. AllTrue(<<m>>, proc, status)
  <2>1. <<m>> \in Seq(Reports) /\ Len(<<m>>) = 1 /\ <<m>>[1] = m
    BY <1>3
  <2>2. m.op = "exitcode" => proc[m.task] = "reaped" /\ m.status = status[m.task]
    BY <1>0, <1>3 DEF CodesOK, AllTrue
  <2> QED BY <2>1, <2>2 DEF AllTrue
<1>6. stdout' = stdout \o <<m>>
  BY <1>1, <1>2, <1>3, AppendIsConcat
<1>7. AllTrue(stdout', proc, status)
  BY <1>0, <1>5, <1>6, TrueTogether DEF CodesOK
<1>8. CodesOK'
  BY <1>0, <1>1, <1>4, <1>7 DEF CodesOK, ExitCodesAreTrue
<1>9. Proceeds /\ (wpc \in Ops => queue # <<>>)
  BY <1>0, <1>1, NothingProceeds DEF LineOK, Pieces
<1> QED BY <1>1, <1>8, <1>9, RestKept

LEMMA WorkerInvInit == Init => WorkerInv /\ PidsOK
<1> SUFFICES ASSUME Init PROVE WorkerInv /\ PidsOK
  OBVIOUS
<1>1. Types /\ PidsOK /\ HashesInOrder
  BY DEF Init, Types, PidsOK, HashesInOrder, Procs, Codes
<1>2. AllTrue(<<>>, proc, status)
  BY EmptySeq DEF AllTrue
<1>3. CodesOK
  BY <1>2, EmptySeq DEF Init, CodesOK, ExitCodesAreTrue
<1>4. Pieces
  BY EmptySeq DEF Init, Pieces, Ops
<1>5. Line = <<>>
  <2>1. <<>> \o <<>> = <<>>
    BY EmptySeq, ConcatEmptySeq
  <2> QED BY <2>1 DEF Line, Init
<1>6. Leads(<<>>, asked, proc, 0, 0)
  <2>1. Waits(<<>>, asked, proc)
    BY EmptySeq DEF Waits
  <2>2. Counts(<<>>, [i \in {0} |-> 0], asked, 0)
    BY EmptySeq DEF Counts
  <2> QED BY <2>1, <2>2, EmptySeq DEF Leads
<1>7. InLine
  BY <1>5, <1>6 DEF InLine, Init
<1> QED BY <1>1, <1>3, <1>4, <1>7 DEF WorkerInv, LineOK

(* Every step keeps the line and the codes.                                 *)
LEMMA WorkerInvStep == WorkerInv /\ PidsOK /\ [Next]_vars => (WorkerInv /\ PidsOK)'
<1> SUFFICES ASSUME WorkerInv, PidsOK, [Next]_vars PROVE WorkerInv'
  BY PidsKept
<1>1. CASE Leave \/ WorkerKilled
  BY <1>1, GoneKeeps DEF Leave, WorkerKilled
<1>2. CASE UNCHANGED vars
  <2>1. UNCHANGED <<queue, stdin, stdout, sending, asked, newhashes, srv, sentHashes, hashes, heard,
                    proc, status, pipe, wpc, worker_queue>>
    BY <1>2 DEF vars, srvvars, loopvars, procvars
  <2>2. Proceeds /\ CodesOK'
    BY <2>1, NothingProceeds, CodesKept DEF WorkerInv, Proceeds
  <2>3. CASE Up
    <3>1. wpc \in Ops => queue # <<>>
      BY <2>3 DEF WorkerInv, LineOK, Pieces
    <3> QED BY <2>1, <2>2, <3>1, RestKept DEF Up
  <2>4. CASE ~Up
    BY <2>1, <2>2, <2>4, RestKept DEF Up, Ops
  <2> QED BY <2>3, <2>4
<1> QED BY <1>1, <1>2, ServerKeeps, ServeKeeps, FlushKeeps, ProcessKeeps DEF Next

LEMMA WorkerInvAlways == Spec => []WorkerInv
  BY WorkerInvInit, WorkerInvStep, PTL DEF Spec

(* A task is run with the hashes the server had when it asked for it        *)
(* (handle_newtaskhashes, handle_runtask, RunQueueExecute.execute).         *)
THEOREM RunInOrder == Spec => []HashesInOrder
<1>1. WorkerInv => HashesInOrder
  BY DEF WorkerInv
<1> QED BY <1>1, WorkerInvAlways, PTL

(* The exit code that the server reads is that of the task's process, which *)
(* has ended (process_waitpid, runQueuePipe.read).                          *)
THEOREM CodesTrue == Spec => []ExitCodesAreTrue
<1>1. WorkerInv => ExitCodesAreTrue
  BY DEF WorkerInv, CodesOK
<1> QED BY <1>1, WorkerInvAlways, PTL
-----------------------------------------------------------------------------
(* What a task has to tell comes before its exit code.  The reports the     *)
(* worker has queued and those in the pipe are one line too, whose head the *)
(* server takes.  A task's event is in that line, has been read, or is in   *)
(* the task's own pipe, which process_waitpid empties before it queues the  *)
(* exit code.  Nothing but handle_finishnow and a SIGTERM throw an event    *)
(* away, and neither happens while the server has not asked for a stop.     *)

OutLine == stdout \o worker_queue

Contains(s, r) == \E i \in 1 .. Len(s) : s[i] = r

\* In s, the exit code of a task of F comes after its event, which those of T
\* have had read already.
ToldFirst(s, F, T) ==
  \A j \in 1 .. Len(s) : s[j].op = "exitcode" /\ s[j].task \in F \ T =>
    \E i \in 1 .. Len(s) : i < j /\ s[i] = Event(s[j].task)

NoStop(s) == \A i \in 1 .. Len(s) : s[i].op # "finishnow"

\* Nobody has been told to stop.
Calm ==
  /\ \A t \in Tasks : ~term[t]
  /\ wpc \notin {"kill", "wait"}
  /\ NoStop(queue) /\ NoStop(stdin) /\ NoStop(sending)

ReportsOK ==
  /\ ToldFirst(OutLine, fired, heardEvents)
  /\ \A t \in fired : heard[t] # "none" => t \in heardEvents
  /\ Up => \A t \in fired :
       t \in heardEvents \/ Contains(OutLine, Event(t)) \/ pipe[t] = <<Event(t)>>

SoundInv ==
  /\ WorkerInv /\ TypeOK
  /\ wpc = "reap" => ready = {}
  /\ srv = "run" => Calm /\ ReportsOK

(* The line of the reports is read from its head (runQueuePipe.read).       *)
LEMMA ReadFromHead ==
  ASSUME NEW s \in Seq(Reports), NEW F, NEW T, ToldFirst(s, F, T), s # <<>>,
         NEW U, U = IF Head(s).op = "event" THEN T \cup {Head(s).task} ELSE T
  PROVE  /\ ToldFirst(Tail(s), F, U)
         /\ Head(s).op = "exitcode" /\ Head(s).task \in F => Head(s).task \in T
         /\ \A t \in Tasks : Contains(s, Event(t)) => t \in U \/ Contains(Tail(s), Event(t))
<1> DEFINE v == Tail(s)
<1>1. /\ Head(s) = s[1] /\ 1 \in 1 .. Len(s) /\ Len(s) = Len(v) + 1 /\ Len(v) \in Nat
      /\ \A i \in 1 .. Len(v) : v[i] = s[i + 1] /\ i + 1 \in 1 .. Len(s)
  OBVIOUS
<1> HIDE DEF v
<1>2. \A i \in 1 .. Len(s) : i = 1 \/ (i - 1 \in 1 .. Len(v) /\ s[i] = v[i - 1])
  BY <1>1
<1>3. \A t : Event(t).op = "event" /\ Event(t).task = t
  BY DEF Event
<1>4. ToldFirst(v, F, U)
  <2> SUFFICES ASSUME NEW j \in 1 .. Len(v), v[j].op = "exitcode", v[j].task \in F \ U
               PROVE  \E i \in 1 .. Len(v) : i < j /\ v[i] = Event(v[j].task)
    BY DEF ToldFirst
  <2>1. PICK i \in 1 .. Len(s) : i < j + 1 /\ s[i] = Event(v[j].task)
    BY <1>1 DEF ToldFirst
  <2>2. i # 1
    BY <1>1, <1>3, <2>1
  <2>3. i - 1 \in 1 .. Len(v) /\ i - 1 < j /\ v[i - 1] = Event(v[j].task)
    BY <1>1, <1>2, <2>1, <2>2
  <2> QED BY <2>3
<1>5. Head(s).op = "exitcode" /\ Head(s).task \in F => Head(s).task \in T
  BY <1>1 DEF ToldFirst
<1>6. ASSUME NEW t \in Tasks, Contains(s, Event(t)) PROVE t \in U \/ Contains(v, Event(t))
  <2>1. PICK i \in 1 .. Len(s) : s[i] = Event(t)
    BY <1>6 DEF Contains
  <2>2. CASE i = 1
    BY <1>1, <1>3, <2>1, <2>2
  <2>3. CASE i # 1
    BY <1>2, <2>1, <2>3 DEF Contains
  <2> QED BY <2>2, <2>3
<1> QED BY <1>4, <1>5, <1>6 DEF v

(* What is queued for the server goes to the end: events as they are read   *)
(* (runQueueWorkerPipe.read) ...                                            *)
LEMMA EventsToTheEnd ==
  ASSUME NEW s \in Seq(Reports), NEW F, NEW T, ToldFirst(s, F, T),
         NEW r \in Seq(Reports), \A i \in 1 .. Len(r) : r[i].op = "event"
  PROVE  /\ ToldFirst(s \o r, F, T)
         /\ \A m : Contains(s, m) \/ Contains(r, m) => Contains(s \o r, m)
<1> DEFINE v == s \o r
<1>1. /\ v \in Seq(Reports) /\ Len(v) = Len(s) + Len(r) /\ Len(s) \in Nat /\ Len(r) \in Nat
      /\ \A i \in 1 .. Len(s) : v[i] = s[i] /\ i \in 1 .. Len(v)
      /\ \A i \in 1 .. Len(r) : v[Len(s) + i] = r[i] /\ Len(s) + i \in 1 .. Len(v)
  OBVIOUS
<1> HIDE DEF v
<1>2. \A j \in 1 .. Len(v) : j \in 1 .. Len(s)
        \/ (j - Len(s) \in 1 .. Len(r) /\ j = Len(s) + (j - Len(s)))
  BY <1>1
<1>3. ToldFirst(v, F, T)
  <2> SUFFICES ASSUME NEW j \in 1 .. Len(v), v[j].op = "exitcode", v[j].task \in F \ T
               PROVE  \E i \in 1 .. Len(v) : i < j /\ v[i] = Event(v[j].task)
    BY DEF ToldFirst
  <2>1. j \in 1 .. Len(s)
    BY <1>1, <1>2
  <2> QED BY <1>1, <2>1 DEF ToldFirst
<1>4. \A m : Contains(s, m) \/ Contains(r, m) => Contains(v, m)
  BY <1>1 DEF Contains
<1> QED BY <1>3, <1>4 DEF v

(* ... and an exit code, when there is nothing left that the task has to    *)
(* tell (process_waitpid).                                                  *)
LEMMA CodeToTheEnd ==
  ASSUME NEW s \in Seq(Reports), NEW F, NEW T, ToldFirst(s, F, T),
         NEW m \in Reports, m.task \in F => m.task \in T \/ Contains(s, Event(m.task))
  PROVE  /\ ToldFirst(Append(s, m), F, T)
         /\ \A n : Contains(s, n) => Contains(Append(s, m), n)
<1> DEFINE v == Append(s, m)
<1>1. /\ v \in Seq(Reports) /\ Len(v) = Len(s) + 1 /\ Len(s) \in Nat /\ v[Len(v)] = m
      /\ \A i \in 1 .. Len(s) : v[i] = s[i] /\ i \in 1 .. Len(v) /\ i < Len(v)
  OBVIOUS
<1> HIDE DEF v
<1>2. \A j \in 1 .. Len(v) : j = Len(v) \/ j \in 1 .. Len(s)
  BY <1>1
<1>3. ToldFirst(v, F, T)
  <2> SUFFICES ASSUME NEW j \in 1 .. Len(v), v[j].op = "exitcode", v[j].task \in F \ T
               PROVE  \E i \in 1 .. Len(v) : i < j /\ v[i] = Event(v[j].task)
    BY DEF ToldFirst
  <2>1. CASE j = Len(v)
    BY <1>1, <2>1 DEF Contains
  <2>2. CASE j \in 1 .. Len(s)
    BY <1>1, <2>2 DEF ToldFirst
  <2> QED BY <1>2, <2>1, <2>2
<1>4. \A n : Contains(s, n) => Contains(v, n)
  BY <1>1 DEF Contains
<1> QED BY <1>3, <1>4 DEF v

(* The line does not depend on where it is cut.                             *)
LEMMA ThreePieces ==
  ASSUME NEW r \in Seq(Reports), NEW s \in Seq(Reports), NEW u \in Seq(Reports)
  PROVE  r \o (s \o u) = (r \o s) \o u
  BY ConcatAssociative

(* A worker that is gone has left what it had written.                      *)
LEMMA WrittenIsLeft ==
  ASSUME NEW s \in Seq(Reports), NEW r \in Seq(Reports), NEW F, NEW T, ToldFirst(s \o r, F, T)
  PROVE  ToldFirst(s, F, T)
<1> DEFINE v == s \o r
<1>1. \A i \in 1 .. Len(s) : v[i] = s[i] /\ i \in 1 .. Len(v)
  OBVIOUS
<1>2. \A i \in 1 .. Len(v), j \in 1 .. Len(s) : i < j => i \in 1 .. Len(s)
  OBVIOUS
<1>3. ToldFirst(v, F, T)
  OBVIOUS
<1> HIDE DEF v
<1> SUFFICES ASSUME NEW j \in 1 .. Len(s), s[j].op = "exitcode", s[j].task \in F \ T
             PROVE  \E i \in 1 .. Len(s) : i < j /\ s[i] = Event(s[j].task)
  BY DEF ToldFirst
<1>4. PICK i \in 1 .. Len(v) : i < j /\ v[i] = Event(s[j].task)
  BY <1>1, <1>3 DEF ToldFirst
<1> QED BY <1>1, <1>2, <1>4

(* The thread that writes moves the line on (worker_flush), and the server  *)
(* takes its head.                                                          *)
LEMMA OneLine ==
  ASSUME NEW s \in Seq(Reports), NEW r \in Seq(Reports)
  PROVE  /\ r # <<>> => Append(s, Head(r)) \o Tail(r) = s \o r
         /\ s # <<>> => /\ Tail(s) \o r = Tail(s \o r) /\ Head(s \o r) = Head(s)
                        /\ s \o r # <<>>
         /\ s \o r \in Seq(Reports)
         /\ s \o <<>> = s
<1>1. ASSUME r # <<>> PROVE Append(s, Head(r)) \o Tail(r) = s \o r
  <2>1. Head(r) \in Reports /\ Tail(r) \in Seq(Reports) /\ Len(r) > 0 /\ Len(Tail(r)) = Len(r) - 1
        /\ \A i \in 1 .. Len(Tail(r)) : Tail(r)[i] = r[i + 1]
    BY <1>1
  <2>2. Append(s, Head(r)) \in Seq(Reports)
    BY <2>1
  <2> QED BY <1>1, <2>1, <2>2
<1>2. ASSUME s # <<>>
      PROVE  Tail(s) \o r = Tail(s \o r) /\ Head(s \o r) = Head(s) /\ s \o r # <<>>
  BY <1>2
<1>3. s \o r \in Seq(Reports) /\ s \o <<>> = s
  BY ConcatEmptySeq
<1> QED BY <1>1, <1>2, <1>3

-----------------------------------------------------------------------------
(* The steps once more, for the books and the line of reports               *)

LEMMA ItemNames == {Items[i] : i \in DOMAIN Items} = Ops
  BY DEF Items, Ops

Places == Ops \cup {"select", "pipes", "reap", "kill", "wait", "leaving", "gone"}

(* serve() goes on with an item or with the pipes (handle_item).            *)
LEMMA GoesOnSomewhere ==
  ASSUME NEW q \in Seq(Messages), NEW i, NEW op \in Ops
  PROVE  NextItem(q, i) \in Ops \cup {"pipes"} /\ After(q, op) \in Ops \cup {"pipes"}
<1>1. \A j : NextItem(q, j) \in Ops \cup {"pipes"}
  <2>1. q # <<>> => Head(q).op \in Ops
    <3>1. q # <<>> => Head(q) \in Messages
      OBVIOUS
    <3> QED BY <3>1 DEF Messages
  <2> QED BY <2>1 DEF NextItem
<1> QED BY <1>1 DEF After

\* What a step has to show besides WorkerInv, of the books ...
BooksKept ==
  /\ srv' \in {"run", "finish", "quit", "closed", "dead"}
  /\ Len(sending') <= 1 /\ Len(stdin') <= Room /\ Len(stdout') <= RoomBack
  /\ asked' \in [Tasks -> -1 .. MaxHashes] /\ sentHashes' \in 0 .. MaxHashes
  /\ heardEvents' \subseteq Tasks /\ fired' \subseteq Tasks
  /\ wpc' \in Places
  /\ {normalexit', dies'} \subseteq BOOLEAN
  /\ ready' \subseteq build_pids' /\ build_pids' \subseteq Tasks
  /\ term' \in [Tasks -> BOOLEAN]
  /\ wpc' = "reap" => ready' = {}

LEMMA BooksSuffice ==
  ASSUME WorkerInv', BooksKept, srv' = "run" => Calm' /\ ReportsOK'
  PROVE  SoundInv'
<1>1. TypeOK'
  BY ItemNames DEF TypeOK, BooksKept, Places, WorkerInv, Types, Procs, Codes
<1> QED BY <1>1 DEF SoundInv, BooksKept

\* ... and what is known before it.
LEMMA BooksBefore ==
  ASSUME SoundInv
  PROVE  /\ srv \in {"run", "finish", "quit", "closed", "dead"}
         /\ Len(sending) <= 1 /\ Len(stdin) <= Room /\ Len(stdout) <= RoomBack
         /\ asked \in [Tasks -> -1 .. MaxHashes] /\ sentHashes \in 0 .. MaxHashes
         /\ heardEvents \subseteq Tasks /\ fired \subseteq Tasks
         /\ wpc \in Places
         /\ {normalexit, dies} \subseteq BOOLEAN
         /\ ready \subseteq build_pids /\ build_pids \subseteq Tasks
         /\ term \in [Tasks -> BOOLEAN]
         /\ wpc = "reap" => ready = {}
         /\ PidsOK
         /\ stdout \in Seq(Reports) /\ worker_queue \in Seq(Reports)
         /\ Up => Pieces
         /\ srv = "run" => Calm /\ ReportsOK
  BY ItemNames DEF SoundInv, TypeOK, Places, PidsOK, WorkerInv, CodesOK, AllTrue, LineOK

\* Steps that no report takes part in
Silent == UNCHANGED <<stdout, worker_queue, fired, heardEvents, heard, pipe>> /\ (Up' => Up)

LEMMA SilentReports ==
  ASSUME ReportsOK, Silent
  PROVE  ReportsOK'
<1>1. OutLine' = OutLine
  BY DEF Silent, OutLine
<1> QED BY <1>1 DEF ReportsOK, Silent

LEMMA OneMessage ==
  ASSUME NEW m, NEW s, s = <<m>>
  PROVE  Len(s) = 1
<1>1. Len(<<m>>) = 1
  OBVIOUS
<1> QED BY <1>1

(* The server's steps but for the read (runtask, _teardown_worker)          *)
LEMMA ServerSound ==
  ASSUME SoundInv, Server, ~ReadBack
  PROVE  SoundInv'
<1> USE BooksBefore, BitbakeWorkerAssumption
<1>1. WorkerInv'
  BY ServerKeeps DEF SoundInv
<1>2. Silent /\ UNCHANGED <<wpc, queue, ready, build_pids, normalexit, dies, term>>
  BY DEF Server, AskFor, SendHashes, FinishNow, TearDown, Write, ServerDies, Silent, Up, loopvars,
         killvars, procvars, srvvars
<1>3. /\ Len(sending') <= 1 /\ Len(stdin') <= Room
      /\ srv' \in {"run", "finish", "quit", "closed", "dead"}
      /\ asked' \in [Tasks -> -1 .. MaxHashes] /\ sentHashes' \in 0 .. MaxHashes
  <2>1. CASE SendHashes \/ FinishNow \/ TearDown \/ ServerDies \/ \E t \in Tasks : AskFor(t)
    <3>1. stdin' = stdin /\ srv' \in {"run", "finish", "quit", "closed", "dead"}
      BY <2>1 DEF AskFor, SendHashes, FinishNow, TearDown, ServerDies
    <3>2. sending' = <<>> \/ \E m : sending' = <<m>>
      BY <2>1 DEF AskFor, SendHashes, FinishNow, TearDown, ServerDies, Sends
    <3>3. Len(sending') <= 1
      <4>1. CASE sending' = <<>>
        <5>1. Len(sending') = 0
          BY <4>1
        <5> QED BY <5>1
      <4>2. CASE \E m : sending' = <<m>>
        <5>1. PICK m : sending' = <<m>>
          BY <4>2
        <5>2. Len(sending') = 1
          BY <5>1, OneMessage
        <5> QED BY <5>2
      <4> QED BY <3>2, <4>1, <4>2
    <3>4. sentHashes' = sentHashes \/ (sentHashes < MaxHashes /\ sentHashes' = sentHashes + 1)
      BY <2>1 DEF AskFor, SendHashes, FinishNow, TearDown, ServerDies
    <3>5. asked' = asked \/ \E t \in Tasks : asked' = [asked EXCEPT ![t] = sentHashes]
      BY <2>1 DEF AskFor, SendHashes, FinishNow, TearDown, ServerDies
    <3>6. asked' \in [Tasks -> -1 .. MaxHashes] /\ sentHashes' \in 0 .. MaxHashes
      <4>1. MaxHashes \in Nat /\ asked \in [Tasks -> -1 .. MaxHashes] /\ sentHashes \in 0 .. MaxHashes
        OBVIOUS
      <4>2. sentHashes \in -1 .. MaxHashes
        BY <4>1
      <4>3. asked' \in [Tasks -> -1 .. MaxHashes]
        BY <3>5, <4>1, <4>2
      <4>4. sentHashes' \in 0 .. MaxHashes
        BY <3>4, <4>1
      <4> QED BY <4>3, <4>4
    <3> QED BY <3>1, <3>3, <3>6
  <2>2. CASE Write
    <3>1. UNCHANGED <<asked, sentHashes>> /\ sending' = <<>>
          /\ srv' \in {"run", "finish", "quit", "closed", "dead"}
      BY <2>2 DEF Write
    <3>2. CASE Up
      <4>1. stdin \in Seq(Messages) /\ stdin' = Append(stdin, Head(sending)) /\ Len(stdin) < Room
        BY <2>2, <3>2 DEF Write, HasRoom, Pieces
      <4>2. Len(stdin') = Len(stdin) + 1 /\ Len(stdin) \in Nat
        BY <4>1
      <4> QED BY <3>1, <4>1, <4>2
    <3>3. CASE ~Up
      BY <2>2, <3>1, <3>3 DEF Write
    <3> QED BY <3>2, <3>3
  <2> QED BY <2>1, <2>2 DEF Server
<1>4. BooksKept
  BY <1>2, <1>3 DEF BooksKept, Silent
<1>5. ASSUME srv' = "run" PROVE Calm' /\ ReportsOK'
  <2>1. srv = "run" /\ Calm /\ ReportsOK
    BY <1>5 DEF Server, AskFor, SendHashes, FinishNow, TearDown, Write, ServerDies
  <2>2. NoStop(stdin') /\ NoStop(sending')
    <3>1. CASE FinishNow \/ TearDown \/ ServerDies
      BY <1>5, <3>1 DEF FinishNow, TearDown, ServerDies
    <3>2. CASE SendHashes \/ \E t \in Tasks : AskFor(t)
      BY <2>1, <3>2 DEF SendHashes, AskFor, Sends, NoStop, Calm, Msg
    <3>3. CASE Write /\ ~Up
      BY <2>1, <3>3 DEF Write, NoStop, Calm
    <3>4. CASE Write /\ Up
      <4>1. stdin \in Seq(Messages) /\ stdin' = Append(stdin, Head(sending)) /\ sending' = <<>>
            /\ Len(sending) = 1 /\ Head(sending) = sending[1]
        BY <3>4 DEF Write, Pieces
      <4>2. NoStop(stdin) /\ Head(sending).op # "finishnow"
        BY <2>1, <4>1 DEF Calm, NoStop
      <4>3. /\ Len(stdin') = Len(stdin) + 1 /\ Len(stdin) \in Nat /\ stdin'[Len(stdin')] = Head(sending)
            /\ \A i \in 1 .. Len(stdin) : stdin'[i] = stdin[i]
        BY <4>1
      <4>4. \A i \in 1 .. Len(stdin') : i = Len(stdin') \/ i \in 1 .. Len(stdin)
        BY <4>3
      <4> QED BY <4>1, <4>2, <4>3, <4>4 DEF NoStop
    <3> QED BY <3>1, <3>2, <3>3, <3>4 DEF Server
  <2> QED BY <1>2, <2>1, <2>2, SilentReports DEF Calm
<1> QED BY <1>1, <1>4, <1>5, BooksSuffice

(* The server hears of what a task has to tell, and then of its end         *)
(* (runQueuePipe.read).                                                     *)
LEMMA ReadBackSound ==
  ASSUME SoundInv, ReadBack
  PROVE  SoundInv'
<1> USE BooksBefore
<1>1. WorkerInv'
  BY ServerKeeps DEF SoundInv, Server
<1>2. /\ UNCHANGED <<wpc, queue, stdin, sending, srv, asked, sentHashes, ready, build_pids, normalexit,
                     dies, term, worker_queue, fired, pipe>>
      /\ stdout # <<>> /\ stdout' = Tail(stdout)
  BY DEF ReadBack, loopvars, killvars, procvars
<1>3. Head(stdout) \in Reports /\ Len(stdout') <= RoomBack
  BY <1>2, BitbakeWorkerAssumption
<1>4. /\ Head(stdout).op \in {"event", "exitcode"} /\ Head(stdout).task \in Tasks
      /\ heardEvents' = IF Head(stdout).op = "event" THEN heardEvents \cup {Head(stdout).task}
                        ELSE heardEvents
      /\ heard' = IF Head(stdout).op = "event" THEN heard
                  ELSE [heard EXCEPT ![Head(stdout).task] = Head(stdout).status]
  BY <1>3 DEF ReadBack, Reports
<1>5. BooksKept
  BY <1>2, <1>3, <1>4 DEF BooksKept
<1>6. ASSUME srv' = "run" PROVE Calm' /\ ReportsOK'
  <2>1. Calm /\ ReportsOK
    BY <1>2, <1>6
  <2>2. /\ OutLine \in Seq(Reports) /\ OutLine # <<>> /\ OutLine' = Tail(OutLine)
        /\ Head(OutLine) = Head(stdout)
    BY <1>2, OneLine DEF OutLine
  <2>3. /\ ToldFirst(Tail(OutLine), fired, heardEvents')
        /\ Head(stdout).op = "exitcode" /\ Head(stdout).task \in fired
             => Head(stdout).task \in heardEvents
        /\ \A t \in Tasks : Contains(OutLine, Event(t))
             => t \in heardEvents' \/ Contains(Tail(OutLine), Event(t))
    <3>1. PICK U : U = heardEvents'
      OBVIOUS
    <3> QED BY <1>4, <2>1, <2>2, <3>1, ReadFromHead DEF ReportsOK
  <2>4. \A t \in fired : heard'[t] # "none" => t \in heardEvents'
    BY <1>4, <2>1, <2>3 DEF ReportsOK, WorkerInv, Types, SoundInv
  <2>5. heardEvents \subseteq heardEvents'
    BY <1>4
  <2>6. ReportsOK'
    BY <1>2, <2>1, <2>2, <2>3, <2>4, <2>5 DEF ReportsOK, Up
  <2> QED BY <1>2, <2>1, <2>6 DEF Calm
<1> QED BY <1>1, <1>5, <1>6, BooksSuffice

(* The steps of a task's process: while nobody was told to stop, no SIGTERM *)
(* is pending (fork_off_task, worker_child_fire).                           *)
LEMMA ProcessSound ==
  ASSUME SoundInv, NEW t \in Tasks, Process(t)
  PROVE  SoundInv'
<1> USE BooksBefore
<1>1. WorkerInv'
  BY ProcessKeeps DEF SoundInv
<1>2. /\ UNCHANGED <<wpc, queue, stdin, sending, srv, asked, sentHashes, ready, build_pids, normalexit,
                     dies, worker_queue, stdout, heard, heardEvents>>
      /\ proc[t] \in Running
  BY DEF Process, SetUp, Fire, Exit, Terminated, Running, loopvars, srvvars, killvars
<1>3. term' \in [Tasks -> BOOLEAN] /\ fired' \in SUBSET Tasks
  BY DEF Process, SetUp, Fire, Exit, Terminated
<1>4. BooksKept
  BY <1>2, <1>3 DEF BooksKept
<1>5. ASSUME srv' = "run" PROVE Calm' /\ ReportsOK'
  <2>1. Calm /\ ReportsOK /\ ~term[t]
    BY <1>2, <1>5 DEF Calm
  <2>2. SetUp(t) \/ Fire(t) \/ Exit(t)
    BY <2>1 DEF Process, Terminated
  <2>3. term' = term
    BY <2>2 DEF SetUp, Fire, Exit
  <2>4. CASE SetUp(t) \/ Exit(t)
    BY <1>2, <2>1, <2>3, <2>4, SilentReports DEF SetUp, Exit, Silent, Calm, Up
  <2>5. CASE Fire(t)
    <3>1. fired' = fired \cup {t} /\ pipe' = [pipe EXCEPT ![t] = <<Event(t)>>] /\ pipe[t] = <<>>
      BY <2>5 DEF Fire
    <3>2. heard[t] = "none" /\ CodesOK
      BY <1>2 DEF SoundInv, WorkerInv, CodesOK, ExitCodesAreTrue, Running
    <3>3. AllTrue(OutLine, proc, status)
      BY <3>2, TrueTogether DEF CodesOK, OutLine
    <3>4. \A j \in 1 .. Len(OutLine) : OutLine[j].op = "exitcode" => OutLine[j].task # t
      BY <1>2, <3>3 DEF AllTrue, Running
    <3>5. ToldFirst(OutLine, fired', heardEvents)
      BY <2>1, <3>1, <3>4 DEF ToldFirst, ReportsOK
    <3>6. OutLine' = OutLine
      BY <1>2 DEF OutLine
    <3>7. pipe \in [Tasks -> Seq(Reports)]
      BY <3>2 DEF CodesOK
    <3>8. \A u \in fired' : u = t \/ (u \in fired /\ pipe'[u] = pipe[u])
      BY <3>1, <3>7
    <3>9. pipe'[t] = <<Event(t)>>
      BY <3>1, <3>7
    <3>10. ReportsOK'
      BY <1>2, <2>1, <3>2, <3>5, <3>6, <3>8, <3>9 DEF ReportsOK, Up
    <3> QED BY <1>2, <2>1, <2>3, <3>10 DEF Calm
  <2> QED BY <2>2, <2>4, <2>5
<1> QED BY <1>1, <1>4, <1>5, BooksSuffice

(* The thread that writes (worker_flush)                                    *)
LEMMA FlushSound ==
  ASSUME SoundInv, Flush
  PROVE  SoundInv'
<1> USE BooksBefore
<1>1. WorkerInv'
  BY FlushKeeps DEF SoundInv
<1>2. /\ UNCHANGED <<wpc, queue, stdin, sending, srv, asked, sentHashes, ready, build_pids, normalexit,
                     dies, term, heard, heardEvents, fired, pipe>>
      /\ worker_queue # <<>> /\ worker_queue' = Tail(worker_queue)
      /\ stdout' = Append(stdout, Head(worker_queue)) /\ Len(stdout) < RoomBack
  BY DEF Flush, loopvars, killvars, procvars, srvvars
<1>3. Len(stdout') <= RoomBack
  <2>1. Len(stdout') = Len(stdout) + 1 /\ Len(stdout) \in Nat
    BY <1>2
  <2> QED BY <1>2, <2>1, BitbakeWorkerAssumption
<1>4. BooksKept
  BY <1>2, <1>3 DEF BooksKept
<1>5. OutLine' = OutLine
  BY <1>2, OneLine DEF OutLine
<1>6. ASSUME srv' = "run" PROVE Calm' /\ ReportsOK'
  BY <1>2, <1>5, <1>6 DEF Calm, ReportsOK, Up
<1> QED BY <1>1, <1>4, <1>6, BooksSuffice

(* A worker that is gone: what it had queued is lost, exit codes and all.   *)
LEMMA GoneSound ==
  ASSUME SoundInv, Gone
  PROVE  SoundInv'
<1> USE BooksBefore
<1>1. WorkerInv'
  BY GoneKeeps DEF SoundInv
<1>2. /\ UNCHANGED <<queue, stdin, stdout, sending, srv, asked, sentHashes, ready, build_pids, normalexit,
                     dies, term, heard, heardEvents, fired, pipe>>
      /\ wpc' = "gone" /\ worker_queue' = <<>>
  BY DEF Gone, loopvars, killvars, srvvars
<1>3. BooksKept
  BY <1>2 DEF BooksKept, Places
<1>4. ASSUME srv' = "run" PROVE Calm' /\ ReportsOK'
  <2>1. Calm /\ ReportsOK
    BY <1>2, <1>4
  <2>2. OutLine' = stdout
    BY <1>2, OneLine DEF OutLine
  <2>3. ToldFirst(stdout, fired, heardEvents)
    BY <2>1, WrittenIsLeft DEF ReportsOK, OutLine
  <2> QED BY <1>2, <2>1, <2>2, <2>3 DEF Calm, ReportsOK, Up
<1> QED BY <1>1, <1>3, <1>4, BooksSuffice

(* What is read from the tasks' pipes goes into the line                    *)
(* (runQueueWorkerPipe.read).                                               *)
LEMMA ReadIntoLine ==
  ASSUME SoundInv, Up, ReportsOK, NEW S \in SUBSET Tasks, ReadFrom(S),
         \A t \in S : pipe[t] # <<>>,
         UNCHANGED <<stdout, fired, heardEvents, heard>>
  PROVE  ReportsOK'
<1> USE BooksBefore
<1>1. PICK ts \in Orders(S) :
        worker_queue' = worker_queue \o [i \in DOMAIN ts |-> Event(ts[i])]
  BY DEF ReadFrom
<1> DEFINE es == [i \in DOMAIN ts |-> Event(ts[i])]
<1>2. es \in Seq(Reports) /\ \A i \in 1 .. Len(es) : es[i].op = "event"
  BY EventsRead
<1>3. \A t \in S : Contains(es, Event(t))
  <2>1. ts \in [1 .. Cardinality(S) -> S] /\ {ts[i] : i \in DOMAIN ts} = S
        /\ Cardinality(S) \in Nat
    BY BitbakeWorkerAssumption, FS_Subset, FS_CardinalityType DEF Orders
  <2>2. DOMAIN ts = 1 .. Cardinality(S)
    BY <2>1
  <2>3. Len(es) = Cardinality(S)
    BY <1>2, <2>1, <2>2
  <2>4. \A t \in S : \E i \in 1 .. Cardinality(S) : ts[i] = t
    BY <2>1, <2>2
  <2> QED BY <2>2, <2>3, <2>4 DEF Contains
<1> HIDE DEF es
<1>4. worker_queue' = worker_queue \o es
  BY <1>1 DEF es
<1>5. OutLine \in Seq(Reports) /\ OutLine' = OutLine \o es
  BY <1>2, <1>4, ThreePieces, OneLine DEF OutLine
<1>6. /\ ToldFirst(OutLine', fired, heardEvents)
      /\ \A m : Contains(OutLine, m) \/ Contains(es, m) => Contains(OutLine', m)
  BY <1>2, <1>5, EventsToTheEnd DEF ReportsOK
<1>7. \A t \in fired : t \in heardEvents \/ Contains(OutLine', Event(t)) \/ pipe'[t] = <<Event(t)>>
  <2>1. \A t \in Tasks : pipe'[t] = IF t \in S THEN <<>> ELSE pipe[t]
    BY DEF ReadFrom, Drained
  <2> QED BY <1>3, <1>6, <2>1 DEF ReportsOK
<1> QED BY <1>6, <1>7 DEF ReportsOK

(* process_waitpid: the pipe is emptied, and then there is the exit code.   *)
LEMMA ReapIntoLine ==
  ASSUME SoundInv, ReportsOK, NEW t \in Tasks, Reap(t)
  PROVE  ReportsOK'
<1> USE BooksBefore
<1>1. /\ UNCHANGED <<stdout, fired, heardEvents, heard, wpc>> /\ wpc = "reap"
      /\ worker_queue' = worker_queue \o (pipe[t] \o <<ExitCode(t, status[t])>>)
      /\ pipe' = [u \in Tasks |-> IF u \in {t} THEN <<>> ELSE pipe[u]]
  BY DEF Reap, srvvars, Collected, CodeOf, Drained
<1>2. pipe[t] \in Seq(Reports) /\ (pipe[t] = <<>> \/ pipe[t] = <<Event(t)>>)
  BY DEF SoundInv, WorkerInv, CodesOK
<1> DEFINE m == ExitCode(t, status[t])
<1>3. m \in Reports /\ m.op = "exitcode" /\ m.task = t
  BY DEF SoundInv, WorkerInv, Types, Reports, ExitCode
<1> HIDE DEF m
<1>4. OutLine \in Seq(Reports) /\ <<m>> \in Seq(Reports)
      /\ OutLine' = Append(OutLine \o pipe[t], m) /\ OutLine \o pipe[t] \in Seq(Reports)
  <2>1. OutLine' = stdout \o (worker_queue \o (pipe[t] \o <<m>>))
    BY <1>1 DEF OutLine, m
  <2>2. <<m>> \in Seq(Reports) /\ OutLine \in Seq(Reports)
    BY <1>3 DEF OutLine
  <2>3. OutLine' = (OutLine \o pipe[t]) \o <<m>>
    <3>1. worker_queue \o (pipe[t] \o <<m>>) = (worker_queue \o pipe[t]) \o <<m>>
      BY <1>2, <2>2, ThreePieces
    <3>2. worker_queue \o pipe[t] \in Seq(Reports)
      BY <1>2
    <3>3. stdout \o ((worker_queue \o pipe[t]) \o <<m>>) = (stdout \o (worker_queue \o pipe[t])) \o <<m>>
      BY <2>2, <3>2, ThreePieces
    <3>4. stdout \o (worker_queue \o pipe[t]) = OutLine \o pipe[t]
      BY <1>2, ThreePieces DEF OutLine
    <3> QED BY <2>1, <3>1, <3>3, <3>4
  <2>4. OutLine \o pipe[t] \in Seq(Reports)
    BY <1>2, <2>2
  <2> QED BY <1>3, <2>2, <2>3, <2>4, AppendIsConcat
<1>5. \A i \in 1 .. Len(pipe[t]) : pipe[t][i].op = "event"
  BY <1>2 DEF Event
<1>6. /\ ToldFirst(OutLine \o pipe[t], fired, heardEvents)
      /\ \A n : Contains(OutLine, n) \/ Contains(pipe[t], n) => Contains(OutLine \o pipe[t], n)
  BY <1>2, <1>4, <1>5, EventsToTheEnd DEF ReportsOK
<1>7. pipe[t] = <<Event(t)>> => Contains(pipe[t], Event(t))
  BY DEF Contains
<1>8. t \in fired => t \in heardEvents \/ Contains(OutLine \o pipe[t], Event(t))
  BY <1>1, <1>6, <1>7 DEF ReportsOK, Up
<1>9. /\ ToldFirst(OutLine', fired, heardEvents)
      /\ \A n : Contains(OutLine \o pipe[t], n) => Contains(OutLine', n)
  BY <1>3, <1>4, <1>6, <1>8, CodeToTheEnd
<1>10. \A u \in Tasks \ {t} : pipe'[u] = pipe[u]
  BY <1>1
<1>11. \A u \in fired : u \in heardEvents \/ Contains(OutLine', Event(u)) \/ pipe'[u] = <<Event(u)>>
  BY <1>1, <1>6, <1>8, <1>9, <1>10 DEF ReportsOK, Up
<1> QED BY <1>1, <1>9, <1>11 DEF ReportsOK

(* The worker's loop, the reading of messages (serve, handle_item): while   *)
(* nobody was told to stop, there is no such item.                          *)
LEMMA ItemsSound ==
  ASSUME SoundInv,
         Select \/ HandleNewTaskHashes \/ HandleRunTask \/ HandleFinishNow \/ HandleQuit
  PROVE  SoundInv'
<1> USE BooksBefore
<1>1. WorkerInv'
  BY ServeKeeps DEF SoundInv, Serve
<1>2. /\ UNCHANGED <<srv, sending, asked, sentHashes, heard, heardEvents, stdout, worker_queue, term,
                     fired, pipe>>
      /\ Up
  BY DEF Select, HandleNewTaskHashes, HandleRunTask, HandleFinishNow, HandleQuit, Handling, Up,
         srvvars, procvars
<1>3. Pieces /\ queue' \in Seq(Messages) /\ stdin' \in {stdin, <<>>}
  <2>1. Pieces /\ (wpc \in Ops => queue # <<>>)
    BY <1>2 DEF Pieces
  <2>2. CASE Select
    BY <2>1, <2>2 DEF Select, Pieces
  <2>3. CASE HandleNewTaskHashes \/ HandleRunTask \/ HandleFinishNow \/ HandleQuit
    <3>1. queue' = Tail(queue) /\ queue # <<>> /\ stdin' = stdin
      BY <2>1, <2>3 DEF HandleNewTaskHashes, HandleRunTask, HandleFinishNow, HandleQuit, Handling, Ops
    <3> QED BY <2>1, <3>1 DEF Pieces
  <2> QED BY <2>2, <2>3
<1>4. /\ wpc' \in Ops \cup {"pipes", "kill", "leaving"} /\ normalexit' \in BOOLEAN /\ dies' \in BOOLEAN
      /\ ready' \subseteq build_pids' /\ build_pids' \subseteq Tasks
  <2>1. "newtaskhashes" \in Ops /\ "runtask" \in Ops
    BY DEF Ops
  <2>2. CASE Select
    BY <1>3, <2>1, <2>2, GoesOnSomewhere DEF Select, killvars
  <2>3. CASE HandleNewTaskHashes
    BY <1>3, <2>1, <2>3, GoesOnSomewhere DEF HandleNewTaskHashes, GoOn, killvars
  <2>4. CASE HandleRunTask
    <3>1. Head(queue).task \in Tasks
      BY <2>4, HandlingKeepsLine DEF SoundInv, WorkerInv
    <3> QED BY <1>3, <2>1, <2>4, <3>1, GoesOnSomewhere DEF HandleRunTask, GoOn, killvars
  <2>5. CASE HandleFinishNow \/ HandleQuit
    BY <2>5 DEF HandleFinishNow, HandleQuit, killvars
  <2> QED BY <2>2, <2>3, <2>4, <2>5
<1>5. BooksKept
  <2>1. Len(stdin') <= Room
    BY <1>3, BitbakeWorkerAssumption
  <2>2. wpc' \in Places /\ wpc' # "reap"
    BY <1>4 DEF Places, Ops
  <2> QED BY <1>2, <1>4, <2>1, <2>2 DEF BooksKept
<1>6. ASSUME srv' = "run" PROVE Calm' /\ ReportsOK'
  <2>1. Calm /\ ReportsOK
    BY <1>2, <1>6
  <2>2. ReportsOK'
    BY <1>2, <2>1, SilentReports DEF Silent
  <2>3. ~HandleFinishNow /\ NoStop(queue') /\ NoStop(stdin')
    <3>1. queue \in Seq(Messages) /\ stdin \in Seq(Messages) /\ NoStop(queue) /\ NoStop(stdin)
      BY <1>3, <2>1 DEF Pieces, Calm
    <3>2. NoStop(stdin')
      BY <1>3, <3>1 DEF NoStop
    <3>3. CASE Select
      <4>1. queue' = queue \o stdin /\ wpc = "select"
        BY <3>3 DEF Select
      <4>2. \A i \in 1 .. Len(queue') :
              \/ i \in 1 .. Len(queue) /\ queue'[i] = queue[i]
              \/ i - Len(queue) \in 1 .. Len(stdin) /\ queue'[i] = stdin[i - Len(queue)]
        BY <3>1, <4>1
      <4> QED BY <3>1, <3>2, <4>1, <4>2 DEF NoStop, HandleFinishNow, Handling
    <3>4. CASE HandleNewTaskHashes \/ HandleRunTask \/ HandleFinishNow \/ HandleQuit
      <4>1. queue' = Tail(queue) /\ queue # <<>>
        BY <1>3, <3>4 DEF Pieces, HandleNewTaskHashes, HandleRunTask, HandleFinishNow, HandleQuit,
           Handling, Ops
      <4>2. /\ Head(queue) = queue[1] /\ 1 \in 1 .. Len(queue)
            /\ \A i \in 1 .. Len(queue') : queue'[i] = queue[i + 1] /\ i + 1 \in 1 .. Len(queue)
        BY <3>1, <4>1
      <4>3. Head(queue).op # "finishnow" /\ NoStop(queue')
        BY <3>1, <4>2 DEF NoStop
      <4> QED BY <3>2, <4>3 DEF HandleFinishNow, Handling
    <3> QED BY <3>3, <3>4
  <2>4. wpc' \notin {"kill", "wait"}
    <3>1. Select \/ HandleNewTaskHashes \/ HandleRunTask \/ HandleQuit
      BY <2>3
    <3>2. Ops \cap {"kill", "wait", "pipes", "leaving"} = {} /\ "newtaskhashes" \in Ops /\ "runtask" \in Ops
      BY DEF Ops
    <3> QED BY <1>3, <3>1, <3>2, GoesOnSomewhere
            DEF Select, HandleNewTaskHashes, HandleRunTask, HandleQuit, GoOn
  <2> QED BY <1>2, <2>1, <2>2, <2>3, <2>4 DEF Calm
<1> QED BY <1>1, <1>5, <1>6, BooksSuffice

(* The rest of the worker's loop (serve, process_waitpid, handle_finishnow):*)
(* an event is thrown away only where all tasks are killed.                 *)
LEMMA LoopSound ==
  ASSUME SoundInv, Serve,
         ~(Select \/ HandleNewTaskHashes \/ HandleRunTask \/ HandleFinishNow \/ HandleQuit)
  PROVE  SoundInv'
<1> USE BooksBefore
<1>1. WorkerInv'
  BY ServeKeeps DEF SoundInv
<1>2. CASE KilledAll /\ dies
  BY <1>2, GoneSound DEF KilledAll
<1>3. CASE ~(KilledAll /\ dies)
  <2>1. /\ UNCHANGED <<srv, sending, stdin, queue, asked, sentHashes, heard, heardEvents, stdout, fired,
                       normalexit>>
        /\ Up /\ dies' \in BOOLEAN
    <3>1. CASE KilledAll
      BY <1>3, <3>1 DEF KilledAll, Up, srvvars, loopvars, killvars
    <3>2. CASE SelectEOF \/ Garbled \/ ReadPipes \/ NoneToReap
      <4>1. "gone" \notin {Items[i] : i \in DOMAIN Items}
        BY ItemNames DEF Ops
      <4> QED BY <3>2, <4>1 DEF SelectEOF, Garbled, ReadPipes, NoneToReap, Up, srvvars, loopvars,
              killvars, procvars
    <3>3. CASE \E t \in Tasks : Reap(t) \/ KillOne(t) \/ WaitOne(t)
      BY <3>3 DEF Reap, KillOne, WaitOne, Up, srvvars, loopvars, killvars
    <3> QED BY <3>1, <3>2, <3>3 DEF Serve
  <2>2. Pieces
    BY <2>1
  <2>3. wpc' \in Places
    <3>1. CASE KilledAll
      <4>1. "finishnow" \in Ops /\ queue' \in Seq(Messages) /\ GoOn("finishnow")
        BY <1>3, <2>1, <2>2, <3>1 DEF Pieces, KilledAll, Ops
      <4> QED BY <4>1, GoesOnSomewhere DEF GoOn, Places
    <3>2. CASE ~KilledAll
      BY <3>2 DEF Serve, SelectEOF, Garbled, ReadPipes, NoneToReap, Reap, KillOne, WaitOne, Places
    <3> QED BY <3>1, <3>2
  <2>4. /\ ready' \subseteq build_pids' /\ build_pids' \subseteq Tasks
        /\ wpc' = "reap" => ready' = {}
        /\ term' \in [Tasks -> BOOLEAN]
    <3>1. CASE KilledAll
      <4>1. "finishnow" \in Ops /\ queue' \in Seq(Messages) /\ GoOn("finishnow")
        BY <1>3, <2>1, <2>2, <3>1 DEF Pieces, KilledAll, Ops
      <4>2. wpc' # "reap"
        BY <4>1, GoesOnSomewhere DEF GoOn, Ops
      <4> QED BY <1>3, <3>1, <4>2 DEF KilledAll, loopvars
    <3>2. CASE ~KilledAll
      BY <3>2 DEF Serve, SelectEOF, Garbled, ReadPipes, NoneToReap, Reap, KillOne, WaitOne,
         loopvars, procvars
    <3> QED BY <3>1, <3>2
  <2>5. BooksKept
    BY <2>1, <2>3, <2>4 DEF BooksKept
  <2>6. ASSUME srv' = "run" PROVE Calm' /\ ReportsOK'
    <3>1. srv = "run" /\ Calm /\ ReportsOK
      BY <2>1, <2>6
    <3>2. Garbled \/ ReadPipes \/ NoneToReap \/ \E t \in Tasks : Reap(t)
      BY <3>1 DEF Serve, SelectEOF, EOF, KilledAll, KillOne, WaitOne, Calm
    <3>3. term' = term /\ wpc' \notin {"kill", "wait"}
      BY <3>1, <3>2 DEF Garbled, ReadPipes, NoneToReap, Reap, Calm, procvars
    <3>4. Calm'
      BY <2>1, <3>1, <3>3 DEF Calm
    <3>5. CASE Garbled \/ NoneToReap
      BY <2>1, <3>1, <3>4, <3>5, SilentReports DEF Garbled, NoneToReap, Silent, procvars
    <3>6. CASE ReadPipes
      <4>1. {t \in ready : pipe[t] # <<>>} \in SUBSET Tasks
        BY DEF PidsOK
      <4> QED BY <2>1, <3>1, <3>4, <3>6, <4>1, ReadIntoLine DEF ReadPipes
    <3>7. CASE \E t \in Tasks : Reap(t)
      BY <3>1, <3>4, <3>7, ReapIntoLine
    <3> QED BY <3>2, <3>5, <3>6, <3>7
  <2> QED BY <1>1, <2>5, <2>6, BooksSuffice
<1> QED BY <1>2, <1>3

LEMMA SoundInvInit == Init => SoundInv
<1> SUFFICES ASSUME Init PROVE SoundInv
  OBVIOUS
<1>1. WorkerInv
  BY WorkerInvInit
<1>2. TypeOK
  <2>1. wpc \in {Items[i] : i \in DOMAIN Items}
             \cup {"select", "pipes", "reap", "kill", "wait", "leaving", "gone"}
    BY DEF Init
  <2>2. Room \in Nat /\ RoomBack \in Nat /\ MaxHashes \in Nat
    BY BitbakeWorkerAssumption
  <2>3. Len(<<>>) = 0
    OBVIOUS
  <2>4. /\ asked \in [Tasks -> -1 .. MaxHashes] /\ sentHashes \in 0 .. MaxHashes
        /\ Len(sending) <= 1 /\ Len(stdin) <= Room /\ Len(stdout) <= RoomBack
    BY <2>2, <2>3 DEF Init
  <2>5. /\ proc \in [Tasks -> Running \cup {"none", "zombie", "reaped", "orphan"}]
        /\ status \in [Tasks -> {"none", "exited", "killed"}] /\ term \in [Tasks -> BOOLEAN]
    BY DEF Init
  <2>6. /\ srv \in {"run", "finish", "quit", "closed", "dead"}
        /\ heardEvents \subseteq Tasks /\ fired \subseteq Tasks
        /\ {normalexit, dies} \subseteq BOOLEAN
        /\ ready \subseteq build_pids /\ build_pids \subseteq Tasks
    BY DEF Init
  <2> QED BY <2>1, <2>4, <2>5, <2>6 DEF TypeOK
<1>3. OutLine = <<>>
  BY OneLine, EmptySeq DEF Init, OutLine
<1>4. Calm /\ ReportsOK
  BY <1>3 DEF Init, Calm, ReportsOK, ToldFirst, NoStop
<1> QED BY <1>1, <1>2, <1>4 DEF Init, SoundInv

LEMMA SoundInvStep == SoundInv /\ [Next]_vars => SoundInv'
<1> SUFFICES ASSUME SoundInv, [Next]_vars PROVE SoundInv'
  OBVIOUS
<1>1. CASE Server
  BY <1>1, ServerSound, ReadBackSound
<1>2. CASE Serve
  BY <1>2, ItemsSound, LoopSound
<1>3. CASE Leave \/ WorkerKilled
  BY <1>3, GoneSound DEF Leave, WorkerKilled
<1>4. CASE UNCHANGED vars
  <2>1. WorkerInv'
    BY <1>4, WorkerInvStep, BooksBefore DEF SoundInv
  <2>2. BooksKept
    BY <1>4, BooksBefore DEF BooksKept, vars, srvvars, loopvars, killvars, procvars
  <2>3. UNCHANGED <<srv, term, wpc, queue, stdin, sending>> /\ Silent
    BY <1>4 DEF vars, srvvars, loopvars, procvars, Silent, Up
  <2> QED BY <2>1, <2>2, <2>3, BooksBefore, BooksSuffice, SilentReports DEF Calm
<1> QED BY <1>1, <1>2, <1>3, <1>4, FlushSound, ProcessSound DEF Next

(* The pipes, the books and the processes of the worker are in order, and   *)
(* as long as the build is not stopped, what a task has to tell is heard    *)
(* before its exit code (process_waitpid, worker_flush, runQueuePipe.read). *)
THEOREM SoundAlways == Spec => []WorkerSound
<1>1. SoundInv => WorkerSound
  BY DEF SoundInv, WorkerSound, EventsFirst, ReportsOK
<1> QED BY <1>1, SoundInvInit, SoundInvStep, PTL DEF Spec
=============================================================================
