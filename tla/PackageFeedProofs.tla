-------------------------- MODULE PackageFeedProofs --------------------------
(***************************************************************************)
(* What the hash equivalence server and the PR service promise (HashServ,   *)
(* PRService, PackageFeed), proved for any number of builders, taskhashes   *)
(* and checksums.                                                           *)
(*                                                                          *)
(* Of the hash server's table: a row gets the unihash of the oldest row     *)
(* with its output, and rows are never changed, so that all rows of an      *)
(* output have the unihash of the first of them.  Of the PR service: the    *)
(* table and what is committed differ only between a request and the sync   *)
(* that follows it, so that a server that ends has lost nothing; and values *)
(* are only ever given above all others.  Of the builders: what a call      *)
(* returns is the answer to what was asked, and stands in the table.        *)
(***************************************************************************)
EXTENDS PackageFeed, WellFoundedInduction, TLAPS

(* A non-empty set of natural numbers has a least element.                  *)
LEMMA LeastOf ==
  ASSUME NEW S, S \subseteq Nat, S # {}
  PROVE  \E x \in S : \A y \in S : x <= y
<1>1. PICK x \in S : \A y \in S : ~ (<<y, x>> \in OpToRel(<, Nat))
  BY NatLessThanWellFounded, WFMin
<1>2. ASSUME NEW y \in S PROVE x <= y
  <2>1. ~ (<<y, x>> \in OpToRel(<, Nat))
    BY <1>1
  <2>2. ~ (y < x)
    BY <2>1 DEF OpToRel
  <2> QED BY <2>2
<1> QED BY <1>2

-----------------------------------------------------------------------------
(* The table of the hash equivalence server                                 *)

IsASeq(s) == \E S : s \in Seq(S)

TableOK ==
  /\ IsASeq(tasks_v2)
  /\ \A i \in DOMAIN tasks_v2 : tasks_v2[i].created \in Nat
  /\ ~ClockGoesBack => \A i \in DOMAIN tasks_v2 : tasks_v2[i].created = i

(* Some row of any there are is the oldest (ORDER BY created ... LIMIT 1).  *)
LEMMA OldestIsOne ==
  ASSUME TableOK, NEW S, S \subseteq DOMAIN tasks_v2, S # {}
  PROVE  Oldest(S) \in S /\ \A j \in S : Older(Oldest(S), j)
<1>1. DOMAIN tasks_v2 \subseteq Nat
  BY DEF TableOK, IsASeq
<1> DEFINE times == {tasks_v2[i].created : i \in S}
<1>2. times \subseteq Nat /\ times # {}
  BY DEF TableOK
<1>3. PICK x \in times : \A y \in times : x <= y
  BY <1>2, LeastOf
<1> DEFINE first == {i \in S : tasks_v2[i].created = x}
<1>4. first # {} /\ first \subseteq Nat
  BY <1>1, <1>3
<1>5. PICK i \in first : \A j \in first : i <= j
  BY <1>4, LeastOf
<1>6. \A j \in S : Older(i, j)
  <2>1. ASSUME NEW j \in S PROVE Older(i, j)
    <3>1. tasks_v2[i].created <= tasks_v2[j].created /\ tasks_v2[i].created \in Nat
          /\ tasks_v2[j].created \in Nat
      BY <1>2, <1>3, <1>5
    <3>2. tasks_v2[j].created = tasks_v2[i].created => i <= j
      BY <1>5
    <3> QED BY <3>1, <3>2 DEF Older
  <2> QED BY <2>1
<1> QED BY <1>5, <1>6 DEF Oldest

(* A row goes to the end of the table, with no time before the others'      *)
(* unless the clock goes back (INSERT).                                     *)
LEMMA InsertedRow ==
  ASSUME TableOK, NEW t, NEW o, NEW u, Insert(t, o, u)
  PROVE  /\ TableOK'
         /\ DOMAIN tasks_v2' = DOMAIN tasks_v2 \cup {Len(tasks_v2) + 1}
         /\ Len(tasks_v2) + 1 \notin DOMAIN tasks_v2
         /\ \A i \in DOMAIN tasks_v2 : tasks_v2'[i] = tasks_v2[i]
         /\ LET new == tasks_v2'[Len(tasks_v2) + 1]
            IN new.taskhash = t /\ new.outhash = o /\ new.unihash = u
<1>1. PICK now \in Now :
        tasks_v2' = Append(tasks_v2, [taskhash |-> t, outhash |-> o, unihash |-> u, created |-> now])
  BY DEF Insert
<1> DEFINE r == [taskhash |-> t, outhash |-> o, unihash |-> u, created |-> now]
<1>2. PICK S : tasks_v2 \in Seq(S)
  BY DEF TableOK, IsASeq
<1>3. tasks_v2 \in Seq(S \cup {r}) /\ tasks_v2' \in Seq(S \cup {r})
  BY <1>1, <1>2
<1> HIDE DEF r
<1>4. /\ DOMAIN tasks_v2 = 1..Len(tasks_v2) /\ DOMAIN tasks_v2' = 1..(Len(tasks_v2) + 1)
      /\ Len(tasks_v2) \in Nat /\ tasks_v2'[Len(tasks_v2) + 1] = r
      /\ \A i \in DOMAIN tasks_v2 : tasks_v2'[i] = tasks_v2[i]
  BY <1>1, <1>3 DEF r
<1>5. r.created \in Nat /\ (~ClockGoesBack => r.created = Len(tasks_v2) + 1)
      /\ r.taskhash = t /\ r.outhash = o /\ r.unihash = u
  BY <1>4 DEF r, Now
<1>6. TableOK'
  BY <1>3, <1>4, <1>5 DEF TableOK, IsASeq
<1> QED BY <1>4, <1>5, <1>6

(* All that happens to the table is that one message is handled.            *)
LEMMA TableSteps ==
  ASSUME [Next]_vars
  PROVE  UNCHANGED tasks_v2 \/ \E m : HandleReport(m) \/ HandleEquivReport(m)
<1>1. CASE HashStep
  BY <1>1 DEF HashStep, Connect, ConnectionFails, Handle, Reject, Deliver, StartHashServer
<1>2. CASE HashFault \/ UNCHANGED hashvars
  BY <1>2 DEF HashFault, LoseConnection, StopHashServer, hashvars
<1>3. ASSUME NEW b \in Clients, Builder(b) \/ LosePRConnection(b) PROVE UNCHANGED tasks_v2
  BY <1>3 DEF Builder, StartBuild, Rehash, GetUnihash, GotUnihash, Package, Reported, Remap, Remapped, AskForPR,
     PRServerGone, GiveUpPR, LosePRConnection, Disconnected, Consumed, hashvars
<1>4. CASE AnswerPR
  BY <1>4 DEF AnswerPR, hashvars
<1> QED BY <1>1, <1>2, <1>3, <1>4 DEF Next, vars

HashInv == TableOK /\ OneUnihashPerOutput

(* The unihash of a new row is that of the rows with its output             *)
(* (handle_report).                                                         *)
LEMMA ReportKeeps ==
  ASSUME HashInv, NEW m, HandleReport(m)
  PROVE  HashInv'
<1>1. CASE UNCHANGED tasks_v2
  BY <1>1 DEF HashInv, TableOK, IsASeq, OneUnihashPerOutput
<1>2. CASE Exact(m.taskhash, m.outhash) = {} /\ Insert(m.taskhash, m.outhash, UnihashFor(m))
  <2>1. HashInv /\ TableOK
    BY DEF HashInv
  <2>2. ASSUME NEW i \in RowsWith(m.outhash), m.outhash # NoOuthash
        PROVE  tasks_v2[i].unihash = UnihashFor(m)
    <3>1. Equivalent(m.taskhash, m.outhash) = RowsWith(m.outhash)
      BY <1>2 DEF Equivalent
    <3>2. Oldest(RowsWith(m.outhash)) \in RowsWith(m.outhash)
      BY <2>1, <2>2, OldestIsOne DEF RowsWith
    <3> QED BY <2>1, <2>2, <3>1, <3>2 DEF UnihashFor, HashInv, OneUnihashPerOutput, RowsWith
  <2> QED BY <1>2, <2>1, <2>2, InsertedRow DEF HashInv, OneUnihashPerOutput, RowsWith
<1> QED BY <1>1, <1>2 DEF HandleReport

(* A row of report-equiv has no output (handle_equivreport).                *)
LEMMA EquivReportKeeps ==
  ASSUME HashInv, NEW m, HandleEquivReport(m)
  PROVE  HashInv'
<1>1. CASE UNCHANGED tasks_v2
  BY <1>1 DEF HashInv, TableOK, IsASeq, OneUnihashPerOutput
<1>2. CASE Insert(m.taskhash, NoOuthash, m.unihash)
  BY <1>2, InsertedRow DEF HashInv, OneUnihashPerOutput
<1> QED BY <1>1, <1>2 DEF HandleEquivReport

LEMMA HashInvAlways == Spec => []HashInv
<1>1. Init => HashInv
  BY DEF Init, HashInit, HashInv, TableOK, IsASeq, OneUnihashPerOutput
<1>2. HashInv /\ [Next]_vars => HashInv'
  BY TableSteps, ReportKeeps, EquivReportKeeps DEF HashInv, TableOK, IsASeq, OneUnihashPerOutput
<1> QED BY <1>1, <1>2, PTL DEF Spec

(* All rows of one output have one unihash, whatever builders report, in    *)
(* whatever order and however often, and whatever fails (handle_report).    *)
THEOREM OutputsAgree == Spec => []OneUnihashPerOutput
<1>1. HashInv => OneUnihashPerOutput
  BY DEF HashInv
<1> QED BY <1>1, HashInvAlways, PTL

(* A row that is younger than all others is the answer to no query that had *)
(* one before (get_unihash).                                                *)
LEMMA AnswersStay ==
  ASSUME ~ClockGoesBack, TableOK, NEW t, FastQuery(t) # NoHash,
         NEW r, NEW o, NEW u, Insert(r, o, u)
  PROVE  FastQuery(t)' = FastQuery(t)
<1>0. PICK new, old : new = Len(tasks_v2) + 1 /\ old = Oldest(RowsOf(t))
  OBVIOUS
<1>1. /\ TableOK' /\ DOMAIN tasks_v2' = DOMAIN tasks_v2 \cup {new}
      /\ new \notin DOMAIN tasks_v2
      /\ \A i \in DOMAIN tasks_v2 : tasks_v2'[i] = tasks_v2[i]
  BY <1>0, InsertedRow
<1>2. RowsOf(t) # {} /\ RowsOf(t) \subseteq DOMAIN tasks_v2
  BY DEF FastQuery, RowsOf
<1>3. old \in RowsOf(t) /\ \A j \in RowsOf(t) : Older(old, j)
  BY <1>0, <1>2, OldestIsOne
<1>4. /\ DOMAIN tasks_v2 = 1..Len(tasks_v2) /\ Len(tasks_v2) \in Nat
      /\ \A i \in DOMAIN tasks_v2 : tasks_v2[i].created = i
      /\ \A i \in DOMAIN tasks_v2' : tasks_v2'[i].created = i
  BY <1>1 DEF TableOK, IsASeq
<1>5. RowsOf(t) \subseteq RowsOf(t)' /\ RowsOf(t)' \subseteq RowsOf(t) \cup {new}
      /\ RowsOf(t)' \subseteq DOMAIN tasks_v2'
  BY <1>1, <1>2 DEF RowsOf
<1>6. \A i, j \in RowsOf(t)' : Older(i, j)' <=> i <= j
  BY <1>1, <1>4, <1>0, <1>5 DEF Older
<1>7. \A j \in RowsOf(t)' : old <= j
  BY <1>1, <1>3, <1>4, <1>5, <1>2, <1>0 DEF Older
<1>8. \A i \in RowsOf(t)' : (\A j \in RowsOf(t)' : Older(i, j)') => i = old
  <2>1. ASSUME NEW i \in RowsOf(t)', \A j \in RowsOf(t)' : Older(i, j)' PROVE i = old
    <3>1. old \in RowsOf(t)' /\ i <= old /\ old <= i
      BY <2>1, <1>3, <1>5, <1>6, <1>7
    <3>2. i \in Nat /\ old \in Nat
      BY <1>1, <1>4, <1>5, <3>1, <1>0
    <3> QED BY <3>1, <3>2
  <2> QED BY <2>1
<1>9. Oldest(RowsOf(t))' = old
  <2>1. \A j \in RowsOf(t)' : Older(old, j)'
    BY <1>3, <1>5, <1>6, <1>7
  <2>2. Oldest(RowsOf(t))' = CHOOSE i \in RowsOf(t)' : \A j \in RowsOf(t)' : Older(i, j)'
    BY DEF Oldest
  <2> QED BY <2>1, <2>2, <1>3, <1>5, <1>8
<1>10. FastQuery(t)' = tasks_v2'[old].unihash
  BY <1>2, <1>5, <1>9 DEF FastQuery
<1> QED BY <1>0, <1>10, <1>1, <1>2, <1>3 DEF FastQuery

(* What a builder was told of a taskhash stays true, as long as the clock   *)
(* does not go back: the first row of a taskhash stays the oldest           *)
(* (handle_report, handle_equivreport, get_unihash).                        *)
THEOREM FirstWins == ASSUME ~ClockGoesBack PROVE Spec => FirstReportWins
<1>1. HashInv /\ [Next]_vars =>
        [\A t \in Taskhashes : FastQuery(t) # NoHash => FastQuery(t)' = FastQuery(t)]_tasks_v2
  <2> SUFFICES ASSUME HashInv, [Next]_vars, tasks_v2' # tasks_v2,
                      NEW t \in Taskhashes, FastQuery(t) # NoHash
               PROVE  FastQuery(t)' = FastQuery(t)
    OBVIOUS
  <2>1. \E r, o, u : Insert(r, o, u)
    BY TableSteps DEF HandleReport, HandleEquivReport
  <2> QED BY <2>1, AnswersStay DEF HashInv
<1> QED BY <1>1, HashInvAlways, PTL DEF Spec, FirstReportWins

-----------------------------------------------------------------------------
(* The PR service                                                           *)

PRTypes ==
  /\ prtable \in [Checksums -> Nat \cup {NoRow}]
  /\ prdisk \in [Checksums -> Nat \cup {NoRow}]
  /\ crashes \in Nat /\ answered.value \in Nat \cup {NoRow}

QueueOK ==
  /\ IsASeq(requestqueue)
  /\ \A i \in DOMAIN requestqueue :
       requestqueue[i].op = "getPR" => requestqueue[i].checksum \in Checksums

\* Only between a request and the sync after it is there something to commit.
AllCommitted ==
  \/ handler = "answer" /\ dirty
  \/ handler \in {"sync", "sync error"}
  \/ prtable = prdisk

WhileDown == ~Up => handler = "ended"

\* No two checksums have a value.
Differ(table) ==
  \A j, k \in Checksums : j # k /\ table[j] # NoRow => table[j] # table[k]
ValuesDiffer == Differ(prtable) /\ Differ(prdisk)

\* The last answer is in the table, and at its top.
LastIsTop ==
  crashes = 0 /\ answered.value # NoRow =>
    /\ answered.checksum \in Checksums
    /\ prtable[answered.checksum] = answered.value
    /\ \A j \in Checksums : prtable[j] <= answered.value

PRInv ==
  PRTypes /\ QueueOK /\ AllCommitted /\ WhileDown /\ ValuesDiffer /\ LastIsTop

(* What getPR works out is above all else in the table, or on top of it     *)
(* already (_getValueNohist).                                               *)
LEMMA ValueIsTop ==
  ASSUME PRInv, NEW k \in Checksums, NEW v \in Nat, GetValue(k, v)
  PROVE  /\ prtable' \in [Checksums -> Nat \cup {NoRow}] /\ prdisk' = prdisk
         /\ Differ(prtable)'
         /\ prtable'[k] = v /\ \A j \in Checksums : prtable'[j] <= v
         /\ \A j \in Checksums : prtable[j] <= v
         /\ prtable' = prtable \/ (dirty' /\ \A j \in Checksums : prtable[j] < v)
<1> USE DEF PRInv, PRTypes, ValuesDiffer, Differ, NoRow
<1>1. CASE IsCurrent(k)
  BY <1>1 DEF GetValue, IsCurrent, dbvars
<1>2. CASE ~IsCurrent(k)
  <2>1. prtable' = [prtable EXCEPT ![k] = v] /\ dirty' = TRUE /\ prdisk' = prdisk
        /\ \A j \in Checksums : prtable[j] < v
    BY <1>2 DEF GetValue, IsNext
  <2> QED BY <2>1
<1> QED BY <1>1, <1>2

(* The queue is used from both ends.                                        *)
LEMMA QueueKept ==
  ASSUME QueueOK
  PROVE  /\ UNCHANGED requestqueue => QueueOK'
         /\ requestqueue # <<>> /\ requestqueue' = Tail(requestqueue) => QueueOK'
         /\ requestqueue' = <<>> => QueueOK'
         /\ \A r : /\ requestqueue' = Append(requestqueue, r)
                /\ (r.op = "getPR" => r.checksum \in Checksums)
                => QueueOK'
<1>1. PICK S : requestqueue \in Seq(S)
  BY DEF QueueOK, IsASeq
<1>2. UNCHANGED requestqueue => QueueOK'
  BY DEF QueueOK, IsASeq
<1>3. ASSUME requestqueue # <<>>, requestqueue' = Tail(requestqueue) PROVE QueueOK'
  BY <1>1, <1>3 DEF QueueOK, IsASeq
<1>4. ASSUME requestqueue' = <<>> PROVE QueueOK'
  <2>1. requestqueue' \in Seq({}) /\ DOMAIN requestqueue' = {}
    BY <1>4
  <2> QED BY <2>1 DEF QueueOK, IsASeq
<1>5. ASSUME NEW r, requestqueue' = Append(requestqueue, r), r.op = "getPR" => r.checksum \in Checksums
      PROVE  QueueOK'
  <2>1. requestqueue \in Seq(S \cup {r}) /\ requestqueue' \in Seq(S \cup {r})
    BY <1>1, <1>5
  <2>2. \A i \in DOMAIN requestqueue' : requestqueue'[i] = r \/ (i \in DOMAIN requestqueue /\ requestqueue'[i] = requestqueue[i])
    BY <2>1, <1>5
  <2> QED BY <2>1, <2>2, <1>5 DEF QueueOK, IsASeq
<1> QED BY <1>2, <1>3, <1>4, <1>5

(* A value that is given out keeps what the others keep, and follows the    *)
(* checksum (getPR, _getValueNohist).                                       *)
LEMMA ServesKeeps ==
  ASSUME PRInv, NEW v \in PRValues, ServesGetPR(v)
  PROVE  /\ PRInv'
         /\ crashes = 0 => PRFollows
         /\ crashes = 0 => \E k \in Checksums : prdisk[k] >= answered.value
<1> DEFINE k == Head(requestqueue).checksum
<1>1. PICK S : requestqueue \in Seq(S)
  BY DEF PRInv, QueueOK, IsASeq
<1>2. requestqueue # <<>> /\ requestqueue' = Tail(requestqueue) /\ handler = "get"
      /\ handler' = "answer" /\ Head(requestqueue).op = "getPR" /\ GetValue(k, v)
      /\ answered' = [checksum |-> k, value |-> v] /\ crashes' = crashes /\ prmain' = prmain
  BY DEF ServesGetPR, Takes, prbounds, mainvars
<1>3. k \in Checksums /\ v \in Nat
  BY <1>1, <1>2, PRServiceAssumption DEF PRInv, QueueOK, PRValues
<1>4. QueueOK'
  BY <1>2, QueueKept DEF PRInv
<1> HIDE DEF k
<1>5. /\ prtable' \in [Checksums -> Nat \cup {NoRow}] /\ prdisk' = prdisk
      /\ Differ(prtable)'
      /\ prtable'[k] = v /\ \A j \in Checksums : prtable'[j] <= v
      /\ \A j \in Checksums : prtable[j] <= v
      /\ prtable' = prtable \/ (dirty' /\ \A j \in Checksums : prtable[j] < v)
  BY <1>2, <1>3, ValueIsTop
<1>6. prtable = prdisk
  BY <1>2 DEF PRInv, AllCommitted
<1>7. answered'.checksum = k /\ answered'.value = v
  BY <1>2
<1>8. PRInv'
  BY <1>2, <1>3, <1>4, <1>5, <1>6, <1>7 DEF PRInv, PRTypes, AllCommitted, WhileDown, Up, LastIsTop, ValuesDiffer
<1>9. ASSUME crashes = 0 PROVE PRFollows
  <2> SUFFICES ASSUME answered.value # NoRow
               PROVE  IF answered'.checksum = answered.checksum
                      THEN answered'.value = answered.value
                      ELSE answered'.value > answered.value
    BY DEF PRFollows
  <2>1. /\ answered.checksum \in Checksums /\ prtable[answered.checksum] = answered.value
        /\ \A j \in Checksums : prtable[j] <= answered.value
        /\ answered.value \in Nat
    BY <1>9 DEF PRInv, LastIsTop, PRTypes, NoRow
  <2>2. CASE IsCurrent(k)
    <3>1. v = prtable[k] /\ prtable[k] # NoRow /\ \A j \in Checksums : prtable[j] <= prtable[k]
      BY <1>2, <2>2 DEF GetValue, IsCurrent
    <3>2. v = answered.value
      BY <3>1, <2>1, <1>3
    <3>3. k = answered.checksum
      BY <3>1, <3>2, <2>1, <1>3 DEF PRInv, ValuesDiffer, Differ
    <3> QED BY <3>2, <3>3, <1>7
  <2>3. CASE ~IsCurrent(k)
    <3>1. \A j \in Checksums : prtable[j] < v
      BY <1>2, <2>3 DEF GetValue, IsNext
    <3>2. k # answered.checksum
      BY <2>1, <2>3 DEF IsCurrent, NoRow
    <3> QED BY <3>1, <3>2, <2>1, <1>7
  <2> QED BY <2>2, <2>3
<1>10. ASSUME crashes = 0 PROVE \E j \in Checksums : prdisk[j] >= answered.value
  <2>1. CASE answered.value = NoRow
    BY <2>1, <1>3 DEF PRInv, PRTypes, NoRow
  <2>2. CASE answered.value # NoRow
    BY <2>2, <1>6, <1>10 DEF PRInv, LastIsTop, PRTypes
  <2> QED BY <2>1, <2>2
<1> QED BY <1>8, <1>9, <1>10

(* What is left to show when no value is given out.                         *)
LEMMA TableKept ==
  ASSUME PRInv, UNCHANGED <<prtable, answered, crashes>>, prdisk' \in {prdisk, prtable},
         QueueOK', AllCommitted', WhileDown'
  PROVE  PRInv' /\ answered' = answered
  BY DEF PRInv, PRTypes, ValuesDiffer, Differ, LastIsTop

(* No other step changes an answer or the table; a server that ends has     *)
(* committed it (PRServerEnds, sigterm_handler, process_request_thread).    *)
LEMMA OthersKeep ==
  ASSUME PRInv, [PRNext]_prvars, ~ \E v \in PRValues : ServesGetPR(v)
  PROVE  PRInv' /\ answered' = answered
<1> USE DEF AllCommitted, WhileDown, Up
<1>0. QueueOK /\ AllCommitted /\ WhileDown
  BY DEF PRInv
<1>1. CASE HandlerEnds \/ HandlerCommits \/ HandlerBegins \/ \E gone \in BOOLEAN : Answer(gone)
  <2>1. UNCHANGED <<prtable, answered, crashes, requestqueue, prmain>> /\ prdisk' \in {prdisk, prtable}
    BY <1>1 DEF HandlerEnds, HandlerCommits, HandlerBegins, Answer, Commit, Begin, dbvars,
       prbounds, mainvars
  <2>2. AllCommitted' /\ WhileDown'
    BY <1>0, <1>1, <2>1 DEF HandlerEnds, HandlerCommits, HandlerBegins, Answer, AfterAnswer,
       LoopHead, Commit, Begin, dbvars
  <2> QED BY <1>0, <2>1, <2>2, TableKept, QueueKept
<1>2. CASE ServesQuit
  <2>1. /\ UNCHANGED <<prtable, prdisk, dirty, answered, crashes, prmain>>
        /\ requestqueue # <<>> /\ requestqueue' = Tail(requestqueue)
        /\ handler = "get" /\ handler' = "answer"
    BY <1>2 DEF ServesQuit, Takes, dbvars, prbounds, mainvars
  <2>2. AllCommitted' /\ WhileDown'
    BY <1>0, <2>1
  <2> QED BY <1>0, <2>1, <2>2, TableKept, QueueKept
<1>3. CASE SignalCommits \/ SignalBegins \/ SignalQuits \/ MainLeaves
           \/ \E s \in {"SIGINT", "SIGTERM"} : Signal(s)
  <2>1. /\ UNCHANGED <<prtable, dirty, answered, crashes, requestqueue, handler>>
        /\ prdisk' \in {prdisk, prtable} /\ Up /\ Up'
    BY <1>3 DEF SignalCommits, SignalBegins, SignalQuits, MainLeaves, Signal, Commit, Begin, dbvars,
       prbounds, Resumed
  <2>2. AllCommitted' /\ WhileDown'
    BY <1>0, <2>1
  <2> QED BY <1>0, <2>1, <2>2, TableKept, QueueKept
<1>4. CASE PRServerEnds
  <2>1. prtable = prdisk
    BY <1>0, <1>4 DEF PRServerEnds, HandlerDone
  <2>2. /\ UNCHANGED <<prtable, prdisk, answered, crashes>>
        /\ requestqueue' = <<>> /\ handler' = "ended"
    BY <1>4, <2>1 DEF PRServerEnds, ProcessGone, prbounds
  <2>3. AllCommitted' /\ WhileDown'
    BY <2>1, <2>2
  <2> QED BY <1>0, <2>2, <2>3, TableKept, QueueKept
<1>5. CASE Killed
  <2>1. /\ prtable' = prdisk /\ prdisk' = prdisk /\ requestqueue' = <<>> /\ handler' = "ended"
        /\ answered' = answered /\ crashes' = crashes + 1
    BY <1>5 DEF Killed, ProcessGone
  <2>2. AllCommitted' /\ WhileDown' /\ QueueOK'
    BY <1>0, <2>1, QueueKept
  <2>3. PRTypes'
    <3>1. PRTypes
      BY DEF PRInv
    <3>2. crashes' \in Nat
      BY <2>1, <3>1 DEF PRTypes
    <3>3. answered'.value \in Nat \cup {NoRow}
      BY <2>1, <3>1 DEF PRTypes
    <3> QED BY <2>1, <3>1, <3>2, <3>3 DEF PRTypes
  <2>4. ValuesDiffer'
    BY <2>1 DEF PRInv, ValuesDiffer, Differ, NoRow
  <2>5. LastIsTop'
    <3>1. crashes \in Nat
      BY DEF PRInv, PRTypes
    <3>2. crashes' # 0
      BY <2>1, <3>1
    <3> QED BY <3>2 DEF LastIsTop
  <2> QED BY <2>1, <2>2, <2>3, <2>4, <2>5 DEF PRInv
<1>6. CASE StartPRServer
  <2>1. UNCHANGED <<prtable, prdisk, answered, crashes, requestqueue>> /\ ~Up /\ Up'
    BY <1>6 DEF StartPRServer, dbvars, prbounds
  <2>2. AllCommitted' /\ WhileDown'
    BY <1>0, <2>1
  <2> QED BY <1>0, <2>1, <2>2, TableKept, QueueKept
<1>7. ASSUME NEW r, Accept(r), UNCHANGED crashes, r.op = "getPR" => r.checksum \in Checksums
      PROVE  PRInv' /\ answered' = answered
  <2>1. /\ UNCHANGED <<prtable, prdisk, dirty, handler, answered, prmain>>
        /\ requestqueue' = Append(requestqueue, r)
    BY <1>7 DEF Accept, dbvars, mainvars
  <2>2. AllCommitted' /\ WhileDown'
    BY <1>0, <2>1
  <2>3. QueueOK'
    BY <1>0, <1>7, <2>1, QueueKept
  <2> QED BY <1>7, <2>1, <2>2, <2>3, TableKept
<1>8. CASE AskToQuit
  BY <1>8, <1>7 DEF AskToQuit, Quit
<1>9. CASE \E k \in Checksums : \E c, n : Accept(GetPR(c, n, k)) /\ UNCHANGED prbounds
  BY <1>9, <1>7 DEF GetPR, prbounds
<1>10. CASE UNCHANGED prvars
  <2>1. UNCHANGED <<prtable, prdisk, dirty, handler, answered, prmain, crashes, requestqueue>>
    BY <1>10 DEF prvars, dbvars, mainvars, prbounds
  <2>2. AllCommitted' /\ WhileDown'
    BY <1>0, <2>1
  <2> QED BY <1>0, <2>1, <2>2, TableKept, QueueKept
<1> QED
  BY <1>1, <1>2, <1>3, <1>4, <1>5, <1>6, <1>8, <1>9, <1>10 DEF PRNext, PRHandler, PRMain, PRFault

LEMMA PRInvAlways == PRSpec => []PRInv
<1>1. PRInit => PRInv
  <2> SUFFICES ASSUME PRInit PROVE PRInv
    OBVIOUS
  <2>1. QueueOK
    <3>1. requestqueue \in Seq({}) /\ DOMAIN requestqueue = {}
      BY DEF PRInit
    <3> QED BY <3>1 DEF QueueOK, IsASeq
  <2> QED BY <2>1 DEF PRInit, PRInv, PRTypes, AllCommitted, WhileDown, Up, ValuesDiffer, Differ,
                      LastIsTop, NoRow
<1>2. PRInv /\ [PRNext]_prvars => PRInv'
  BY ServesKeeps, OthersKeep
<1> QED BY <1>1, <1>2, PTL DEF PRSpec

(* PR values follow the checksum, up only, as long as the server is not     *)
(* killed: through signals, whose handlers use the database beside the      *)
(* thread that serves requests, quits, and restarts (getPR, sync).          *)
THEOREM ValuesFollow == PRSpec => PRFollowsChecksum
<1>1. PRInv /\ [PRNext]_prvars => [crashes = 0 => PRFollows]_answered
  BY ServesKeeps, OthersKeep
<1> QED BY <1>1, PRInvAlways, PTL DEF PRSpec, PRFollowsChecksum

(* If it is killed, the last answer is all that may be lost                 *)
(* (process_request_thread).                                                *)
THEOREM LastAtRisk == PRSpec => OnlyLastAtRisk
<1>1. PRInv /\ [PRNext]_prvars =>
        [crashes = 0 => \E k \in Checksums : prdisk[k] >= answered.value]_answered
  BY ServesKeeps, OthersKeep
<1> QED BY <1>1, PRInvAlways, PTL DEF PRSpec, OnlyLastAtRisk

(* The builders of PackageFeed do nothing to the service but what it is     *)
(* proved for (package_get_auto_pr).                                        *)
LEMMA FeedUsesService ==
  ASSUME Next, \A b \in Clients : stage[b] = "getpr" => unihashes[b][task[b]] \in Checksums
  PROVE  [PRNext]_prvars
<1>1. ASSUME NEW b \in Clients, Builder(b) \/ LosePRConnection(b) PROVE [PRNext]_prvars
  <2>1. CASE AskForPR(b)
    BY <2>1, <1>1 DEF AskForPR, PRNext
  <2>2. CASE (Builder(b) /\ ~AskForPR(b)) \/ LosePRConnection(b)
    BY <2>2 DEF Builder, StartBuild, Rehash, GetUnihash, GotUnihash, Package, Reported, Remap, Remapped, PRServerGone,
       GiveUpPR, LosePRConnection, Disconnected, Consumed
  <2> QED BY <1>1, <2>1, <2>2
<1>2. CASE AnswerPR
  BY <1>2 DEF AnswerPR, PRNext
<1> QED BY <1>1, <1>2 DEF Next, PRNext, PRHandler, PRMain

-----------------------------------------------------------------------------
(* What the builders take from the hash equivalence server                  *)

(* No class of taskhashes that is closed has one of the two only.           *)
Same(t, u) == \A C \in SUBSET Taskhashes : Closed(C) => (t \in C <=> u \in C)

(* A row is of a task that makes its output, and its unihash is of the same *)
(* class.                                                                   *)
RowSound(r) ==
  /\ Same(r.taskhash, r.unihash)
  /\ r.outhash # NoOuthash => r.outhash \in Outputs[r.taskhash]
RowsSound == tasks_v2 \in Seq(Row) /\ \A i \in DOMAIN tasks_v2 : RowSound(tasks_v2[i])

(* What a builder at its stage may have to say to the server, and the lines *)
(* it does that with (_set_mode).                                           *)
Asks(b) ==
  CASE stage[b] \in {"query", "lookup"} -> {Query(task[b])}
    [] stage[b] = "report" -> {Report(task[b], output[b], unihashes[b][task[b]])}
    [] stage[b] = "remap"  -> {ReportEquiv(task[b], u) :
                                 u \in {v \in Taskhashes : <<task[b], v>> \in Remaps}}
    [] OTHER               -> {}
Lines(m) ==
  {<<m>>, IF m.op = "query" THEN <<GetStream, m>> ELSE <<End, m>>}
CallRight(b) == todo[b] = <<>> \/ \E m \in Asks(b) : todo[b] \in Lines(m)

(* An answer to that, which a row stands for if it is one to a report.      *)
Listed(o, u) ==
  \E i \in DOMAIN tasks_v2 : tasks_v2[i].outhash = o /\ tasks_v2[i].unihash = u
Fits(b, u) ==
  /\ u \in Unihashes
  /\ stage[b] \in {"query", "lookup"} /\ u # NoHash => Same(u, task[b])
  /\ stage[b] = "report" => u # NoHash /\ Same(u, task[b]) /\ Listed(output[b], u)
ReplyRight(b) ==
  reply[b] # <<>> =>
    /\ todo[b] # <<>> /\ conn[b] \in {"normal", "stream"}
    /\ \E u \in Unihashes :
         /\ reply[b] = <<u>>
         /\ Current(b).op \notin {"get-stream", "END"} => Fits(b, u)
ResultRight(b) ==
  result[b] \in {NoResult, Raised} \/ \E u \in Unihashes : result[b] = Returned(u) /\ Fits(b, u)

BuilderRight(b) ==
  /\ stage[b] # "idle" => task[b] \in Taskhashes
  /\ stage[b] \in {"package", "report", "known", "getpr", "waitpr"} => unihashes[b][task[b]] # NoHash
  /\ stage[b] = "report" => output[b] \in Outputs[task[b]]
  /\ \A t \in Taskhashes : unihashes[b][t] # NoHash => Same(unihashes[b][t], t)
  /\ restoring[b] => todo[b] # <<>>

EquivalentsListed == \A e \in equivalents : e[1] # NoOuthash /\ Listed(e[1], e[2])

(* The modes of a connection's ends, while a message has tries to spare.    *)
Spare == losses <= Retries /\ hashstops = 0
Wants(m) == IF m.op \in StreamOps THEN "stream" ELSE "normal"
Leads(m) == CASE m.op = "get-stream" -> "stream" [] m.op = "END" -> "normal" [] OTHER -> Wants(m)
Failures(c) == attempts[c] + nested[c] + (IF conn[c] = "dead" THEN 1 ELSE 0)
ModeRight(c) ==
  /\ Failures(c) <= losses
  /\ todo[c] # <<>> =>
       IF restoring[c] THEN mode[c] = "normal" /\ Wants(Head(todo[c])) = "stream"
                       ELSE mode[c] = Wants(Head(todo[c]))
  /\ conn[c] \in {"normal", "stream"} =>
       conn[c] = IF todo[c] = <<>> THEN mode[c]
                 ELSE IF reply[c] = <<>> THEN Wants(Current(c)) ELSE Leads(Current(c))
ModesRight == Spare => serving /\ \A c \in Clients : ModeRight(c)

LEMMA SameIsEquivalence ==
  \A t, u, v : /\ Same(t, t)
               /\ Same(t, u) => Same(u, t)
               /\ Same(t, u) /\ Same(u, v) => Same(t, v)
BY DEF Same

(* Tasks that make the same are of one class, and so are those a migration  *)
(* takes for each other.                                                    *)
LEMMA SameByOutput ==
  ASSUME NEW t \in Taskhashes, NEW u \in Taskhashes, NEW o \in Outputs[t], o \in Outputs[u]
  PROVE  Same(t, u)
BY DEF Same, Closed

LEMMA SameByRemap ==
  ASSUME NEW t, NEW u, <<t, u>> \in Remaps
  PROVE  Same(t, u) /\ t \in Taskhashes /\ u \in Taskhashes
<1>1. t \in Taskhashes /\ u \in Taskhashes
  BY PackageFeedAssumption
<1>2. ASSUME NEW C \in SUBSET Taskhashes, Closed(C) PROVE t \in C <=> u \in C
  BY <1>2 DEF Closed
<1> QED BY <1>1, <1>2 DEF Same

(* A row that goes in.                                                      *)
Grown == \A o, u : Listed(o, u) => Listed(o, u)'

LEMMA InsertSound ==
  ASSUME TableOK, RowsSound, NEW t \in Taskhashes, NEW u \in Taskhashes, Same(t, u),
         NEW o \in Outhashes \cup {NoOuthash}, o # NoOuthash => o \in Outputs[t],
         Insert(t, o, u)
  PROVE  RowsSound' /\ Grown /\ Listed(o, u)'
<1>1. PICK now \in Now :
        tasks_v2' = Append(tasks_v2, [taskhash |-> t, outhash |-> o, unihash |-> u, created |-> now])
  BY DEF Insert
<1> DEFINE r == [taskhash |-> t, outhash |-> o, unihash |-> u, created |-> now]
<1>2. now \in Nat
  BY DEF Now, RowsSound
<1>3. r \in Row /\ RowSound(r) /\ r.outhash = o /\ r.unihash = u
  BY <1>2 DEF Row, RowSound
<1> HIDE DEF r
<1>4. tasks_v2 \in Seq(Row) /\ tasks_v2' \in Seq(Row)
  BY <1>1, <1>3 DEF r, RowsSound
<1>5. /\ DOMAIN tasks_v2 = 1..Len(tasks_v2) /\ DOMAIN tasks_v2' = 1..(Len(tasks_v2) + 1)
      /\ Len(tasks_v2) \in Nat /\ tasks_v2'[Len(tasks_v2) + 1] = r
      /\ \A i \in DOMAIN tasks_v2 : tasks_v2'[i] = tasks_v2[i]
  BY <1>1, <1>3, <1>4 DEF r
<1>6. \A i \in DOMAIN tasks_v2' : RowSound(tasks_v2'[i])
  <2>1. \A i \in DOMAIN tasks_v2' : i = Len(tasks_v2) + 1 \/ i \in DOMAIN tasks_v2
    BY <1>5
  <2> QED
    BY <1>3, <1>5, <2>1 DEF RowsSound
<1>7. Grown
  BY <1>5 DEF Grown, Listed
<1>8. Listed(o, u)'
  BY <1>3, <1>5 DEF Listed
<1> QED BY <1>4, <1>6, <1>7, <1>8 DEF RowsSound

(* What a query answers.                                                    *)
LEMMA FastQuerySound ==
  ASSUME TableOK, RowsSound, NEW t
  PROVE  FastQuery(t) \in Unihashes /\ (FastQuery(t) # NoHash => Same(FastQuery(t), t))
<1>1. CASE RowsOf(t) = {}
  BY <1>1 DEF FastQuery, Unihashes
<1>2. CASE RowsOf(t) # {}
  <2>1. PICK i \in RowsOf(t) : i = Oldest(RowsOf(t))
    BY <1>2, OldestIsOne DEF RowsOf
  <2>2. tasks_v2[i] \in Row /\ RowSound(tasks_v2[i]) /\ tasks_v2[i].taskhash = t
    BY <2>1 DEF RowsOf, RowsSound
  <2>3. FastQuery(t) = tasks_v2[i].unihash
    BY <1>2, <2>1 DEF FastQuery
  <2>4. tasks_v2[i].unihash \in Taskhashes
    BY <2>2 DEF Row
  <2> QED BY <2>2, <2>3, <2>4, SameIsEquivalence DEF RowSound, Unihashes
<1> QED BY <1>1, <1>2

(* What a report answers, and what is in the table then.                    *)
LEMMA ReportSound ==
  ASSUME HashInv, RowsSound, NEW t \in Taskhashes, NEW o \in Outputs[t], NEW u \in Taskhashes,
         Same(u, t), HandleReport(Report(t, o, u))
  PROVE  /\ RowsSound' /\ Grown
         /\ \E v \in Taskhashes :
              v = UnihashFor(Report(t, o, u)) /\ Same(v, t) /\ Listed(o, v)'
<1>0. PICK v : v = UnihashFor(Report(t, o, u))
  OBVIOUS
<1>1. Report(t, o, u).taskhash = t /\ Report(t, o, u).outhash = o /\ Report(t, o, u).unihash = u
  BY DEF Report
<1>2. TableOK /\ o \in Outhashes /\ o # NoOuthash
  BY PackageFeedAssumption, HashServAssumption DEF HashInv
<1>3. v \in Taskhashes /\ Same(v, t) /\ (Equivalent(t, o) # {} => Listed(o, v))
  <2>1. CASE Equivalent(t, o) = {}
    BY <1>0, <1>1, <2>1 DEF UnihashFor
  <2>2. CASE Equivalent(t, o) # {}
    <3>1. Equivalent(t, o) \subseteq RowsWith(o) /\ RowsWith(o) \subseteq DOMAIN tasks_v2
      BY DEF Equivalent, Exact, RowsWith
    <3>2. PICK i \in Equivalent(t, o) : i = Oldest(Equivalent(t, o))
      BY <1>2, <2>2, <3>1, OldestIsOne
    <3>3. i \in DOMAIN tasks_v2 /\ tasks_v2[i].outhash = o
      BY <3>1, <3>2 DEF RowsWith
    <3>4. v = tasks_v2[i].unihash
      BY <1>0, <1>1, <2>2, <3>2 DEF UnihashFor
    <3>5. tasks_v2[i] \in Row /\ RowSound(tasks_v2[i])
      BY <3>3 DEF RowsSound
    <3>6. tasks_v2[i].taskhash \in Taskhashes /\ tasks_v2[i].unihash \in Taskhashes
      BY <3>5 DEF Row
    <3>7. Same(tasks_v2[i].taskhash, t)
      BY <1>2, <3>3, <3>5, <3>6, SameByOutput DEF RowSound
    <3> QED BY <3>3, <3>4, <3>5, <3>6, <3>7, SameIsEquivalence DEF RowSound, Listed
  <2> QED BY <2>1, <2>2
<1>4. CASE Exact(t, o) = {}
  <2>1. Insert(t, o, v)
    BY <1>0, <1>1, <1>4 DEF HandleReport
  <2> QED BY <1>2, <1>3, <2>1, <1>0, InsertSound, SameIsEquivalence
<1>5. CASE Exact(t, o) # {}
  <2>1. UNCHANGED tasks_v2 /\ Equivalent(t, o) # {}
    BY <1>0, <1>1, <1>5 DEF HandleReport, Equivalent
  <2>2. RowsSound' /\ Grown /\ (Listed(o, v) => Listed(o, v)')
    BY <2>1 DEF RowsSound, Grown, Listed
  <2> QED BY <1>0, <1>3, <2>1, <2>2
<1> QED BY <1>4, <1>5

LEMMA EquivReportSound ==
  ASSUME HashInv, RowsSound, NEW t \in Taskhashes, NEW u \in Taskhashes, Same(t, u),
         HandleEquivReport(ReportEquiv(t, u))
  PROVE  RowsSound' /\ Grown
<1>1. ReportEquiv(t, u).taskhash = t /\ ReportEquiv(t, u).unihash = u
  BY DEF ReportEquiv
<1>2. CASE Insert(t, NoOuthash, u)
  BY <1>2, InsertSound DEF HashInv
<1>3. CASE UNCHANGED tasks_v2
  BY <1>3 DEF RowsSound, Grown, Listed
<1> QED BY <1>1, <1>2, <1>3 DEF HandleEquivReport

-----------------------------------------------------------------------------
(* The calls of the builders                                                *)

FeedTypes ==
  /\ serving \in BOOLEAN /\ losses \in Nat /\ hashstops \in Nat
  /\ conn \in [Clients -> {"none", "dead", "normal", "stream"}]
  /\ mode \in [Clients -> {"normal", "stream"}]
  /\ attempts \in [Clients -> 0 .. Retries] /\ nested \in [Clients -> 0 .. Retries]
  /\ restoring \in [Clients -> BOOLEAN]
  /\ stage \in [Clients -> Stages] /\ task \in [Clients -> Unihashes]
  /\ unihashes \in [Clients -> [Taskhashes -> Unihashes]]
  /\ DOMAIN todo = Clients /\ DOMAIN reply = Clients /\ DOMAIN result = Clients
  /\ DOMAIN output = Clients

ClientRight(b) == CallRight(b) /\ ReplyRight(b) /\ ResultRight(b) /\ BuilderRight(b)

LEMMA LineCases ==
  ASSUME NEW m, NEW q \in Lines(m)
  PROVE  /\ q # <<>> /\ Len(q) <= 2
         /\ \/ q = <<m>> /\ Head(q) = m /\ Tail(q) = <<>>
            \/ m.op = "query" /\ q = <<GetStream, m>> /\ Head(q) = GetStream /\ Tail(q) = <<m>>
            \/ m.op # "query" /\ q = <<End, m>> /\ Head(q) = End /\ Tail(q) = <<m>>
<1>1. \A a : <<a>> \in Seq({a}) /\ <<a>> # <<>> /\ Head(<<a>>) = a /\ Tail(<<a>>) = <<>> /\ Len(<<a>>) = 1
  OBVIOUS
<1>2. ASSUME NEW a, NEW c
      PROVE  <<a, c>> # <<>> /\ Head(<<a, c>>) = a /\ Tail(<<a, c>>) = <<c>> /\ Len(<<a, c>>) = 2
  <2>1. <<a, c>> \in Seq({a, c}) /\ <<c>> \in Seq({a, c})
    OBVIOUS
  <2>2. Tail(<<a, c>>) \in Seq({a, c}) /\ Len(Tail(<<a, c>>)) = 1 /\ Tail(<<a, c>>)[1] = c
    BY <2>1
  <2> QED
    BY <2>1, <2>2
<1>3. q = <<m>> \/ (m.op = "query" /\ q = <<GetStream, m>>) \/ (m.op # "query" /\ q = <<End, m>>)
  BY DEF Lines
<1>4. CASE q = <<m>>
  <2>1. <<m>> # <<>> /\ Head(<<m>>) = m /\ Tail(<<m>>) = <<>> /\ Len(<<m>>) = 1
    BY <1>1
  <2> QED BY <1>4, <2>1
<1>5. CASE m.op = "query" /\ q = <<GetStream, m>>
  <2>1. q # <<>> /\ Head(q) = GetStream /\ Tail(q) = <<m>> /\ Len(q) = 2
    BY <1>2, <1>5
  <2> QED BY <1>5, <2>1
<1>6. CASE m.op # "query" /\ q = <<End, m>>
  <2>1. q # <<>> /\ Head(q) = End /\ Tail(q) = <<m>> /\ Len(q) = 2
    BY <1>2, <1>6
  <2> QED BY <1>6, <2>1
<1> QED BY <1>3, <1>4, <1>5, <1>6

(* What a builder asks tells its stage.                                     *)
LEMMA AskCases ==
  ASSUME NEW b, NEW m \in Asks(b)
  PROVE  \/ stage[b] \in {"query", "lookup"} /\ m.op = "query" /\ m = Query(task[b])
         \/ stage[b] = "report" /\ m.op = "report"
              /\ m = Report(task[b], output[b], unihashes[b][task[b]])
         \/ stage[b] = "remap" /\ m.op = "report-equiv"
              /\ \E u \in Taskhashes : <<task[b], u>> \in Remaps /\ m = ReportEquiv(task[b], u)
<1>1. CASE stage[b] \in {"query", "lookup"}
  BY <1>1 DEF Asks, Query
<1>2. CASE stage[b] = "report"
  BY <1>2 DEF Asks, Report
<1>3. CASE stage[b] = "remap"
  <2>1. PICK u \in Taskhashes : <<task[b], u>> \in Remaps /\ m = ReportEquiv(task[b], u)
    BY <1>3 DEF Asks
  <2>2. m.op = "report-equiv"
    BY <2>1 DEF ReportEquiv
  <2> QED
    BY <1>3, <2>1, <2>2
<1>4. CASE stage[b] \notin {"query", "lookup", "report", "remap"}
  BY <1>4 DEF Asks
<1> QED BY <1>1, <1>2, <1>3, <1>4

(* The message that is being sent.                                          *)
LEMMA CurrentCases ==
  ASSUME NEW b \in Clients, CallRight(b), todo[b] # <<>>
  PROVE  /\ restoring[b] => Current(b) = GetStream /\ Current(b).op = "get-stream"
         /\ ~restoring[b] => Current(b) = Head(todo[b])
         /\ \/ Current(b) = GetStream /\ Current(b).op = "get-stream"
            \/ Current(b) = End /\ Current(b).op = "END"
            \/ Current(b) \in Asks(b) /\ Tail(todo[b]) = <<>>
<1>1. GetStream.op = "get-stream" /\ End.op = "END"
  BY DEF GetStream, End
<1>2. PICK m \in Asks(b) : todo[b] \in Lines(m)
  BY DEF CallRight
<1>3. Head(todo[b]) \in {GetStream, End} \/ (Head(todo[b]) \in Asks(b) /\ Tail(todo[b]) = <<>>)
  BY <1>2, LineCases
<1> QED BY <1>1, <1>3 DEF Current

(* A client that is not concerned: at most, its connection fails, or is     *)
(* made again.                                                              *)
Untouched(b) ==
  /\ stage'[b] = stage[b] /\ task'[b] = task[b] /\ output'[b] = output[b]
  /\ unihashes'[b] = unihashes[b] /\ todo'[b] = todo[b] /\ result'[b] = result[b]
  /\ reply'[b] = <<>> \/ (reply'[b] = reply[b] /\ conn'[b] = conn[b] /\ restoring'[b] = restoring[b])
  /\ restoring'[b] => todo[b] # <<>>

LEMMA UntouchedRight ==
  ASSUME NEW b \in Clients, ClientRight(b), Untouched(b), Grown
  PROVE  ClientRight(b)'
<1> USE DEF Untouched
<1>1. Asks(b)' = Asks(b)
  BY DEF Asks
<1>2. \A u : Fits(b, u) => Fits(b, u)'
  BY DEF Fits, Grown
<1>3. CallRight(b)'
  BY <1>1 DEF ClientRight, CallRight, Lines
<1>4. ReplyRight(b)'
  BY <1>2 DEF ClientRight, ReplyRight, Current
<1>5. ResultRight(b)'
  BY <1>2 DEF ClientRight, ResultRight
<1>6. BuilderRight(b)'
  BY DEF ClientRight, BuilderRight
<1> QED BY <1>3, <1>4, <1>5, <1>6 DEF ClientRight

AllRight == \A b \in Clients : ClientRight(b)

LEMMA TableStays ==
  ASSUME RowsSound, UNCHANGED tasks_v2
  PROVE  RowsSound' /\ Grown
BY DEF RowsSound, Grown, Listed

(* Connections that come and go.                                            *)
LEMMA ConnectionsUntouched ==
  ASSUME FeedTypes, AllRight, UNCHANGED buildervars,
         \/ \E c \in Clients : Connect(c) \/ Reject(c) \/ LoseConnection(c)
         \/ StopHashServer \/ StartHashServer
  PROVE  \A b \in Clients : Untouched(b)
<1> USE DEF FeedTypes, Untouched, buildervars
<1>1. ASSUME NEW b \in Clients PROVE restoring[b] => todo[b] # <<>>
  BY DEF AllRight, ClientRight, BuilderRight
<1>2. ASSUME NEW c \in Clients, Connect(c), NEW b \in Clients PROVE Untouched(b)
  <2>1. b = c => reply'[b] = <<>> /\ todo[b] # <<>>
    BY <1>2 DEF Connect, AllRight, ClientRight, ReplyRight
  <2>2. b # c => conn'[b] = conn[b] /\ restoring'[b] = restoring[b]
    BY <1>2 DEF Connect
  <2> QED BY <1>1, <1>2, <2>1, <2>2 DEF Connect
<1>3. ASSUME NEW c \in Clients, Reject(c), NEW b \in Clients PROVE Untouched(b)
  BY <1>1, <1>3 DEF Reject
<1>4. ASSUME NEW c \in Clients, LoseConnection(c), NEW b \in Clients PROVE Untouched(b)
  BY <1>1, <1>4 DEF LoseConnection
<1>5. ASSUME StopHashServer, NEW b \in Clients PROVE Untouched(b)
  BY <1>1, <1>5 DEF StopHashServer
<1>6. ASSUME StartHashServer, NEW b \in Clients PROVE Untouched(b)
  BY <1>1, <1>6 DEF StartHashServer, clientvars
<1> QED BY <1>2, <1>3, <1>4, <1>5, <1>6

(* A try that fails, and the error that is raised.                          *)
LEMMA FailRight ==
  ASSUME FeedTypes, AllRight, NEW c \in Clients, ConnectionFails(c), UNCHANGED buildervars, Grown,
         NEW b \in Clients
  PROVE  ClientRight(b)'
<1> USE DEF FeedTypes, buildervars
<1>1. ClientRight(b) /\ (restoring[b] => todo[b] # <<>>)
  BY DEF AllRight, ClientRight, BuilderRight
<1>2. \/ Untouched(b)
      \/ b = c /\ todo'[b] = <<>> /\ reply'[b] = <<>> /\ result'[b] = Raised /\ ~restoring'[b]
  <2>1. CASE b # c
    BY <1>1, <2>1 DEF ConnectionFails, Fail, Untouched
  <2>2. CASE b = c
    <3> DEFINE gives_up == restoring[c] /\ LastTry(nested[c])
               raises   == (~restoring[c] \/ gives_up) /\ LastTry(attempts[c])
    <3>1. /\ reply'[c] = <<>> /\ restoring'[c] = (restoring[c] /\ ~gives_up)
          /\ todo'[c] = IF raises THEN <<>> ELSE todo[c]
          /\ result'[c] = IF raises THEN Raised ELSE result[c]
      BY DEF ConnectionFails, Fail
    <3> HIDE DEF gives_up
    <3>2. CASE raises
      BY <2>2, <3>1, <3>2
    <3>3. CASE ~raises
      BY <1>1, <2>2, <3>1, <3>3 DEF Untouched
    <3> QED BY <3>2, <3>3
  <2> QED BY <2>1, <2>2
<1>3. CASE Untouched(b)
  BY <1>1, <1>3, UntouchedRight
<1>4. CASE b = c /\ todo'[b] = <<>> /\ reply'[b] = <<>> /\ result'[b] = Raised /\ ~restoring'[b]
  <2>1. CallRight(b)' /\ ReplyRight(b)' /\ ResultRight(b)'
    BY <1>4 DEF CallRight, ReplyRight, ResultRight
  <2>2. BuilderRight(b)'
    BY <1>1, <1>4 DEF ClientRight, BuilderRight
  <2> QED BY <2>1, <2>2 DEF ClientRight
<1> QED BY <1>2, <1>3, <1>4

(* A reply, read.                                                           *)
LEMMA DeliverRight ==
  ASSUME FeedTypes, AllRight, NEW c \in Clients, Deliver(c), UNCHANGED buildervars, Grown,
         NEW b \in Clients
  PROVE  ClientRight(b)'
<1> USE DEF FeedTypes, buildervars
<1>1. ClientRight(b) /\ (restoring[b] => todo[b] # <<>>)
  BY DEF AllRight, ClientRight, BuilderRight
<1>2. CASE b # c \/ restoring[c]
  <2>1. Untouched(b)
    <3>1. CASE b # c
      BY <1>1, <3>1 DEF Deliver, Untouched
    <3>2. CASE b = c /\ restoring[c]
      BY <1>1, <3>2 DEF Deliver, Untouched
    <3> QED BY <1>2, <3>1, <3>2
  <2> QED BY <1>1, <2>1, UntouchedRight
<1>3. CASE b = c /\ ~restoring[c]
  <2>1. todo[b] # <<>> /\ CallRight(b) /\ ReplyRight(b) /\ ResultRight(b)
    BY <1>1, <1>3 DEF Deliver, ClientRight, ReplyRight
  <2>2. PICK u \in Unihashes :
          reply[b] = <<u>> /\ (Current(b).op \notin {"get-stream", "END"} => Fits(b, u))
    BY <1>3, <2>1 DEF Deliver, ReplyRight
  <2>3. /\ reply'[b] = <<>> /\ ~restoring'[b] /\ todo'[b] = Tail(todo[b])
        /\ result'[b] = IF Current(b).op \in {"get-stream", "END"} THEN result[b]
                        ELSE Returned(Head(reply[b]))
    BY <1>3 DEF Deliver
  <2>4. Head(reply[b]) = u
    BY <2>2
  <2>5. Asks(b)' = Asks(b) /\ \A v : Fits(b, v) => Fits(b, v)'
    BY DEF Asks, Fits, Grown
  <2>6. CallRight(b)'
    <3>1. PICK m \in Asks(b) : todo[b] \in Lines(m)
      BY <2>1 DEF CallRight
    <3>2. todo'[b] = <<>> \/ todo'[b] = <<m>>
      BY <2>3, <3>1, LineCases
    <3> QED BY <2>5, <3>2 DEF CallRight, Lines
  <2>7. ReplyRight(b)' /\ ResultRight(b)'
    BY <2>1, <2>2, <2>3, <2>4, <2>5 DEF ReplyRight, ResultRight
  <2>8. BuilderRight(b)'
    BY <1>1, <2>3 DEF ClientRight, BuilderRight
  <2> QED BY <2>6, <2>7, <2>8 DEF ClientRight
<1> QED BY <1>2, <1>3

LEMMA FastQueryThen == (TableOK /\ RowsSound)' => (\A t : FastQuery(t) \in Unihashes)'
<1>1. TableOK /\ RowsSound => \A t : FastQuery(t) \in Unihashes
  BY FastQuerySound
<1> QED BY <1>1, PTL

(* The server's answers.                                                    *)
LEMMA HandleRight ==
  ASSUME FeedTypes, HashInv, RowsSound, AllRight, NEW c \in Clients, Handle(c), UNCHANGED buildervars
  PROVE  RowsSound' /\ Grown /\ AllRight'
<1> USE DEF FeedTypes, buildervars
<1> DEFINE m == Current(c)
<1>1. ClientRight(c) /\ CallRight(c) /\ ReplyRight(c) /\ BuilderRight(c) /\ todo[c] # <<>>
      /\ conn[c] \in {"normal", "stream"} /\ reply[c] = <<>>
  BY DEF Handle, AllRight, ClientRight
<1>2. \/ m.op \in {"get-stream", "END"}
      \/ m \in Asks(c)
  BY <1>1, CurrentCases
<1>3. RowsSound' /\ Grown /\ \E u \in Unihashes :
        Answers(m, u, c) /\ (m.op \notin {"get-stream", "END"} => Fits(c, u)')
  <2>1. CASE m.op \in {"get-stream", "END"}
    <3>1. UNCHANGED tasks_v2 /\ Answers(m, NoHash, c)
      BY <2>1 DEF Handle
    <3> QED BY <2>1, <3>1, TableStays DEF Unihashes
  <2>2. CASE m \in Asks(c) /\ m.op = "query"
    <3>1. stage[c] \in {"query", "lookup"} /\ m = Query(task[c]) /\ m.taskhash = task[c]
      BY <2>2, AskCases DEF Query
    <3>2. PICK u : u = FastQuery(task[c])
      OBVIOUS
    <3>3. UNCHANGED tasks_v2 /\ Answers(m, u, c)
      BY <2>2, <3>1, <3>2 DEF Handle
    <3>4. u \in Unihashes /\ (u # NoHash => Same(u, task[c]))
      BY <3>2, FastQuerySound DEF HashInv
    <3>5. Fits(c, u)'
      BY <3>1, <3>4 DEF Fits
    <3> QED BY <3>3, <3>4, <3>5, TableStays
  <2>3. CASE m \in Asks(c) /\ m.op = "report"
    <3>1. stage[c] = "report" /\ m = Report(task[c], output[c], unihashes[c][task[c]])
      BY <2>3, AskCases
    <3>2. /\ task[c] \in Taskhashes /\ output[c] \in Outputs[task[c]]
          /\ unihashes[c][task[c]] \in Taskhashes /\ Same(unihashes[c][task[c]], task[c])
      BY <1>1, <3>1 DEF BuilderRight, Unihashes
    <3>3. HandleReport(m) /\ Answers(m, UnihashFor(m), c)
      BY <2>3 DEF Handle
    <3>4. RowsSound' /\ Grown
          /\ \E v \in Taskhashes : v = UnihashFor(m) /\ Same(v, task[c]) /\ Listed(output[c], v)'
      BY <3>1, <3>2, <3>3, ReportSound
    <3>5. PICK v \in Taskhashes : v = UnihashFor(m) /\ Same(v, task[c]) /\ Listed(output[c], v)'
      BY <3>4
    <3>6. v \in Unihashes /\ v # NoHash
      BY HashServAssumption DEF Unihashes
    <3>7. Fits(c, v)'
      BY <3>1, <3>5, <3>6 DEF Fits
    <3> QED BY <3>3, <3>4, <3>5, <3>6, <3>7
  <2>4. CASE m \in Asks(c) /\ m.op = "report-equiv"
    <3>1. stage[c] = "remap"
      BY <2>4, AskCases
    <3>2. PICK u \in Taskhashes : <<task[c], u>> \in Remaps /\ m = ReportEquiv(task[c], u)
      BY <2>4, AskCases
    <3>3. HandleEquivReport(m) /\ \E t \in {m.taskhash} : Answers(m, FastQuery(t)', c)
      BY <2>4 DEF Handle
    <3>4. RowsSound' /\ Grown
      BY <3>2, <3>3, SameByRemap, EquivReportSound
    <3>5. TableOK'
      BY <3>3, EquivReportKeeps DEF HashInv
    <3>6. PICK v : Answers(m, v, c) /\ v \in Unihashes
      BY <3>3, <3>4, <3>5, FastQueryThen
    <3>7. Fits(c, v)'
      BY <3>1, <3>6 DEF Fits
    <3> QED BY <3>4, <3>6, <3>7
  <2> QED BY <1>2, <2>1, <2>2, <2>3, <2>4, AskCases
<1>4. PICK u \in Unihashes : Answers(m, u, c) /\ (m.op \notin {"get-stream", "END"} => Fits(c, u)')
  BY <1>3
<1>5. ASSUME NEW b \in Clients PROVE ClientRight(b)'
  <2>1. CASE b # c
    <3>1. Untouched(b)
      BY <1>4, <2>1 DEF Answers, Untouched, AllRight, ClientRight, BuilderRight
    <3> QED BY <1>3, <3>1, UntouchedRight DEF AllRight
  <2>2. CASE b = c
    <3>1. /\ reply'[c] = <<u>> /\ todo'[c] = todo[c] /\ result'[c] = result[c]
          /\ restoring'[c] = restoring[c] /\ conn'[c] \in {"normal", "stream"}
      BY <1>1, <1>4 DEF Answers
    <3>2. Current(c)' = m
      BY <3>1 DEF Current
    <3>3. Asks(c)' = Asks(c) /\ \A v : Fits(c, v) => Fits(c, v)'
      BY <1>3 DEF Asks, Fits, Grown
    <3>4. CallRight(c)'
      BY <1>1, <3>1, <3>3 DEF CallRight, Lines
    <3>5. ReplyRight(c)'
      BY <1>1, <1>4, <3>1, <3>2 DEF ReplyRight
    <3>6. ResultRight(c)'
      BY <1>1, <3>1, <3>3 DEF ResultRight, ClientRight
    <3>7. BuilderRight(c)'
      BY <1>1, <3>1 DEF BuilderRight
    <3> QED BY <2>2, <3>4, <3>5, <3>6, <3>7 DEF ClientRight
  <2> QED BY <2>1, <2>2
<1> QED BY <1>3, <1>5 DEF AllRight

(* All that happens in calls, and all that goes wrong.                      *)
LEMMA HashStepsRight ==
  ASSUME FeedTypes, HashInv, RowsSound, AllRight, HashStep \/ HashFault, UNCHANGED buildervars
  PROVE  RowsSound' /\ Grown /\ AllRight'
<1>1. CASE \E c \in Clients : Handle(c)
  BY <1>1, HandleRight
<1>2. CASE \/ \E c \in Clients : Connect(c) \/ Reject(c) \/ LoseConnection(c)
           \/ StopHashServer \/ StartHashServer
  <2>1. UNCHANGED tasks_v2
    BY <1>2 DEF Connect, Reject, LoseConnection, StopHashServer, StartHashServer
  <2>2. \A b \in Clients : Untouched(b)
    BY <1>2, ConnectionsUntouched
  <2> QED BY <2>1, <2>2, TableStays, UntouchedRight DEF AllRight
<1>3. CASE \E c \in Clients : ConnectionFails(c)
  <2>1. UNCHANGED tasks_v2
    BY <1>3 DEF ConnectionFails
  <2> QED BY <1>3, <2>1, TableStays, FailRight DEF AllRight
<1>4. CASE \E c \in Clients : Deliver(c)
  <2>1. UNCHANGED tasks_v2
    BY <1>4 DEF Deliver
  <2> QED BY <1>4, <2>1, TableStays, DeliverRight DEF AllRight
<1> QED BY <1>1, <1>2, <1>3, <1>4 DEF HashStep, HashFault

(* A builder between calls.                                                 *)
LEMMA CallMakes ==
  ASSUME FeedTypes, NEW b \in Clients, NEW m, Call(b, m)
  PROVE  /\ todo[b] = <<>> /\ todo'[b] \in Lines(m) /\ result'[b] = NoResult
         /\ UNCHANGED <<conn, mode, restoring, nested, reply>>
         /\ \A c \in Clients : c # b => todo'[c] = todo[c] /\ result'[c] = result[c]
<1> USE DEF FeedTypes
<1>1. mode[b] \in {"normal", "stream"}
  OBVIOUS
<1>2. todo'[b] \in Lines(m)
  BY <1>1 DEF Call, Lines
<1> QED BY <1>2 DEF Call

LEMMA FreshRight ==
  ASSUME NEW b \in Clients, ClientRight(b), todo[b] = <<>>, result'[b] = NoResult,
         reply'[b] = reply[b], restoring'[b] = restoring[b],
         todo'[b] = <<>> \/ \E m \in Asks(b)' : todo'[b] \in Lines(m)
  PROVE  /\ reply[b] = <<>> /\ ~restoring[b]
         /\ CallRight(b)' /\ ReplyRight(b)' /\ ResultRight(b)'
<1>1. reply[b] = <<>> /\ ~restoring[b]
  BY DEF ClientRight, ReplyRight, BuilderRight
<1>2. CallRight(b)'
  BY DEF CallRight, Lines
<1> QED BY <1>1, <1>2 DEF ReplyRight, ResultRight

(* What a call returned.                                                    *)
LEMMA ResultSays ==
  ASSUME NEW b \in Clients, ClientRight(b), CallEnds(b)
  PROVE  /\ result[b].unihash \in Unihashes
         /\ result[b].status = "ok" => Fits(b, result[b].unihash)
         /\ stage[b] \in {"query", "lookup"} /\ result[b].unihash # NoHash => Same(result[b].unihash, task[b])
<1>1. CASE result[b] = Raised
  BY <1>1 DEF Raised, Unihashes
<1>2. ASSUME NEW u \in Unihashes, result[b] = Returned(u), Fits(b, u)
      PROVE  result[b].unihash = u
  BY <1>2 DEF Returned
<1> QED BY <1>1, <1>2 DEF ClientRight, ResultRight, CallEnds, Fits

(* Other builders.                                                          *)
LEMMA OthersUntouched ==
  ASSUME FeedTypes, AllRight, NEW b \in Clients, Builder(b), NEW c \in Clients, c # b
  PROVE  Untouched(c)
<1> USE DEF FeedTypes
<1>0. restoring[c] => todo[c] # <<>>
  BY DEF AllRight, ClientRight, BuilderRight
<1>1. CASE \E t \in Taskhashes : StartBuild(b, t) \/ Rehash(b, t)
  <2>1. PICK t \in Taskhashes : StartBuild(b, t) \/ Rehash(b, t)
    BY <1>1
  <2>2. /\ stage'[c] = stage[c] /\ task'[c] = task[c] /\ UNCHANGED <<output, unihashes>>
        /\ UNCHANGED clientvars \/ Call(b, Query(t))
    BY <2>1 DEF StartBuild, Rehash, Starts, GetUnihash
  <2> QED BY <1>0, <2>2, CallMakes DEF Untouched, clientvars
<1>2. CASE \E o \in Outhashes : Package(b, o)
  <2>1. /\ stage'[c] = stage[c] /\ output'[c] = output[c] /\ UNCHANGED <<task, unihashes>>
        /\ \E m : Call(b, m)
    BY <1>2 DEF Package
  <2> QED BY <1>0, <2>1, CallMakes DEF Untouched
<1>3. CASE \E u \in Taskhashes : Remap(b, u)
  <2>1. /\ stage'[c] = stage[c] /\ task'[c] = task[c] /\ output'[c] = output[c]
        /\ UNCHANGED unihashes /\ (UNCHANGED clientvars \/ \E m : Call(b, m))
    BY <1>3 DEF Remap, Ended
  <2> QED BY <1>0, <2>1, CallMakes DEF Untouched, clientvars
<1>4. CASE GotUnihash(b)
  BY <1>0, <1>4 DEF GotUnihash, SetUnihash, Consumed, Untouched
<1>5. CASE Reported(b)
  BY <1>0, <1>5 DEF Reported, SetUnihash, Consumed, Untouched
<1>6. CASE Remapped(b)
  BY <1>0, <1>6 DEF Remapped, Ended, SetUnihash, Consumed, Untouched
<1>7. CASE AskForPR(b) \/ PRServerGone(b) \/ GiveUpPR(b)
  BY <1>0, <1>7 DEF AskForPR, PRServerGone, GiveUpPR, Disconnected, Ended, Untouched, hashvars, clientvars
<1> QED BY <1>1, <1>2, <1>3, <1>4, <1>5, <1>6, <1>7 DEF Builder

(* The builder's own steps.                                                 *)
LEMMA GetUnihashRight ==
  ASSUME FeedTypes, NEW b \in Clients, ClientRight(b), NEW t \in Taskhashes,
         StartBuild(b, t) \/ Rehash(b, t)
  PROVE  ClientRight(b)'
<1> USE DEF FeedTypes
<1>1. todo[b] = <<>> /\ reply[b] = <<>> /\ ~restoring[b]
  BY DEF StartBuild, Rehash, Starts, ClientRight, CallRight, Asks, ReplyRight, BuilderRight
<1>2. task'[b] = t /\ UNCHANGED <<output, unihashes>>
  BY DEF StartBuild, Rehash, Starts, GetUnihash
<1>3. CASE unihashes[b][t] # NoHash
  <2>1. stage'[b] \in {"package", "known"} /\ UNCHANGED clientvars
    BY <1>3 DEF StartBuild, Rehash, Starts, GetUnihash
  <2>2. CallRight(b)' /\ ReplyRight(b)'
    BY <1>1, <2>1 DEF clientvars, CallRight, ReplyRight
  <2>3. ResultRight(b)'
    BY <2>1 DEF clientvars, ClientRight, ResultRight, Fits
  <2>4. BuilderRight(b)'
    BY <1>1, <1>2, <1>3, <2>1 DEF clientvars, ClientRight, BuilderRight
  <2> QED BY <2>2, <2>3, <2>4 DEF ClientRight
<1>4. CASE unihashes[b][t] = NoHash
  <2>1. stage'[b] \in {"query", "lookup"} /\ Call(b, Query(t))
    BY <1>4 DEF StartBuild, Rehash, Starts, GetUnihash
  <2>2. Query(t) \in Asks(b)'
    BY <1>2, <2>1 DEF Asks
  <2>3. CallRight(b)' /\ ReplyRight(b)' /\ ResultRight(b)'
    BY <1>1, <2>1, <2>2, CallMakes, FreshRight
  <2>4. BuilderRight(b)'
    BY <1>1, <1>2, <2>1, CallMakes DEF ClientRight, BuilderRight
  <2> QED BY <2>3, <2>4 DEF ClientRight
<1> QED BY <1>3, <1>4

LEMMA PackageRight ==
  ASSUME FeedTypes, NEW b \in Clients, ClientRight(b), NEW o \in Outhashes, Package(b, o)
  PROVE  ClientRight(b)'
<1> USE DEF FeedTypes
<1>1. /\ stage[b] = "package" /\ stage'[b] = "report" /\ output'[b] = o /\ o \in Outputs[task[b]]
      /\ UNCHANGED <<task, unihashes>> /\ Call(b, Report(task[b], o, unihashes[b][task[b]]))
  BY DEF Package
<1>2. Report(task[b], o, unihashes[b][task[b]]) \in Asks(b)'
  BY <1>1 DEF Asks
<1>3. CallRight(b)' /\ ReplyRight(b)' /\ ResultRight(b)' /\ ~restoring'[b]
  BY <1>1, <1>2, CallMakes, FreshRight
<1>4. BuilderRight(b)'
  BY <1>1, <1>3 DEF ClientRight, BuilderRight
<1> QED BY <1>3, <1>4 DEF ClientRight

LEMMA RemapRight ==
  ASSUME FeedTypes, NEW b \in Clients, ClientRight(b), NEW u \in Taskhashes, Remap(b, u)
  PROVE  ClientRight(b)'
<1> USE DEF FeedTypes
<1>1. /\ stage[b] = "known" /\ <<task[b], u>> \in Remaps /\ UNCHANGED unihashes
      /\ todo[b] = <<>> /\ reply[b] = <<>> /\ ~restoring[b]
  BY DEF Remap, ClientRight, CallRight, Asks, ReplyRight, BuilderRight
<1>2. CASE Ended(b) /\ UNCHANGED clientvars
  <2>1. stage'[b] = "idle"
    BY <1>2 DEF Ended
  <2>2. CallRight(b)' /\ ReplyRight(b)'
    BY <1>1, <1>2 DEF clientvars, CallRight, ReplyRight
  <2>3. ResultRight(b)'
    BY <1>2, <2>1 DEF clientvars, ClientRight, ResultRight, Fits
  <2>4. BuilderRight(b)'
    BY <1>1, <1>2, <2>1 DEF clientvars, ClientRight, BuilderRight
  <2> QED BY <2>2, <2>3, <2>4 DEF ClientRight
<1>3. CASE /\ stage' = [stage EXCEPT ![b] = "remap"] /\ Call(b, ReportEquiv(task[b], u))
           /\ UNCHANGED <<task, output>>
  <2>1. stage'[b] = "remap"
    BY <1>3
  <2>2. ReportEquiv(task[b], u) \in Asks(b)'
    BY <1>1, <1>3, <2>1 DEF Asks
  <2>3. CallRight(b)' /\ ReplyRight(b)' /\ ResultRight(b)' /\ ~restoring'[b]
    BY <1>1, <1>3, <2>2, CallMakes, FreshRight
  <2>4. BuilderRight(b)'
    BY <1>1, <1>3, <2>1, <2>3 DEF ClientRight, BuilderRight
  <2> QED BY <2>3, <2>4 DEF ClientRight
<1> QED BY <1>2, <1>3 DEF Remap

(* What it makes of the results.                                            *)
LEMMA KnownRight ==
  ASSUME FeedTypes, NEW b \in Clients, NEW s \in Taskhashes, NEW v \in Taskhashes, Same(v, s),
         SetUnihash(b, s, v),
         \A t \in Taskhashes : unihashes[b][t] # NoHash => Same(unihashes[b][t], t)
  PROVE  /\ unihashes'[b][s] = v /\ v # NoHash
         /\ \A t \in Taskhashes : unihashes'[b][t] # NoHash => Same(unihashes'[b][t], t)
<1>1. unihashes[b] \in [Taskhashes -> Unihashes] /\ b \in DOMAIN unihashes
  BY DEF FeedTypes
<1>2. unihashes'[b] = [t \in Taskhashes |-> IF t = s THEN v ELSE NoHash]
  BY <1>1 DEF SetUnihash
<1> QED BY <1>1, <1>2, HashServAssumption

LEMMA GotUnihashRight ==
  ASSUME FeedTypes, NEW b \in Clients, ClientRight(b), GotUnihash(b)
  PROVE  ClientRight(b)'
<1> USE DEF FeedTypes
<1>1. stage[b] \in {"query", "lookup"} /\ CallEnds(b) /\ todo[b] = <<>> /\ task[b] \in Taskhashes
  BY DEF GotUnihash, CallEnds, ClientRight, BuilderRight
<1>2. /\ stage'[b] \in {"package", "known"} /\ UNCHANGED <<task, output, todo, reply, restoring>>
      /\ result'[b] = NoResult
  BY DEF GotUnihash, Consumed
<1>3. CallRight(b)' /\ ReplyRight(b)' /\ ResultRight(b)' /\ ~restoring'[b]
  BY <1>1, <1>2, FreshRight
<1>4. PICK v : v = IF result[b].unihash = NoHash THEN task[b] ELSE result[b].unihash
  OBVIOUS
<1>5. v \in Taskhashes /\ Same(v, task[b]) /\ SetUnihash(b, task[b], v)
  BY <1>1, <1>4, ResultSays, SameIsEquivalence DEF GotUnihash, Unihashes
<1>6. /\ unihashes'[b][task[b]] # NoHash
      /\ \A t \in Taskhashes : unihashes'[b][t] # NoHash => Same(unihashes'[b][t], t)
  BY <1>1, <1>5, KnownRight DEF ClientRight, BuilderRight
<1>7. BuilderRight(b)'
  BY <1>1, <1>2, <1>3, <1>6 DEF ClientRight, BuilderRight
<1> QED BY <1>3, <1>7 DEF ClientRight

LEMMA ReportedRight ==
  ASSUME FeedTypes, NEW b \in Clients, ClientRight(b), Reported(b)
  PROVE  ClientRight(b)'
<1> USE DEF FeedTypes
<1>1. stage[b] = "report" /\ CallEnds(b) /\ todo[b] = <<>> /\ task[b] \in Taskhashes
  BY DEF Reported, CallEnds, ClientRight, BuilderRight
<1>2. /\ stage'[b] = "getpr" /\ UNCHANGED <<task, output, todo, reply, restoring>>
      /\ result'[b] = NoResult
  BY DEF Reported, Consumed
<1>3. CallRight(b)' /\ ReplyRight(b)' /\ ResultRight(b)' /\ ~restoring'[b]
  BY <1>1, <1>2, FreshRight
<1>4. /\ unihashes'[b][task[b]] # NoHash
      /\ \A t \in Taskhashes : unihashes'[b][t] # NoHash => Same(unihashes'[b][t], t)
  <2>1. CASE result[b].status = "ok"
    <3>1. PICK v : v = result[b].unihash
      OBVIOUS
    <3>2. v \in Taskhashes /\ Same(v, task[b]) /\ SetUnihash(b, task[b], v)
      BY <1>1, <2>1, <3>1, ResultSays DEF Reported, Fits, Unihashes
    <3> QED BY <1>1, <3>2, KnownRight DEF ClientRight, BuilderRight
  <2>2. CASE result[b].status # "ok"
    <3>1. UNCHANGED unihashes
      BY <2>2 DEF Reported
    <3> QED BY <1>1, <3>1 DEF ClientRight, BuilderRight
  <2> QED BY <2>1, <2>2
<1>5. BuilderRight(b)'
  BY <1>1, <1>2, <1>3, <1>4 DEF ClientRight, BuilderRight
<1> QED BY <1>3, <1>5 DEF ClientRight

LEMMA RemappedRight ==
  ASSUME FeedTypes, NEW b \in Clients, ClientRight(b), Remapped(b)
  PROVE  ClientRight(b)'
<1> USE DEF FeedTypes
<1>1. stage[b] = "remap" /\ todo[b] = <<>> /\ task[b] \in Taskhashes
  BY DEF Remapped, CallEnds, ClientRight, BuilderRight
<1>2. stage'[b] = "idle" /\ UNCHANGED <<todo, reply, restoring>> /\ result'[b] = NoResult
  BY DEF Remapped, Ended, Consumed
<1>3. CallRight(b)' /\ ReplyRight(b)' /\ ResultRight(b)' /\ ~restoring'[b]
  BY <1>1, <1>2, FreshRight
<1>4. \A t \in Taskhashes : unihashes'[b][t] # NoHash => Same(unihashes'[b][t], t)
  <2>1. CASE <<task[b], result[b].unihash>> \in Remaps
    <3>1. PICK v : v = result[b].unihash
      OBVIOUS
    <3>2. v \in Taskhashes /\ Same(v, task[b]) /\ SetUnihash(b, task[b], v)
      BY <2>1, <3>1, SameByRemap, SameIsEquivalence DEF Remapped
    <3> QED BY <1>1, <3>2, KnownRight DEF ClientRight, BuilderRight
  <2>2. CASE <<task[b], result[b].unihash>> \notin Remaps
    <3>1. UNCHANGED unihashes
      BY <2>2 DEF Remapped
    <3> QED BY <1>1, <3>1 DEF ClientRight, BuilderRight
  <2> QED BY <2>1, <2>2
<1>5. BuilderRight(b)'
  BY <1>2, <1>3, <1>4 DEF BuilderRight
<1> QED BY <1>3, <1>5 DEF ClientRight

(* While it waits for its PR value.                                         *)
LEMMA PRStepRight ==
  ASSUME NEW b \in Clients, ClientRight(b), stage[b] \in {"getpr", "waitpr"},
         UNCHANGED <<hashvars, unihashes>>,
         stage'[b] = "idle" \/ (stage'[b] \in {"getpr", "waitpr"} /\ task'[b] = task[b])
  PROVE  ClientRight(b)'
<1>1. todo[b] = <<>>
  BY DEF ClientRight, CallRight, Asks
<1>2. CallRight(b)' /\ ReplyRight(b)'
  BY <1>1 DEF CallRight, ClientRight, ReplyRight, hashvars, clientvars
<1>3. ResultRight(b)'
  BY DEF ClientRight, ResultRight, Fits, hashvars, clientvars
<1>4. BuilderRight(b)'
  BY DEF ClientRight, BuilderRight, hashvars, clientvars
<1> QED BY <1>2, <1>3, <1>4 DEF ClientRight

(* Every step of the composition.                                           *)
LEMMA FeedStep ==
  ASSUME FeedTypes, HashInv, RowsSound, AllRight, [Next]_vars
  PROVE  RowsSound' /\ Grown /\ AllRight'
<1>0. \A b \in Clients : ClientRight(b) /\ (restoring[b] => todo[b] # <<>>)
  BY DEF AllRight, ClientRight, BuilderRight
<1>1. CASE (HashStep \/ HashFault) /\ UNCHANGED buildervars
  BY <1>1, HashStepsRight
<1>2. ASSUME UNCHANGED <<hashvars, unihashes>>,
             \A b \in Clients :
               \/ stage'[b] = stage[b] /\ task'[b] = task[b] /\ output'[b] = output[b]
               \/ /\ stage[b] \in {"getpr", "waitpr"}
                  /\ stage'[b] = "idle" \/ (stage'[b] \in {"getpr", "waitpr"} /\ task'[b] = task[b])
      PROVE  RowsSound' /\ Grown /\ AllRight'
  <2>1. RowsSound' /\ Grown
    BY <1>2, TableStays DEF hashvars
  <2>2. ASSUME NEW b \in Clients PROVE ClientRight(b)'
    <3>1. CASE stage'[b] = stage[b] /\ task'[b] = task[b] /\ output'[b] = output[b]
      <4>1. Untouched(b)
        BY <1>0, <1>2, <3>1 DEF Untouched, hashvars, clientvars
      <4> QED BY <1>0, <2>1, <4>1, UntouchedRight
    <3>2. CASE /\ stage[b] \in {"getpr", "waitpr"}
               /\ stage'[b] = "idle" \/ (stage'[b] \in {"getpr", "waitpr"} /\ task'[b] = task[b])
      BY <1>0, <1>2, <3>2, PRStepRight
    <3> QED BY <1>2, <3>1, <3>2
  <2> QED BY <2>1, <2>2 DEF AllRight
<1>3. CASE \/ (PRHandler \/ PRMain \/ StartPRServer \/ PRFault) /\ UNCHANGED <<hashvars, buildervars>>
           \/ UNCHANGED vars
  BY <1>2, <1>3 DEF buildervars, vars
<1>4. CASE AnswerPR
  <2>1. UNCHANGED <<hashvars, unihashes>>
    BY <1>4 DEF AnswerPR
  <2>2. ASSUME NEW b \in Clients
        PROVE  \/ stage'[b] = stage[b] /\ task'[b] = task[b] /\ output'[b] = output[b]
               \/ stage[b] = "waitpr" /\ stage'[b] = "idle"
    <3>1. CASE Awaits(request) /\ request.client = b
      BY <1>4, <3>1 DEF AnswerPR, Ended, Awaits, FeedTypes
    <3>2. CASE ~Awaits(request) \/ request.client # b
      BY <1>4, <3>2 DEF AnswerPR, Ended, FeedTypes
    <3> QED BY <3>1, <3>2
  <2> QED BY <1>2, <2>1, <2>2
<1>5. ASSUME NEW c \in Clients,
             AskForPR(c) \/ PRServerGone(c) \/ GiveUpPR(c) \/ LosePRConnection(c)
      PROVE  RowsSound' /\ Grown /\ AllRight'
  <2>1. UNCHANGED <<hashvars, unihashes>>
    BY <1>5 DEF AskForPR, PRServerGone, GiveUpPR, LosePRConnection, Disconnected
  <2>2. ASSUME NEW b \in Clients
        PROVE  \/ stage'[b] = stage[b] /\ task'[b] = task[b] /\ output'[b] = output[b]
               \/ /\ stage[b] \in {"getpr", "waitpr"}
                  /\ stage'[b] = "idle" \/ (stage'[b] \in {"getpr", "waitpr"} /\ task'[b] = task[b])
    BY <1>5 DEF AskForPR, PRServerGone, GiveUpPR, LosePRConnection, Disconnected, Ended, FeedTypes
  <2> QED BY <1>2, <2>1, <2>2
<1>6. ASSUME NEW c \in Clients, Builder(c), ~(AskForPR(c) \/ PRServerGone(c) \/ GiveUpPR(c))
      PROVE  RowsSound' /\ Grown /\ AllRight'
  <2>1. UNCHANGED tasks_v2
    BY <1>6 DEF Builder, StartBuild, Rehash, GetUnihash, GotUnihash, Package, Reported, Remap, Remapped, Consumed
  <2>2. RowsSound' /\ Grown
    BY <2>1, TableStays
  <2>3. ASSUME NEW b \in Clients, b # c PROVE ClientRight(b)'
    BY <1>0, <1>6, <2>2, <2>3, OthersUntouched, UntouchedRight
  <2>4. ClientRight(c)'
    BY <1>0, <1>6, GetUnihashRight, PackageRight, RemapRight, GotUnihashRight, ReportedRight,
       RemappedRight DEF Builder
  <2> QED BY <2>2, <2>3, <2>4 DEF AllRight
<1> QED BY <1>1, <1>3, <1>4, <1>5, <1>6 DEF Next

(* A report that was answered is in the table.                              *)
LEMMA EquivalentsStep ==
  ASSUME FeedTypes, AllRight, EquivalentsListed, [Next]_vars, Grown
  PROVE  EquivalentsListed'
<1>1. CASE UNCHANGED equivalents
  BY <1>1 DEF EquivalentsListed, Grown
<1>2. ASSUME NEW b \in Clients, Reported(b)
      PROVE  EquivalentsListed'
  <2>1. CASE result[b].status = "ok"
    <3>1. Fits(b, result[b].unihash) /\ stage[b] = "report" /\ output[b] \in Outputs[task[b]]
          /\ task[b] \in Taskhashes
      BY <1>2, <2>1, ResultSays DEF Reported, AllRight, ClientRight, BuilderRight
    <3>2. Listed(output[b], result[b].unihash) /\ output[b] # NoOuthash
      BY <3>1, PackageFeedAssumption, HashServAssumption DEF Fits
    <3>3. equivalents' = equivalents \cup {<<output[b], result[b].unihash>>}
      BY <1>2, <2>1 DEF Reported
    <3>4. PICK o, u : o = output[b] /\ u = result[b].unihash
      OBVIOUS
    <3>5. Listed(o, u)' /\ o # NoOuthash /\ equivalents' = equivalents \cup {<<o, u>>}
      BY <3>2, <3>3, <3>4 DEF Grown
    <3>6. \A e \in equivalents : e[1] # NoOuthash /\ Listed(e[1], e[2])'
      BY DEF EquivalentsListed, Grown
    <3> QED BY <3>5, <3>6 DEF EquivalentsListed
  <2>2. CASE result[b].status # "ok"
    BY <1>1, <1>2, <2>2 DEF Reported
  <2> QED BY <2>1, <2>2
<1>3. UNCHANGED equivalents \/ \E b \in Clients : Reported(b)
  BY DEF Next, Builder, StartBuild, Rehash, GetUnihash, GotUnihash, Package, Remap, Remapped, AskForPR, PRServerGone,
     GiveUpPR, LosePRConnection, Disconnected, AnswerPR, buildervars, vars
<1> QED BY <1>1, <1>2, <1>3

-----------------------------------------------------------------------------
(* The modes                                                                *)

SameMode(b) ==
  /\ conn'[b] = conn[b] /\ mode'[b] = mode[b] /\ todo'[b] = todo[b] /\ reply'[b] = reply[b]
  /\ restoring'[b] = restoring[b] /\ attempts'[b] = attempts[b] /\ nested'[b] = nested[b]

LEMMA SameModeRight ==
  ASSUME FeedTypes, NEW b \in Clients, ModeRight(b), SameMode(b),
         losses' = losses \/ losses' = losses + 1
  PROVE  ModeRight(b)'
<1> USE DEF SameMode
<1>1. Failures(b)' = Failures(b) /\ Failures(b) \in Int
  BY DEF Failures, FeedTypes
<1>2. Current(b)' = Current(b)
  BY DEF Current
<1> QED BY <1>1, <1>2 DEF ModeRight, FeedTypes

LEMMA MessageModes ==
  /\ Wants(GetStream) = "normal" /\ Leads(GetStream) = "stream"
  /\ Wants(End) = "stream" /\ Leads(End) = "normal"
  /\ \A b : \A m \in Asks(b) : /\ Leads(m) = Wants(m) /\ m.op \notin {"get-stream", "END"}
                              /\ Wants(m) = IF m.op = "query" THEN "stream" ELSE "normal"
<1>1. GetStream.op = "get-stream" /\ End.op = "END"
  BY DEF GetStream, End
<1>2. ASSUME NEW b, NEW m \in Asks(b) PROVE m.op \in {"query", "report", "report-equiv"}
  BY AskCases
<1> QED BY <1>1, <1>2 DEF Wants, Leads, StreamOps

LEMMA ConnectMode ==
  ASSUME FeedTypes, NEW c \in Clients, ClientRight(c), ModeRight(c), Connect(c)
  PROVE  ModeRight(c)'
<1> USE DEF FeedTypes
<1>1. todo[c] # <<>> /\ conn[c] = "none" /\ reply[c] = <<>> /\ CallRight(c)
  BY DEF Connect, ClientRight, ReplyRight
<1>2. /\ conn'[c] = "normal" /\ mode'[c] = "normal" /\ todo'[c] = todo[c] /\ reply'[c] = <<>>
      /\ restoring'[c] = (restoring[c] \/ mode[c] = "stream")
      /\ attempts'[c] = attempts[c] /\ losses' = losses
      /\ nested'[c] = nested[c] \/ nested'[c] = 0
  BY <1>1 DEF Connect, Restores
<1>3. Failures(c)' <= losses'
  BY <1>1, <1>2 DEF Failures, ModeRight
<1>4. CASE restoring'[c]
  <2>1. Wants(Head(todo[c])) = "stream"
    BY <1>1, <1>2, <1>4 DEF ModeRight
  <2>2. Current(c)' = GetStream
    BY <1>4 DEF Current
  <2> QED BY <1>1, <1>2, <1>3, <1>4, <2>1, <2>2, MessageModes DEF ModeRight
<1>5. CASE ~restoring'[c]
  <2>1. ~restoring[c] /\ mode[c] = "normal" /\ Wants(Head(todo[c])) = "normal"
    BY <1>1, <1>2, <1>5 DEF ModeRight
  <2>2. Current(c)' = Head(todo[c])
    BY <1>2, <1>5 DEF Current
  <2> QED BY <1>1, <1>2, <1>3, <1>5, <2>1, <2>2 DEF ModeRight
<1> QED BY <1>4, <1>5

LEMMA FailMode ==
  ASSUME FeedTypes, NEW c \in Clients, ModeRight(c), serving, losses <= Retries, ConnectionFails(c)
  PROVE  ModeRight(c)'
<1> USE DEF FeedTypes
<1>1. conn[c] = "dead" /\ Retries \in Nat /\ losses' = losses
  BY HashServAssumption DEF ConnectionFails
<1>2. attempts[c] + nested[c] + 1 <= losses /\ attempts[c] \in Nat /\ nested[c] \in Nat
  BY <1>1 DEF ModeRight, Failures
<1>3. ~LastTry(attempts[c]) /\ ~LastTry(nested[c])
  BY <1>1, <1>2 DEF LastTry
<1>4. /\ conn'[c] = "none" /\ mode'[c] = mode[c] /\ todo'[c] = todo[c]
      /\ restoring'[c] = restoring[c]
      /\ attempts'[c] = (IF restoring[c] THEN attempts[c] ELSE attempts[c] + 1)
      /\ nested'[c] = (IF restoring[c] THEN nested[c] + 1 ELSE 0)
  BY <1>1, <1>3 DEF ConnectionFails, Fail, OneMore
<1>5. Failures(c)' <= losses'
  BY <1>1, <1>2, <1>4 DEF Failures
<1> QED BY <1>4, <1>5 DEF ModeRight

LEMMA HandleMode ==
  ASSUME FeedTypes, NEW c \in Clients, ClientRight(c), ModeRight(c), Handle(c)
  PROVE  ModeRight(c)'
<1> USE DEF FeedTypes
<1>1. /\ todo[c] # <<>> /\ conn[c] \in {"normal", "stream"} /\ reply[c] = <<>> /\ CallRight(c)
  BY DEF Handle, ClientRight
<1>2. PICK u : Answers(Current(c), u, c)
  BY DEF Handle
<1>3. /\ UNCHANGED <<mode, todo, attempts, restoring, nested, losses>> /\ reply'[c] = <<u>>
      /\ conn'[c] = CASE Current(c).op = "get-stream" -> "stream"
                      [] Current(c).op = "END"        -> "normal"
                      [] OTHER                        -> conn[c]
  BY <1>2 DEF Answers
<1>4. conn[c] = Wants(Current(c))
  BY <1>1 DEF ModeRight
<1>5. conn'[c] = Leads(Current(c)) /\ conn'[c] # "dead"
  BY <1>1, <1>3, <1>4 DEF Leads
<1>6. Failures(c)' <= losses' /\ Current(c)' = Current(c) /\ reply'[c] # <<>>
  BY <1>1, <1>3, <1>5 DEF Failures, ModeRight, Current
<1> QED BY <1>1, <1>3, <1>5, <1>6 DEF ModeRight

LEMMA DeliverMode ==
  ASSUME FeedTypes, NEW c \in Clients, ClientRight(c), ModeRight(c), Deliver(c)
  PROVE  ModeRight(c)'
<1> USE DEF FeedTypes
<1>1. todo[c] # <<>> /\ reply[c] # <<>> /\ conn[c] \in {"normal", "stream"} /\ CallRight(c)
  BY DEF Deliver, ClientRight, ReplyRight
<1>2. conn[c] = Leads(Current(c))
  BY <1>1 DEF ModeRight
<1>3. /\ UNCHANGED <<conn, nested, losses>> /\ reply'[c] = <<>> /\ ~restoring'[c]
      /\ mode'[c] = CASE Current(c).op = "get-stream" -> "stream"
                      [] Current(c).op = "END"        -> "normal"
                      [] OTHER                        -> mode[c]
      /\ todo'[c] = IF restoring[c] THEN todo[c] ELSE Tail(todo[c])
      /\ attempts'[c] = attempts[c] \/ attempts'[c] = 0
  BY DEF Deliver
<1>4. Failures(c)' <= losses'
  BY <1>3 DEF Failures, ModeRight
<1>5. CASE restoring[c]
  <2>1. Current(c) = GetStream /\ Current(c).op = "get-stream"
    BY <1>1, <1>5, CurrentCases
  <2>2. Wants(Head(todo[c])) = "stream" /\ mode'[c] = "stream" /\ conn'[c] = "stream"
    BY <1>1, <1>2, <1>3, <1>5, <2>1, MessageModes DEF ModeRight
  <2>3. Current(c)' = Head(todo[c])
    BY <1>3, <1>5 DEF Current
  <2> QED BY <1>1, <1>3, <1>4, <1>5, <2>2, <2>3 DEF ModeRight
<1>6. CASE ~restoring[c]
  <2>1. PICK m \in Asks(c) : todo[c] \in Lines(m)
    BY <1>1 DEF CallRight
  <2>2. Current(c) = Head(todo[c]) /\ mode[c] = Wants(Current(c))
    BY <1>1, <1>6 DEF Current, ModeRight
  <2>3. mode'[c] = conn[c]
    BY <1>2, <1>3, <2>2 DEF Leads
  <2>4. \/ todo'[c] = <<>>
        \/ todo'[c] = <<m>> /\ conn[c] = Wants(m)
    BY <1>2, <1>3, <1>6, <2>1, <2>2, LineCases, MessageModes
  <2>5. CASE todo'[c] = <<>>
    BY <1>3, <1>4, <2>3, <2>5 DEF ModeRight
  <2>6. CASE todo'[c] = <<m>> /\ conn[c] = Wants(m)
    <3>1. todo'[c] # <<>> /\ Head(todo'[c]) = m
      BY <2>6
    <3>2. Current(c)' = m
      BY <1>3, <3>1 DEF Current
    <3> QED BY <1>3, <1>4, <2>3, <2>6, <3>1, <3>2 DEF ModeRight
  <2> QED BY <2>4, <2>5, <2>6
<1> QED BY <1>5, <1>6

LEMMA LoseMode ==
  ASSUME FeedTypes, NEW c \in Clients, ModeRight(c), LoseConnection(c)
  PROVE  ModeRight(c)'
<1> USE DEF FeedTypes
<1>1. /\ UNCHANGED <<mode, todo, attempts, restoring, nested>> /\ conn'[c] = "dead"
      /\ conn[c] # "dead" /\ losses' = losses + 1
  BY DEF LoseConnection
<1>2. Failures(c)' <= losses'
  BY <1>1 DEF Failures, ModeRight
<1> QED BY <1>1, <1>2 DEF ModeRight

LEMMA CallMode ==
  ASSUME FeedTypes, NEW b \in Clients, ClientRight(b), ModeRight(b), NEW m, Call(b, m),
         m.op \in {"query", "report", "report-equiv"}, losses' = losses
  PROVE  ModeRight(b)'
<1> USE DEF FeedTypes
<1>1. todo[b] = <<>> /\ reply[b] = <<>> /\ ~restoring[b] /\ mode[b] \in {"normal", "stream"}
  BY DEF Call, ClientRight, ReplyRight, BuilderRight
<1>2. UNCHANGED <<conn, mode, restoring, nested, reply>> /\ attempts'[b] = 0
  BY DEF Call
<1>3. Wants(m) = IF m.op = "query" THEN "stream" ELSE "normal"
  BY DEF Wants, StreamOps
<1>4. todo'[b] # <<>> /\ Wants(Head(todo'[b])) = mode[b]
  <2>1. \/ todo'[b] = <<GetStream, m>> /\ mode[b] = "normal" /\ m.op = "query"
        \/ todo'[b] = <<End, m>> /\ mode[b] = "stream" /\ m.op # "query"
        \/ todo'[b] = <<m>> /\ mode[b] = Wants(m)
    BY <1>1, <1>3 DEF Call
  <2>2. todo'[b] \in Lines(m)
    BY CallMakes
  <2>3. <<m>> # <<>> /\ Head(<<m>>) = m
    OBVIOUS
  <2> QED BY <2>1, <2>2, <2>3, LineCases, MessageModes
<1>5. Current(b)' = Head(todo'[b])
  BY <1>1, <1>2 DEF Current
<1>6. Failures(b)' <= losses'
  BY <1>2 DEF Failures, ModeRight
<1> QED BY <1>1, <1>2, <1>4, <1>5, <1>6 DEF ModeRight

LEMMA ModesStep ==
  ASSUME FeedTypes, AllRight, ModesRight, [Next]_vars
  PROVE  ModesRight'
<1> USE DEF FeedTypes
<1>0. \A b \in Clients : ClientRight(b)
  BY DEF AllRight
<1>1. ASSUME Spare, serving', losses' \in {losses, losses + 1},
             \A b \in Clients : ModeRight(b) => SameMode(b) \/ ModeRight(b)'
      PROVE  ModesRight'
  BY <1>1, SameModeRight DEF ModesRight
<1>2. ASSUME Spare' PROVE Spare /\ serving' /\ losses' \in {losses, losses + 1}
  <2>1. /\ losses' \in {losses, losses + 1}
        /\ \/ hashstops' = hashstops /\ (serving => serving')
           \/ hashstops' = hashstops + 1
    <3>1. CASE HashStep
      BY <3>1 DEF HashStep, Connect, ConnectionFails, Handle, Answers, Reject, Deliver, StartHashServer
    <3>2. CASE HashFault
      BY <3>2 DEF HashFault, LoseConnection, StopHashServer
    <3>3. ASSUME NEW b \in Clients, Builder(b) \/ LosePRConnection(b)
          PROVE  UNCHANGED <<serving, losses, hashstops>>
      BY <3>3 DEF Builder, StartBuild, Rehash, GetUnihash, GotUnihash, Package, Reported, Remap, Remapped, AskForPR,
         PRServerGone, GiveUpPR, LosePRConnection, Disconnected, Consumed, hashvars
    <3>4. CASE AnswerPR \/ UNCHANGED hashvars
      BY <3>4 DEF AnswerPR, hashvars
    <3> QED BY <3>1, <3>2, <3>3, <3>4 DEF Next, vars
  <2>2. Spare
    BY <1>2, <2>1, HashServAssumption DEF Spare
  <2>3. hashstops' = 0 /\ hashstops = 0
    BY <1>2, <2>2 DEF Spare
  <2>4. hashstops' # hashstops + 1
    BY <2>3
  <2>5. serving
    BY <2>2 DEF ModesRight
  <2> QED BY <2>1, <2>2, <2>4, <2>5
<1> SUFFICES ASSUME Spare' PROVE ModesRight'
  BY DEF ModesRight
<1>3. /\ Spare /\ serving' /\ losses' \in {losses, losses + 1} /\ serving /\ losses <= Retries
      /\ \A b \in Clients : ModeRight(b)
  BY <1>2 DEF ModesRight, Spare
<1> SUFFICES ASSUME NEW b \in Clients PROVE SameMode(b) \/ ModeRight(b)'
  BY <1>1, <1>3
<1>4. ClientRight(b) /\ ModeRight(b)
  BY <1>0, <1>3
<1> USE DEF SameMode
<1>5. CASE HashStep
  <2>1. ASSUME NEW c \in Clients, c # b,
               Connect(c) \/ ConnectionFails(c) \/ Handle(c) \/ Reject(c) \/ Deliver(c)
        PROVE  SameMode(b)
    BY <2>1 DEF Connect, ConnectionFails, Fail, Handle, Answers, Reject, Deliver
  <2>2. ~Reject(b)
    <3>1. Reject(b) => conn[b] = Wants(Current(b))
      BY <1>4 DEF Reject, ModeRight
    <3> QED BY <3>1 DEF Reject, Understood, Wants
  <2>3. CASE StartHashServer
    BY <2>3 DEF StartHashServer, clientvars
  <2> QED BY <1>3, <1>4, <1>5, <2>1, <2>2, <2>3, ConnectMode, FailMode, HandleMode, DeliverMode
          DEF HashStep
<1>6. CASE HashFault
  <2>1. ~StopHashServer
    BY <1>3 DEF StopHashServer
  <2>2. ASSUME NEW c \in Clients, c # b, LoseConnection(c) PROVE SameMode(b)
    BY <2>2 DEF LoseConnection
  <2> QED BY <1>4, <1>6, <2>1, <2>2, LoseMode DEF HashFault
<1>7. ASSUME NEW c \in Clients, NEW m, Call(c, m), UNCHANGED losses,
             m.op \in {"query", "report", "report-equiv"}
      PROVE  SameMode(b) \/ ModeRight(b)'
  <2>1. CASE c # b
    BY <1>7, <2>1 DEF Call
  <2>2. CASE c = b
    BY <1>4, <1>7, <2>2, CallMode
  <2> QED BY <2>1, <2>2
<1>8. ASSUME NEW c \in Clients, Builder(c) PROVE SameMode(b) \/ ModeRight(b)'
  <2>1. ASSUME NEW t \in Taskhashes, StartBuild(c, t) \/ Rehash(c, t)
        PROVE  SameMode(b) \/ ModeRight(b)'
    <3>1. UNCHANGED losses /\ (UNCHANGED clientvars \/ Call(c, Query(t))) /\ Query(t).op = "query"
      BY <2>1 DEF StartBuild, Rehash, GetUnihash, Query
    <3> QED BY <1>7, <3>1 DEF clientvars
  <2>2. ASSUME NEW o \in Outhashes, Package(c, o) PROVE SameMode(b) \/ ModeRight(b)'
    <3>1. UNCHANGED losses /\ Call(c, Report(task[c], o, unihashes[c][task[c]]))
          /\ Report(task[c], o, unihashes[c][task[c]]).op = "report"
      BY <2>2 DEF Package, Report
    <3> QED BY <1>7, <3>1
  <2>3. ASSUME NEW u \in Taskhashes, Remap(c, u) PROVE SameMode(b) \/ ModeRight(b)'
    <3>1. /\ UNCHANGED losses /\ (UNCHANGED clientvars \/ Call(c, ReportEquiv(task[c], u)))
          /\ ReportEquiv(task[c], u).op = "report-equiv"
      BY <2>3 DEF Remap, ReportEquiv
    <3> QED BY <1>7, <3>1 DEF clientvars
  <2>4. CASE GotUnihash(c) \/ Reported(c) \/ Remapped(c)
    BY <2>4 DEF GotUnihash, Reported, Remapped, Consumed
  <2>5. CASE AskForPR(c) \/ PRServerGone(c) \/ GiveUpPR(c)
    BY <2>5 DEF AskForPR, PRServerGone, GiveUpPR, Disconnected, hashvars, clientvars
  <2> QED BY <1>8, <2>1, <2>2, <2>3, <2>4, <2>5 DEF Builder
<1>9. CASE AnswerPR \/ UNCHANGED hashvars \/ \E c \in Clients : LosePRConnection(c)
  BY <1>9 DEF AnswerPR, LosePRConnection, Disconnected, hashvars, clientvars
<1> QED BY <1>5, <1>6, <1>8, <1>9 DEF Next, vars

-----------------------------------------------------------------------------
(* Types                                                                    *)

LEMMA HashTypesStep ==
  ASSUME FeedTypes, HashStep \/ HashFault, UNCHANGED buildervars
  PROVE  FeedTypes'
<1> USE DEF FeedTypes, buildervars
<1>1. ASSUME NEW c \in Clients, Connect(c) PROVE FeedTypes'
  <2>1. /\ conn' = [conn EXCEPT ![c] = "normal"] /\ mode' = [mode EXCEPT ![c] = "normal"]
        /\ nested' = [nested EXCEPT ![c] = IF Restores(c) THEN 0 ELSE @]
        /\ UNCHANGED <<todo, attempts, result, reply, losses, hashstops>>
    BY <1>1 DEF Connect
  <2>2. restoring' \in [Clients -> BOOLEAN] /\ UNCHANGED serving
    BY <1>1 DEF Connect
  <2>3. 0 \in 0 .. Retries
    BY HashServAssumption
  <2> QED BY <2>1, <2>2, <2>3
<1>0. ASSUME NEW c \in Clients, Reject(c) \/ LoseConnection(c) PROVE FeedTypes'
  <2>1. /\ conn' = [conn EXCEPT ![c] = "dead"] /\ DOMAIN reply' = DOMAIN reply
        /\ UNCHANGED <<mode, todo, attempts, nested, result, hashstops>>
        /\ losses' \in {losses, losses + 1}
    BY <1>0 DEF Reject, LoseConnection
  <2>2. UNCHANGED <<restoring, serving>>
    BY <1>0 DEF Reject, LoseConnection
  <2> QED BY <2>1, <2>2
<1>2. CASE StopHashServer \/ StartHashServer
  <2>1. /\ conn' \in [Clients -> {"none", "dead", "normal", "stream"}]
        /\ DOMAIN reply' = Clients /\ losses' \in Nat /\ hashstops' \in Nat
    BY <1>2 DEF StopHashServer, StartHashServer, clientvars
  <2>2. UNCHANGED <<mode, todo, attempts, restoring, nested, result>> /\ serving' \in BOOLEAN
    BY <1>2 DEF StopHashServer, StartHashServer, clientvars
  <2> QED BY <2>1, <2>2
<1>3. ASSUME NEW c \in Clients, ConnectionFails(c) PROVE FeedTypes'
  <2>1. attempts[c] \in 0 .. Retries /\ nested[c] \in 0 .. Retries /\ Retries \in Nat
    BY HashServAssumption
  <2>2. ~LastTry(attempts[c]) => attempts[c] + 1 \in 0 .. Retries
    BY <2>1 DEF LastTry
  <2>3. ~LastTry(nested[c]) => nested[c] + 1 \in 0 .. Retries
    BY <2>1 DEF LastTry
  <2>4. attempts' \in [Clients -> 0 .. Retries]
    BY <1>3, <2>1, <2>2 DEF ConnectionFails, Fail, OneMore
  <2>5. nested' \in [Clients -> 0 .. Retries]
    BY <1>3, <2>1, <2>3 DEF ConnectionFails, Fail, OneMore
  <2> QED BY <1>3, <2>4, <2>5 DEF ConnectionFails, Fail
<1>4. ASSUME NEW c \in Clients, Handle(c) PROVE FeedTypes'
  <2>1. \E u : Answers(Current(c), u, c)
    BY <1>4 DEF Handle
  <2> QED BY <2>1 DEF Answers
<1>5. ASSUME NEW c \in Clients, Deliver(c) PROVE FeedTypes'
  BY <1>5, HashServAssumption DEF Deliver
<1> QED BY <1>0, <1>1, <1>2, <1>3, <1>4, <1>5 DEF HashStep, HashFault

LEMMA BuilderTypesStep ==
  ASSUME FeedTypes, AllRight, NEW b \in Clients, Builder(b)
  PROVE  FeedTypes'
<1> USE DEF FeedTypes, Stages
<1>1. ASSUME NEW m, Call(b, m)
      PROVE  /\ attempts' \in [Clients -> 0 .. Retries] /\ DOMAIN todo' = Clients
             /\ DOMAIN result' = Clients /\ UNCHANGED <<conn, mode, restoring, nested, reply>>
  BY <1>1, HashServAssumption DEF Call
<1>2. ASSUME NEW t \in Taskhashes, StartBuild(b, t) \/ Rehash(b, t) PROVE FeedTypes'
  <2>1. /\ stage' \in [Clients -> Stages] /\ task' \in [Clients -> Unihashes]
        /\ UNCHANGED <<serving, losses, hashstops, output, unihashes>>
        /\ UNCHANGED clientvars \/ Call(b, Query(t))
    <3>1. Starts(b, t)
      BY <1>2 DEF StartBuild, Rehash
    <3>2. \E asking, known \in Stages : GetUnihash(b, t, asking, known)
      BY <1>2 DEF StartBuild, Rehash
    <3>3. task' \in [Clients -> Unihashes]
      BY <3>1 DEF Starts, Unihashes
    <3> QED BY <3>2, <3>3 DEF GetUnihash
  <2> QED BY <1>1, <2>1 DEF clientvars
<1>3. ASSUME NEW o \in Outhashes, Package(b, o) PROVE FeedTypes'
  BY <1>1, <1>3 DEF Package
<1>4. ASSUME NEW u \in Taskhashes, Remap(b, u) PROVE FeedTypes'
  <2>1. /\ stage' \in [Clients -> Stages] /\ task' \in [Clients -> Unihashes]
        /\ DOMAIN output' = Clients /\ UNCHANGED <<serving, losses, hashstops, unihashes>>
        /\ UNCHANGED clientvars \/ Call(b, ReportEquiv(task[b], u))
    BY <1>4 DEF Remap, Ended, Unihashes
  <2> QED BY <1>1, <2>1 DEF clientvars
<1>5. CASE GotUnihash(b) \/ Reported(b) \/ Remapped(b)
  <2>1. ClientRight(b) /\ CallEnds(b)
    BY <1>5 DEF AllRight, GotUnihash, Reported, Remapped
  <2>2. result[b].unihash \in Unihashes /\ task[b] \in Unihashes
    BY <2>1, ResultSays
  <2>3. ASSUME NEW t, NEW u \in Unihashes, SetUnihash(b, t, u)
        PROVE  unihashes' \in [Clients -> [Taskhashes -> Unihashes]]
    BY <2>3 DEF SetUnihash, Unihashes
  <2>4. unihashes' \in [Clients -> [Taskhashes -> Unihashes]]
    BY <1>5, <2>2, <2>3 DEF GotUnihash, Reported, Remapped
  <2> QED BY <1>5, <2>4 DEF GotUnihash, Reported, Remapped, Consumed, Ended, Unihashes
<1>6. CASE AskForPR(b) \/ PRServerGone(b) \/ GiveUpPR(b)
  <2>1. /\ stage' \in [Clients -> Stages] /\ task' \in [Clients -> Unihashes]
        /\ DOMAIN output' = Clients
    BY <1>6 DEF AskForPR, PRServerGone, GiveUpPR, Disconnected, Ended, Unihashes
  <2>2. UNCHANGED <<hashvars, unihashes>>
    BY <1>6 DEF AskForPR, PRServerGone, GiveUpPR, Disconnected
  <2> QED BY <2>1, <2>2 DEF hashvars, clientvars
<1> QED BY <1>2, <1>3, <1>4, <1>5, <1>6 DEF Builder

LEMMA FeedTypesStep ==
  ASSUME FeedTypes, AllRight, [Next]_vars
  PROVE  FeedTypes'
<1>1. CASE UNCHANGED <<hashvars, buildervars>>
  BY <1>1 DEF FeedTypes, hashvars, clientvars, buildervars
<1>2. CASE AnswerPR
  BY <1>2 DEF FeedTypes, AnswerPR, Ended, hashvars, clientvars, Stages, Unihashes
<1>3. ASSUME NEW b \in Clients, LosePRConnection(b) PROVE FeedTypes'
  BY <1>3 DEF FeedTypes, LosePRConnection, Disconnected, Ended, hashvars, clientvars, Stages, Unihashes
<1> QED BY <1>1, <1>2, <1>3, HashTypesStep, BuilderTypesStep DEF Next, vars

(* The PR service's part of the types.                                      *)
PRTable == [Checksums -> {NoRow} \cup PRValues]
PRTyped ==
  prtable \in PRTable /\ prdisk \in PRTable /\ {transaction, dirty, quitflag} \subseteq BOOLEAN

LEMMA PRTypedStep == PRTyped /\ [PRNext]_prvars => PRTyped'
<1> SUFFICES ASSUME PRTyped, [PRNext]_prvars PROVE PRTyped'
  OBVIOUS
<1> USE DEF PRTyped, PRTable
<1>1. ASSUME NEW v \in PRValues, ServesGetPR(v) PROVE PRTyped'
  BY <1>1 DEF ServesGetPR, Takes, GetValue, dbvars
<1>2. CASE HandlerEnds \/ ServesQuit \/ HandlerCommits \/ HandlerBegins
  BY <1>2 DEF HandlerEnds, ServesQuit, HandlerCommits, HandlerBegins, Commit, Begin, dbvars
<1>3. CASE PRMain
  BY <1>3 DEF PRMain, SignalCommits, SignalBegins, SignalQuits, MainLeaves, PRServerEnds, ProcessGone,
     Commit, Begin, dbvars
<1>4. CASE StartPRServer \/ PRFault
  BY <1>4 DEF StartPRServer, PRFault, AskToQuit, Accept, Signal, Killed, ProcessGone, dbvars
<1>5. CASE \/ \E gone \in BOOLEAN : Answer(gone)
           \/ \E k \in Checksums : \E c, n : Accept(GetPR(c, n, k)) /\ UNCHANGED prbounds
           \/ UNCHANGED prvars
  BY <1>5 DEF Answer, Accept, dbvars, prvars
<1> QED BY <1>1, <1>2, <1>3, <1>4, <1>5 DEF PRNext, PRHandler

-----------------------------------------------------------------------------
(* The invariant                                                            *)

FeedInv == FeedTypes /\ RowsSound /\ AllRight /\ EquivalentsListed /\ ModesRight /\ PRTyped

LEMMA AsksInTime ==
  ASSUME AllRight, FeedTypes, NEW b \in Clients, stage[b] = "getpr"
  PROVE  unihashes[b][task[b]] \in Checksums
<1>1. task[b] \in Taskhashes /\ unihashes[b][task[b]] # NoHash
  BY DEF AllRight, ClientRight, BuilderRight
<1> QED BY <1>1, PackageFeedAssumption DEF FeedTypes, Unihashes

LEMMA FeedInvInit == Init => FeedInv
<1> SUFFICES ASSUME Init PROVE FeedInv
  OBVIOUS
<1> USE DEF Init, HashInit
<1>1. FeedTypes
  BY HashServAssumption DEF FeedTypes, Stages, Unihashes
<1>2. RowsSound /\ EquivalentsListed
  BY DEF RowsSound, EquivalentsListed
<1>3. ASSUME NEW b \in Clients PROVE ClientRight(b) /\ ModeRight(b)
  <2>1. CallRight(b) /\ ReplyRight(b) /\ ResultRight(b)
    BY DEF CallRight, ReplyRight, ResultRight
  <2>2. BuilderRight(b)
    BY DEF BuilderRight
  <2>3. ModeRight(b)
    BY DEF ModeRight, Failures
  <2> QED BY <2>1, <2>2, <2>3 DEF ClientRight
<1>4. AllRight /\ ModesRight
  BY <1>3 DEF AllRight, ModesRight
<1>5. PRTyped
  BY DEF PRInit, PRTyped, PRTable
<1> QED BY <1>1, <1>2, <1>4, <1>5 DEF FeedInv

LEMMA FeedInvStep == FeedInv /\ HashInv /\ [Next]_vars => FeedInv' /\ [PRNext]_prvars
<1> SUFFICES ASSUME FeedInv, HashInv, [Next]_vars PROVE FeedInv' /\ [PRNext]_prvars
  OBVIOUS
<1> USE DEF FeedInv
<1>1. RowsSound' /\ Grown /\ AllRight'
  BY FeedStep
<1>2. EquivalentsListed' /\ ModesRight' /\ FeedTypes'
  BY <1>1, EquivalentsStep, ModesStep, FeedTypesStep
<1>3. [PRNext]_prvars
  BY AsksInTime, FeedUsesService DEF vars
<1>4. PRTyped'
  BY <1>3, PRTypedStep
<1> QED BY <1>1, <1>2, <1>3, <1>4

LEMMA FeedInvAlways == Spec => []FeedInv
<1> QED BY FeedInvInit, FeedInvStep, HashInvAlways, PTL DEF Spec

(* What builders take for a unihash they may take for it: their calls end   *)
(* with the answer to what they asked, however often it was sent, the table *)
(* has one unihash per output, of the class of what is built, and the two   *)
(* ends of a connection are in one mode as long as a message has tries to   *)
(* spare (get_unihash, report_unihash, _send_wrapper, connect).             *)
THEOREM UnihashesSoundAlways == Spec => []UnihashesSound
<1>1. FeedInv /\ HashInv => UnihashesSound
  <2> SUFFICES ASSUME FeedInv, HashInv PROVE UnihashesSound
    OBVIOUS
  <2> USE DEF FeedInv
  <2>1. TypeOK
    <3>1. ASSUME NEW c \in Clients
          PROVE  /\ Len(todo[c]) <= 2 /\ Len(reply[c]) <= 1
                 /\ \A i \in DOMAIN reply[c] : reply[c][i] \in Unihashes
      <4>1. CallRight(c) /\ ReplyRight(c)
        BY DEF AllRight, ClientRight
      <4>2. Len(todo[c]) <= 2
        BY <4>1, LineCases DEF CallRight
      <4>3. Len(reply[c]) <= 1 /\ \A i \in DOMAIN reply[c] : reply[c][i] \in Unihashes
        <5>1. CASE reply[c] = <<>>
          BY <5>1
        <5>2. ASSUME NEW u \in Unihashes, reply[c] = <<u>>
              PROVE  Len(reply[c]) <= 1 /\ \A i \in DOMAIN reply[c] : reply[c][i] \in Unihashes
          BY <5>2
        <5> QED BY <4>1, <5>1, <5>2 DEF ReplyRight
      <4> QED BY <4>2, <4>3
    <3> QED BY <3>1, AsksInTime DEF TypeOK, FeedTypes, RowsSound, PRTyped, PRTable
  <2>2. BuildersAgree
    BY DEF BuildersAgree, EquivalentsListed, Listed, HashInv, OneUnihashPerOutput
  <2>3. UnihashIsSound
    BY DEF UnihashIsSound, AllRight, ClientRight, BuilderRight, Same
  <2>4. ModesAgree
    BY DEF ModesAgree, ModesRight, Spare, ModeRight, Understood, Wants
  <2> QED BY <2>1, <2>2, <2>3, <2>4 DEF UnihashesSound
<1> QED BY <1>1, FeedInvAlways, HashInvAlways, PTL

(* The builders ask the service for nothing else than it is proved for, so  *)
(* what ValuesFollow and LastAtRisk say holds in the composition            *)
(* (package_get_auto_pr).                                                   *)
THEOREM FeedServed == Spec => PRFollowsChecksum /\ OnlyLastAtRisk
<1>1. Init => PRInit
  BY DEF Init
<1>2. Spec => PRSpec
  BY <1>1, FeedInvStep, FeedInvAlways, HashInvAlways, PTL DEF Spec, PRSpec
<1> QED BY <1>2, ValuesFollow, LastAtRisk, PTL
=============================================================================
