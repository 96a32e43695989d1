------------------------- MODULE ProcessServerProofs -------------------------
(***************************************************************************)
(* The server of a build directory (ProcessServer), for any number of       *)
(* clients, servers, retries, timeouts and faults.                          *)
(*                                                                          *)
(* The argument: whoever is a server has bitbake.lock (LockRight), so that  *)
(* there is one, and nobody else's socket can lose its name.  Connections   *)
(* are never used twice (ConnsRight), and the server turns to another one   *)
(* only when the client of the last has closed it; so a command in progress *)
(* is that of the client being served, unless its client is gone            *)
(* (CommandsRight), and a client has the answer to what it asked last       *)
(* (ClientsRight).                                                          *)
(***************************************************************************)
EXTENDS ProcessServer, FiniteSetTheorems, SequenceTheorems, TLAPS

ServerMemory ==
  [starter : Clients \cup {NoStarter}, ready : SUBSET {"sock", "controller", "command"},
   control : Conns \cup {NoConn}, ui : BOOLEAN, hadui : BOOLEAN, quit : BOOLEAN,
   backlog : Seq(Conns), waiting : Seq(Conns),
   state : {"initial", "parsing", "running", "shutdown"}, current : Conns \cup {NoConn},
   polling : BOOLEAN, builds : SUBSET Conns, queued : Conns \cup {NoConn, CookerExit}]

(* A server with a user interface has a client, and has had one.            *)
GoodMemory == {m \in ServerMemory : m.ui => m.control # NoConn /\ m.hadui}

TypesRight ==
  /\ TypeOK
  /\ mem \in [Servers -> GoodMemory]
  /\ heard \in [Clients -> Conns \cup {NoConn, CookerExit}]

(* Who is a server has the lock; so has the client about to start one, and  *)
(* a server that removes the lock file, of those that have still to.        *)
LockRight ==
  /\ \A c \in Clients : cpc[c] = "locked" => lock = c
  /\ \A s \in Servers : spc[s] # "none" => lock = s
  /\ \A s \in Servers : spc[s] \in Listening => sockname = s
  /\ \A s \in Servers : spc[s] = "none" => mem[s] = NewServer(NoStarter)
  /\ lock = Remover => lingering > 0

Talking   == {"sendfds", "hello", "session", "leaving", "asked", "listen", "stopping"}
Connected == Talking \cup CEnded

(* A connection that has been made, or is not going to be.                  *)
Used(x) == x[2] > left[x[1]] \/ (x[2] = left[x[1]] /\ cpc[x[1]] \in Connected)

ConnsOf(m) == {m.control, m.current, m.queued} \cup ToSet(m.backlog) \cup ToSet(m.waiting)

ConnsRight ==
  /\ \A x \in open : x[2] = left[x[1]] /\ cpc[x[1]] \in Talking
  /\ \A x \in sent : Used(x)
  /\ \A x \in Conns : request[x] # "none" => Used(x)
  /\ \A s \in Servers : \A x \in ConnsOf(mem[s]) \cap Conns : Used(x)
  /\ \A c \in Clients : heard[c] \in Conns => Used(heard[c])

(* What a client waits for the answer to.                                   *)
Asked(pc) == CASE pc = "hello" -> "setFeatures"
               [] pc = "asked" -> "buildTargets"
               [] pc = "stopping" -> "stateShutdown"

AnswerRight(c) ==
  /\ cpc[c] \notin CEnded => left[c] > 0
  /\ c \in stopped => cpc[c] = "listen"
  /\ cpc[c] \in {"start", "locked", "refused", "wait", "connect"} => reply[c] = "none"
  /\ cpc[c] \in {"sendfds", "session", "listen"} =>
       request[Conn(c)] = "none" /\ reply[c] = "none"
  /\ cpc[c] \in {"hello", "asked", "stopping"} =>
       request[Conn(c)] = "none" \/ (request[Conn(c)] = Asked(cpc[c]) /\ reply[c] = "none")

ClientsRight == \A c \in Clients : AnswerRight(c)

(* The stages of the loop work from what select() returned.                 *)
StageRight(m, pc) ==
  /\ pc = "client" => "controller" \in m.ready
  /\ pc \in {"accept", "client"} /\ "controller" \in m.ready =>
       /\ m.control # NoConn
       /\ m.control \in open => m.control \in sent
  /\ pc = "accept" => m.backlog # <<>> /\ ("command" \in m.ready => m.ui)
  /\ pc \in {"command", "joining"} => m.ui

StagesRight == \A s \in Servers : StageRight(mem[s], spc[s])

(* A command in progress is that of the client being served, unless its     *)
(* client is gone; a build is that of the command in progress; and one that *)
(* was to stop before it came to build does not.                            *)
StopHeard(c) == c \in stopped \/ (cpc[c] = "stopping" /\ reply[c] = "ok")

CommandRight(m) ==
  /\ m.builds \subseteq {m.current}
  /\ m.polling => m.builds = {}
  /\ m.current \in open => m.control = m.current /\ m.ui
  /\ m.queued \notin open
  /\ \A c \in Clients :
       StopHeard(c) /\ Conn(c) \in open /\ m.current = Conn(c) /\ m.polling
         => m.state = "shutdown"

CommandsRight == \A s \in Servers : CommandRight(mem[s])

ServerInv ==
  TypesRight /\ LockRight /\ ConnsRight /\ ClientsRight /\ StagesRight /\ CommandsRight
    /\ EventsGoHome

-----------------------------------------------------------------------------
(* Connections *)

(* A connection is a pair; what stands for none, and the event that ends a  *)
(* server, are not.                                                         *)
LEMMA ConnsArePairs ==
  /\ NoConn \notin Conns /\ CookerExit \notin Conns /\ NoConn # CookerExit
  /\ \A x \in Conns : x[1] \in Clients /\ x[2] \in 1..Retries /\ x = <<x[1], x[2]>>
<1>1. \A x \in Conns : x[1] \in Clients /\ x[2] \in 1..Retries /\ x = <<x[1], x[2]>>
  BY DEF Conns
<1>2. \A x \in Conns : Len(x) = 2
  BY DEF Conns
<1>3. Len(NoConn) = 0 /\ Len(CookerExit) = 1
  BY DEF NoConn, CookerExit
<1> QED BY <1>1, <1>2, <1>3

(* The connection of a client with an attempt left, and what sets it apart. *)
LEMMA ConnIs ==
  ASSUME left \in [Clients -> 0..Retries]
  PROVE  \A c \in Clients :
           /\ Conn(c)[1] = c /\ Conn(c)[2] = left[c]
           /\ left[c] > 0 => Conn(c) \in Conns
           /\ Conn(c) # NoConn
           /\ \A x \in Conns : x[1] = c /\ x[2] = left[c] => x = Conn(c)
           /\ \A d \in Clients : Conn(c) = Conn(d) => c = d
<1> SUFFICES ASSUME NEW c \in Clients
             PROVE  /\ Conn(c)[1] = c /\ Conn(c)[2] = left[c]
                    /\ left[c] > 0 => Conn(c) \in Conns
                    /\ Conn(c) # NoConn
                    /\ \A x \in Conns : x[1] = c /\ x[2] = left[c] => x = Conn(c)
                    /\ \A d \in Clients : Conn(c) = Conn(d) => c = d
  OBVIOUS
<1>1. Conn(c)[1] = c /\ Conn(c)[2] = left[c]
  BY DEF Conn
<1>2. left[c] > 0 => Conn(c) \in Conns
  BY ProcessServerAssumption DEF Conn, Conns
<1>3. Conn(c) # NoConn
  BY DEF Conn, NoConn
<1>4. \A x \in Conns : x[1] = c /\ x[2] = left[c] => x = Conn(c)
  BY ConnsArePairs DEF Conn
<1>5. \A d \in Clients : Conn(c) = Conn(d) => c = d
  BY DEF Conn
<1> QED BY <1>1, <1>2, <1>3, <1>4, <1>5

-----------------------------------------------------------------------------
(* What a server remembers *)

(* What is in a sequence, and in what is made of it. *)
LEMMA InSequence ==
  ASSUME NEW S, NEW q \in Seq(S)
  PROVE  /\ ToSet(q) \subseteq S /\ ToSet(<<>>) = {}
         /\ q # <<>> => /\ Head(q) \in ToSet(q) /\ Last(q) \in ToSet(q)
                        /\ Tail(q) \in Seq(S) /\ Front(q) \in Seq(S)
                        /\ ToSet(Tail(q)) \subseteq ToSet(q)
                        /\ ToSet(Front(q)) \subseteq ToSet(q)
<1>1. ToSet(q) \subseteq S /\ ToSet(<<>>) = {}
  BY DEF ToSet
<1>2. ASSUME q # <<>>
      PROVE  /\ Head(q) \in ToSet(q) /\ Last(q) \in ToSet(q)
             /\ Tail(q) \in Seq(S) /\ ToSet(Tail(q)) \subseteq ToSet(q)
  BY <1>2 DEF ToSet, Last
<1>3. ASSUME q # <<>>
      PROVE  Front(q) \in Seq(S) /\ ToSet(Front(q)) \subseteq ToSet(q)
  BY <1>3 DEF ToSet, Front
<1> QED BY <1>1, <1>2, <1>3

LEMMA Appending ==
  ASSUME NEW S, NEW q \in Seq(S), NEW e \in S
  PROVE  /\ Append(q, e) \in Seq(S) /\ Append(q, e) # <<>>
         /\ ToSet(Append(q, e)) \subseteq ToSet(q) \cup {e}
<1>1. Append(q, e) \in Seq(S)
  OBVIOUS
<1>2. Append(q, e) # <<>>
  BY AppendProperties
<1>3. ToSet(Append(q, e)) \subseteq ToSet(q) \cup {e}
  BY DEF ToSet
<1> QED BY <1>1, <1>2, <1>3

LEMMA Concatenation ==
  ASSUME NEW S, NEW q \in Seq(S), NEW r \in Seq(S)
  PROVE  ToSet(q \o r) \subseteq ToSet(q) \cup ToSet(r)
BY DEF ToSet

LEMMA NewServerGood == \A c \in Clients \cup {NoStarter} : NewServer(c) \in GoodMemory
BY DEF NewServer, GoodMemory, ServerMemory

(* What the steps of a server make of its memory, field by field. *)
LEMMA AcceptedIs ==
  ASSUME NEW m \in GoodMemory, m.backlog # <<>>
  PROVE  /\ Accepted(m) \in GoodMemory
         /\ Accepted(m).ui = m.ui /\ Accepted(m).state = m.state
         /\ Accepted(m).current = m.current /\ Accepted(m).builds = m.builds
         /\ Accepted(m).polling = m.polling /\ Accepted(m).queued = m.queued
         /\ Accepted(m).ready = m.ready
         /\ m.control # NoConn => Accepted(m).control = m.control
         /\ ConnsOf(Accepted(m)) \subseteq ConnsOf(m)
<1>1. /\ m.backlog \in Seq(Conns) /\ m.waiting \in Seq(Conns)
      /\ m.ui => m.control # NoConn
  BY DEF GoodMemory, ServerMemory
<1>2. /\ Head(m.backlog) \in ToSet(m.backlog) /\ ToSet(m.backlog) \subseteq Conns
      /\ Tail(m.backlog) \in Seq(Conns) /\ ToSet(Tail(m.backlog)) \subseteq ToSet(m.backlog)
      /\ ToSet(<<>>) = {}
  BY <1>1, InSequence
<1>3. /\ ToSet(m.waiting \o m.backlog) \subseteq ToSet(m.waiting) \cup ToSet(m.backlog)
      /\ ToSet(m.waiting \o Tail(m.backlog)) \subseteq ToSet(m.waiting) \cup ToSet(Tail(m.backlog))
      /\ m.waiting \o m.backlog \in Seq(Conns) /\ m.waiting \o Tail(m.backlog) \in Seq(Conns)
  <2>1. \A r \in Seq(Conns) : /\ ToSet(m.waiting \o r) \subseteq ToSet(m.waiting) \cup ToSet(r)
                             /\ m.waiting \o r \in Seq(Conns)
    <3> SUFFICES ASSUME NEW r \in Seq(Conns)
                 PROVE  /\ ToSet(m.waiting \o r) \subseteq ToSet(m.waiting) \cup ToSet(r)
                        /\ m.waiting \o r \in Seq(Conns)
      OBVIOUS
    <3>1. ToSet(m.waiting \o r) \subseteq ToSet(m.waiting) \cup ToSet(r)
      BY <1>1, Concatenation
    <3>2. m.waiting \o r \in Seq(Conns)
      BY <1>1, ConcatProperties
    <3> QED BY <3>1, <3>2
  <2> QED BY <1>1, <1>2, <2>1
<1> DEFINE n == Accepted(m)
<1>4. CASE m.control = NoConn
  <2>1. n = [m EXCEPT !.control = Head(m.backlog), !.waiting = @ \o Tail(m.backlog),
                      !.backlog = <<>>]
    BY <1>4 DEF Accepted
  <2> HIDE DEF n
  <2>2. n \in ServerMemory /\ n.hadui = m.hadui /\ n.ui = m.ui
    <3>1. <<>> \in Seq(Conns) /\ m \in ServerMemory
      BY DEF GoodMemory
    <3> QED BY <1>2, <1>3, <2>1, <3>1 DEF ServerMemory
  <2>3. /\ n.control = Head(m.backlog) /\ n.backlog = <<>>
        /\ n.waiting = m.waiting \o Tail(m.backlog)
        /\ n.state = m.state /\ n.current = m.current /\ n.builds = m.builds
        /\ n.polling = m.polling /\ n.queued = m.queued /\ n.ready = m.ready
    BY <2>1 DEF GoodMemory, ServerMemory
  <2>4. ConnsOf(n) \subseteq ConnsOf(m)
    BY <1>2, <1>3, <2>3 DEF ConnsOf
  <2> QED BY <1>1, <1>4, <2>2, <2>3, <2>4 DEF GoodMemory, n
<1>5. CASE m.control # NoConn
  <2>1. n = [m EXCEPT !.waiting = @ \o m.backlog, !.backlog = <<>>]
    BY <1>5 DEF Accepted
  <2> HIDE DEF n
  <2>2. n \in ServerMemory /\ n.hadui = m.hadui /\ n.ui = m.ui
    <3>1. <<>> \in Seq(Conns) /\ m \in ServerMemory
      BY DEF GoodMemory
    <3> QED BY <1>2, <1>3, <2>1, <3>1 DEF ServerMemory
  <2>3. /\ n.control = m.control /\ n.backlog = <<>> /\ n.waiting = m.waiting \o m.backlog
        /\ n.state = m.state /\ n.current = m.current /\ n.builds = m.builds
        /\ n.polling = m.polling /\ n.queued = m.queued /\ n.ready = m.ready
    BY <2>1 DEF GoodMemory, ServerMemory
  <2>4. ConnsOf(n) \subseteq ConnsOf(m)
    BY <1>2, <1>3, <2>3 DEF ConnsOf
  <2> QED BY <1>5, <2>2, <2>3, <2>4 DEF GoodMemory, n
<1> QED BY <1>4, <1>5

LEMMA DisconnectedIs ==
  ASSUME NEW m \in GoodMemory
  PROVE  /\ Disconnected(m) \in GoodMemory
         /\ ~Disconnected(m).ui
         /\ Disconnected(m).current = m.current /\ Disconnected(m).builds = m.builds
         /\ Disconnected(m).polling = m.polling /\ Disconnected(m).queued = m.queued
         /\ ConnsOf(Disconnected(m)) \subseteq ConnsOf(m) \cup {NoConn}
<1>1. m.waiting \in Seq(Conns) /\ m.ui \in BOOLEAN
  BY DEF GoodMemory, ServerMemory
<1>2. m.waiting # <<>> =>
        /\ Last(m.waiting) \in ToSet(m.waiting) /\ ToSet(m.waiting) \subseteq Conns
        /\ Front(m.waiting) \in Seq(Conns) /\ ToSet(Front(m.waiting)) \subseteq ToSet(m.waiting)
  BY <1>1, InSequence
<1>3. /\ LeftBy(m) \in ServerMemory /\ ~LeftBy(m).ui
      /\ LeftBy(m).current = m.current /\ LeftBy(m).builds = m.builds
      /\ LeftBy(m).polling = m.polling /\ LeftBy(m).queued = m.queued
      /\ LeftBy(m).backlog = m.backlog /\ LeftBy(m).waiting = m.waiting
  BY <1>1 DEF LeftBy, ClientComplete, GoodMemory, ServerMemory
<1> DEFINE n    == Disconnected(m)
           gone == LeftBy(m)
           idle == gone.quit \/ (Timeout = "none" /\ m.backlog = <<>>)
<1>4. idle \in BOOLEAN
  OBVIOUS
<1>5. CASE m.waiting # <<>>
  <2>1. n = [gone EXCEPT !.control = Last(m.waiting), !.waiting = Front(m.waiting)]
    BY <1>5 DEF Disconnected
  <2> HIDE DEF gone, n
  <2>2. n \in ServerMemory /\ ~n.ui
    BY <1>2, <1>3, <1>5, <2>1 DEF ServerMemory, gone
  <2>3. /\ n.control = Last(m.waiting) /\ n.waiting = Front(m.waiting)
        /\ n.backlog = m.backlog /\ n.current = m.current /\ n.builds = m.builds
        /\ n.polling = m.polling /\ n.queued = m.queued
    BY <1>3, <2>1 DEF ServerMemory, gone
  <2>4. ConnsOf(n) \subseteq ConnsOf(m) \cup {NoConn}
    BY <1>2, <1>5, <2>3 DEF ConnsOf
  <2> QED BY <2>2, <2>3, <2>4 DEF GoodMemory, n
<1>6. CASE m.waiting = <<>>
  <2>1. n = [gone EXCEPT !.control = NoConn, !.quit = idle]
    BY <1>6 DEF Disconnected
  <2> HIDE DEF gone, n, idle
  <2>2. n \in ServerMemory /\ ~n.ui
    BY <1>3, <1>4, <2>1 DEF ServerMemory, gone
  <2>3. /\ n.control = NoConn /\ n.waiting = m.waiting
        /\ n.backlog = m.backlog /\ n.current = m.current /\ n.builds = m.builds
        /\ n.polling = m.polling /\ n.queued = m.queued
    BY <1>3, <2>1 DEF ServerMemory, gone
  <2>4. ConnsOf(n) \subseteq ConnsOf(m) \cup {NoConn}
    BY <2>3 DEF ConnsOf
  <2> QED BY <2>2, <2>3, <2>4 DEF GoodMemory, n
<1> QED BY <1>5, <1>6

LEMMA ReadableTyped == \A m : Readable(m) \in SUBSET {"sock", "controller", "command"}
BY DEF Readable

(* A server at the end of a round: select() returns, and the loop goes on   *)
(* with what it returned, or ends.  Of the memory m the round left, only    *)
(* what select() returned and the events that wait are new.                 *)
Stages == {"none", "starting", "joining", "unlink", "shutdown"} \cup InLoop

KeptBut(m, n) ==
  /\ n.control = m.control /\ n.ui = m.ui /\ n.state = m.state /\ n.current = m.current
  /\ n.polling = m.polling /\ n.builds = m.builds
  /\ n.backlog = m.backlog /\ n.waiting = m.waiting

RoundEnds(s, m) ==
  /\ mem' = [mem EXCEPT ![s] = mem'[s]] /\ mem'[s] \in GoodMemory
  /\ KeptBut(m, mem'[s])
  /\ spc' = [spc EXCEPT ![s] = spc'[s]] /\ spc'[s] \in InLoop \cup {"unlink"}
  /\ StageRight(mem'[s], spc'[s])

LEMMA LoopOrExitRight ==
  ASSUME NEW s \in Servers, NEW n \in GoodMemory, spc \in [Servers -> Stages],
         n.ready = Readable(n), LoopOrExit(s, n)
  PROVE  /\ spc' = [spc EXCEPT ![s] = spc'[s]] /\ spc'[s] \in InLoop \cup {"unlink"}
         /\ StageRight(n, spc'[s])
<1> DEFINE pc == IF n.quit THEN "unlink" ELSE IF "sock" \in n.ready THEN "accept" ELSE AfterAccept(n)
<1>1. spc' = [spc EXCEPT ![s] = pc]
  BY DEF LoopOrExit, SGoes
<1>2. pc \in InLoop \cup {"unlink"}
  BY DEF InLoop, AfterAccept
<1>3. /\ "sock" \in n.ready => n.backlog # <<>>
      /\ "controller" \in n.ready => n.control # NoConn /\ (n.control \in open => n.control \in sent)
      /\ "command" \in n.ready => n.ui
  BY DEF Readable
<1>4. StageRight(n, pc)
  BY <1>3 DEF StageRight, AfterAccept
<1> HIDE DEF pc
<1>5. spc'[s] = pc
  BY <1>1
<1> QED BY <1>1, <1>2, <1>4, <1>5

LEMMA SelectsRight ==
  ASSUME NEW s \in Servers, NEW m \in GoodMemory, mem \in [Servers -> GoodMemory],
         spc \in [Servers -> Stages], Selects(s, m)
  PROVE  RoundEnds(s, m) /\ mem'[s].queued = m.queued
<1> DEFINE n == [m EXCEPT !.ready = Readable(m)]
<1>1. mem' = [mem EXCEPT ![s] = n] /\ LoopOrExit(s, n)
  BY DEF Selects
<1>2. m \in ServerMemory /\ (m.ui => m.control # NoConn /\ m.hadui)
  BY DEF GoodMemory
<1>3. n \in ServerMemory /\ n.hadui = m.hadui /\ n.queued = m.queued /\ n.ready = Readable(m)
  BY <1>2, ReadableTyped DEF ServerMemory
<1>4. KeptBut(m, n)
  BY <1>2 DEF ServerMemory, KeptBut
<1> HIDE DEF n
<1>5. n \in GoodMemory
  BY <1>2, <1>3, <1>4 DEF GoodMemory, KeptBut
<1>6. n.ready = Readable(n)
  BY <1>3, <1>4 DEF Readable, KeptBut
<1>7. mem'[s] = n
  BY <1>1
<1>8. /\ spc' = [spc EXCEPT ![s] = spc'[s]] /\ spc'[s] \in InLoop \cup {"unlink"}
      /\ StageRight(n, spc'[s])
  BY <1>1, <1>5, <1>6, LoopOrExitRight
<1> QED BY <1>1, <1>3, <1>4, <1>5, <1>7, <1>8 DEF RoundEnds

LEMMA FiresAndSelectsRight ==
  ASSUME NEW s \in Servers, NEW m \in GoodMemory, NEW e \in Conns \cup {NoConn},
         mem \in [Servers -> GoodMemory],
         heard \in [Clients -> Conns \cup {NoConn, CookerExit}],
         spc \in [Servers -> Stages], FiresAndSelects(s, m, e)
  PROVE  /\ RoundEnds(s, m)
         /\ mem'[s].queued = (IF m.ui THEN NoConn ELSE FirstOf(m.queued, e))
         /\ heard' \in [Clients -> Conns \cup {NoConn, CookerExit}]
         /\ \A c \in Clients :
              \/ heard'[c] = heard[c]
              \/ /\ m.ui /\ m.control = Conn(c) /\ Conn(c) \in open
                 /\ heard'[c] \in {m.queued, e}
<1> DEFINE n == [m EXCEPT !.ready = Readable(m)]
           q == IF m.ui THEN NoConn ELSE FirstOf(m.queued, e)
           o == [n EXCEPT !.queued = q]
<1>1. m \in ServerMemory /\ (m.ui => m.control # NoConn /\ m.hadui)
  BY DEF GoodMemory
<1>2. /\ n \in ServerMemory /\ n.hadui = m.hadui /\ n.queued = m.queued
      /\ n.ready = Readable(m) /\ KeptBut(m, n)
  BY <1>1, ReadableTyped DEF ServerMemory, KeptBut
<1> HIDE DEF n
<1>3. q \in Conns \cup {NoConn, CookerExit} /\ m.queued \in Conns \cup {NoConn, CookerExit}
  BY <1>1 DEF FirstOf, ServerMemory
<1>4. heard' = Heard(n, e) /\ mem' = [mem EXCEPT ![s] = o] /\ LoopOrExit(s, n)
  BY <1>2 DEF FiresAndSelects, Fire, n, KeptBut
<1> HIDE DEF q
<1>5. o \in ServerMemory /\ o.hadui = m.hadui /\ o.queued = q /\ o.ready = Readable(m)
  BY <1>2, <1>3 DEF ServerMemory
<1>6. KeptBut(m, o)
  BY <1>2 DEF ServerMemory, KeptBut
<1> HIDE DEF o
<1>7. n \in GoodMemory /\ o \in GoodMemory
  BY <1>1, <1>2, <1>5, <1>6 DEF GoodMemory, KeptBut
<1>8. n.ready = Readable(n)
  BY <1>2 DEF Readable, KeptBut
<1>9. /\ spc' = [spc EXCEPT ![s] = spc'[s]] /\ spc'[s] \in InLoop \cup {"unlink"}
      /\ StageRight(n, spc'[s])
  BY <1>4, <1>7, <1>8, LoopOrExitRight
<1>10. StageRight(o, spc'[s])
  BY <1>2, <1>5, <1>6, <1>9 DEF StageRight, KeptBut
<1>11. mem'[s] = o
  BY <1>4
<1>12. RoundEnds(s, m)
  BY <1>4, <1>6, <1>7, <1>9, <1>10, <1>11 DEF RoundEnds
<1>13. \A c \in Clients : heard'[c] =
         IF m.ui /\ m.control = Conn(c) /\ Conn(c) \in open
         THEN FirstOf(heard[c], FirstOf(m.queued, e)) ELSE heard[c]
  BY <1>2, <1>4 DEF Heard, KeptBut
<1>14. heard' \in [Clients -> Conns \cup {NoConn, CookerExit}]
  <2>1. \A c \in Clients : heard'[c] \in Conns \cup {NoConn, CookerExit}
    BY <1>3, <1>13 DEF FirstOf
  <2>2. heard' = [c \in Clients |-> heard'[c]]
    BY <1>4 DEF Heard
  <2> QED BY <2>1, <2>2
<1>15. \A c \in Clients :
         \/ heard'[c] = heard[c]
         \/ /\ m.ui /\ m.control = Conn(c) /\ Conn(c) \in open
            /\ heard'[c] \in {m.queued, e}
  BY <1>13 DEF FirstOf
<1> QED BY <1>5, <1>11, <1>12, <1>14, <1>15 DEF q

-----------------------------------------------------------------------------
(* A step in the loop of a server *)

(* What comes to build in the next round, unless something is in its way.   *)
ComesToBuild(m) == {x \in {m.current} : m.polling /\ m.state = "running"}

(* What such a step leaves alone, and what it may do to the rest.           *)
LoopFrame(s) ==
  /\ UNCHANGED <<lock, sockname, job, cpc, left, rounds, open, stopped, lingering>>
  /\ spc[s] \in InLoop \cup {"joining"}
  /\ spc' = [spc EXCEPT ![s] = spc'[s]] /\ spc'[s] \in InLoop \cup {"joining", "unlink"}
  /\ mem' = [mem EXCEPT ![s] = mem'[s]] /\ mem'[s] \in GoodMemory
  /\ ConnsOf(mem'[s]) \subseteq ConnsOf(mem[s]) \cup {NoConn}
  /\ mem'[s].builds \subseteq mem[s].builds \cup ComesToBuild(mem[s])
  /\ sent' \subseteq sent
  /\ request' \in [Conns -> Commands \cup {"none"}]
  /\ \A x \in Conns : request'[x] \in {request[x], "none"}
  /\ reply' \in [Clients -> {"none", "r", "eof", "ok", "error"}]
  /\ heard' \in [Clients -> Conns \cup {NoConn, CookerExit}]
  /\ \A c \in Clients : heard'[c] \in {heard[c]} \cup ConnsOf(mem[s]) \cup {NoConn}

LoopRight(s) ==
  /\ LoopFrame(s)
  /\ ClientsRight' /\ EventsGoHome'
  /\ StageRight(mem[s], spc[s])' /\ CommandRight(mem[s])'

(* A round with nothing to do but to look after a command and its build     *)
(* leaves its memory so before select() returns.                            *)
IdleMemory(s, m) ==
  /\ m \in GoodMemory /\ CommandRight(m)
  /\ m.control = mem[s].control /\ m.ui = mem[s].ui /\ m.queued = mem[s].queued
  /\ m.backlog = mem[s].backlog /\ m.waiting = mem[s].waiting
  /\ m.current \in {mem[s].current, NoConn}
  /\ m.builds \subseteq mem[s].builds \cup ComesToBuild(mem[s])

LEMMA RoundRight ==
  ASSUME ServerInv, NEW s \in Servers, NEW m, IdleMemory(s, m), RoundEnds(s, m),
         spc[s] = "idle", mem'[s].queued \in {mem[s].queued, mem[s].current, NoConn},
         mem'[s].queued \notin open,
         UNCHANGED <<lock, sockname, clientvars, open, sent, request, reply, stopped, lingering>>
  PROVE  /\ ConnsOf(mem'[s]) \subseteq ConnsOf(mem[s]) \cup {NoConn}
         /\ ClientsRight'
         /\ StageRight(mem[s], spc[s])' /\ CommandRight(mem[s])'
<1>1. ConnsOf(mem'[s]) \subseteq ConnsOf(mem[s]) \cup {NoConn}
  BY DEF IdleMemory, RoundEnds, KeptBut, ConnsOf
<1>2. ClientsRight'
  BY DEF ServerInv, ClientsRight, AnswerRight, clientvars, Conn, Asked
<1>3. StageRight(mem[s], spc[s])'
  BY DEF RoundEnds, StageRight
<1>4. \A c \in Clients : Conn(c)' = Conn(c) /\ (StopHeard(c)' <=> StopHeard(c))
  BY DEF Conn, StopHeard, clientvars
<1>5. CommandRight(mem[s])'
  BY <1>4 DEF IdleMemory, RoundEnds, KeptBut, CommandRight
<1> QED BY <1>1, <1>2, <1>3, <1>5

LEMMA QuietRound ==
  ASSUME ServerInv, NEW s \in Servers, NEW m, IdleMemory(s, m), Selects(s, m),
         spc[s] = "idle",
         UNCHANGED <<lock, sockname, clientvars, wires, lingering>>
  PROVE  LoopRight(s)
<1>1. /\ m \in GoodMemory /\ mem \in [Servers -> GoodMemory] /\ spc \in [Servers -> Stages]
      /\ request \in [Conns -> Commands \cup {"none"}]
      /\ reply \in [Clients -> {"none", "r", "eof", "ok", "error"}]
      /\ heard \in [Clients -> Conns \cup {NoConn, CookerExit}]
  BY DEF IdleMemory, ServerInv, TypesRight, TypeOK, Stages
<1>2. RoundEnds(s, m) /\ mem'[s].queued = m.queued
  BY <1>1, SelectsRight
<1>3. mem'[s].queued = mem[s].queued /\ mem'[s].queued \notin open
  BY <1>2 DEF IdleMemory, CommandRight
<1>4. /\ ConnsOf(mem'[s]) \subseteq ConnsOf(mem[s]) \cup {NoConn}
      /\ ClientsRight'
      /\ StageRight(mem[s], spc[s])' /\ CommandRight(mem[s])'
  BY <1>2, <1>3, RoundRight DEF wires
<1>5. EventsGoHome'
  BY DEF ServerInv, EventsGoHome, wires, clientvars, Conn
<1>6. LoopFrame(s)
  BY <1>1, <1>2, <1>4 DEF LoopFrame, RoundEnds, KeptBut, IdleMemory, wires, clientvars, InLoop
<1> QED BY <1>4, <1>5, <1>6 DEF LoopRight

LEMMA LoudRound ==
  ASSUME ServerInv, NEW s \in Servers, NEW m, NEW e \in {mem[s].current, NoConn},
         IdleMemory(s, m), FiresAndSelects(s, m, e), spc[s] = "idle",
         UNCHANGED <<lock, sockname, clientvars, open, sent, request, reply, stopped, lingering>>
  PROVE  LoopRight(s)
<1>1. /\ m \in GoodMemory /\ mem \in [Servers -> GoodMemory] /\ spc \in [Servers -> Stages]
      /\ request \in [Conns -> Commands \cup {"none"}]
      /\ reply \in [Clients -> {"none", "r", "eof", "ok", "error"}]
      /\ heard \in [Clients -> Conns \cup {NoConn, CookerExit}]
      /\ open \subseteq Conns
  BY DEF IdleMemory, ServerInv, TypesRight, TypeOK, Stages
<1>2. mem[s].current \in Conns \cup {NoConn}
  BY <1>1 DEF GoodMemory, ServerMemory
<1>3. /\ RoundEnds(s, m)
      /\ mem'[s].queued = (IF m.ui THEN NoConn ELSE FirstOf(m.queued, e))
      /\ heard' \in [Clients -> Conns \cup {NoConn, CookerExit}]
      /\ \A c \in Clients :
           \/ heard'[c] = heard[c]
           \/ /\ m.ui /\ m.control = Conn(c) /\ Conn(c) \in open
              /\ heard'[c] \in {m.queued, e}
  <2>1. e \in Conns \cup {NoConn}
    BY <1>2
  <2> QED BY <1>1, <2>1, FiresAndSelectsRight
<1>4. CommandRight(mem[s])
  BY DEF ServerInv, CommandsRight
<1>5. NoConn \notin open
  BY <1>1, ConnsArePairs
<1>6. m.queued = mem[s].queued /\ m.ui = mem[s].ui /\ m.control = mem[s].control
  BY DEF IdleMemory
<1>7. /\ mem'[s].queued \in {mem[s].queued, mem[s].current, NoConn}
      /\ mem'[s].queued \notin open
  BY <1>3, <1>4, <1>5, <1>6 DEF CommandRight, FirstOf
<1>8. /\ ConnsOf(mem'[s]) \subseteq ConnsOf(mem[s]) \cup {NoConn}
      /\ ClientsRight'
      /\ StageRight(mem[s], spc[s])' /\ CommandRight(mem[s])'
  BY <1>3, <1>7, RoundRight
<1>9. EventsGoHome'
  <2> SUFFICES ASSUME NEW c \in Clients, heard'[c] \in Conns, heard'[c] # Conn(c)
               PROVE  heard'[c] \notin open
    BY DEF EventsGoHome, Conn, clientvars
  <2>1. CASE heard'[c] = heard[c]
    BY <2>1 DEF ServerInv, EventsGoHome
  <2>2. CASE m.control = Conn(c) /\ heard'[c] \in {m.queued, e}
    BY <1>4, <1>5, <1>6, <2>2 DEF CommandRight
  <2> QED BY <1>3, <2>1, <2>2
<1>10. \A c \in Clients : heard'[c] \in {heard[c]} \cup ConnsOf(mem[s]) \cup {NoConn}
  BY <1>3, <1>6 DEF ConnsOf
<1>11. LoopFrame(s)
  BY <1>1, <1>3, <1>8, <1>10 DEF LoopFrame, RoundEnds, KeptBut, IdleMemory, clientvars, InLoop
<1> QED BY <1>8, <1>9, <1>11 DEF LoopRight

LEMMA IdleRounds ==
  ASSUME ServerInv, NEW s \in Servers,
         \/ Idles(s) \/ Parses(s) \/ ParsingEnds(s) \/ StartsBuild(s)
         \/ CommandFails(s) \/ BuildEnds(s) \/ BuildRaises(s)
  PROVE  LoopRight(s)
<1> DEFINE m == mem[s]
<1>1. /\ m \in GoodMemory /\ m \in ServerMemory /\ (m.ui => m.control # NoConn /\ m.hadui)
      /\ m.current \in Conns \cup {NoConn} /\ m.builds \subseteq Conns
      /\ open \subseteq Conns
  <2>1. m \in GoodMemory /\ open \subseteq Conns
    BY DEF ServerInv, TypesRight, TypeOK
  <2> QED BY <2>1 DEF GoodMemory, ServerMemory
<1>2. CommandRight(m)
  BY DEF ServerInv, CommandsRight
<1> HIDE DEF m
<1>3. \A c \in Clients : Conn(c) # NoConn
  BY ConnIs DEF ServerInv, TypesRight, TypeOK
<1>4. NoConn \notin open
  BY <1>1, ConnsArePairs
<1>5. CASE Idles(s)
  <2>1. IdleMemory(s, m)
    BY <1>1, <1>2 DEF IdleMemory, m
  <2>2. CASE Selects(s, m) /\ UNCHANGED heard
    BY <1>5, <2>1, <2>2, QuietRound DEF Idles, Others, wires
  <2>3. CASE FiresAndSelects(s, m, NoConn)
    BY <1>5, <2>1, <2>3, LoudRound DEF Idles, Others
  <2> QED BY <1>5, <2>2, <2>3 DEF Idles, m
<1>6. CASE Parses(s) \/ ParsingEnds(s)
  <2>1. PICK st \in {"parsing", "running"} : Selects(s, [m EXCEPT !.state = st])
    BY <1>6 DEF Parses, ParsingEnds, m
  <2>2. spc[s] = "idle" /\ m.state # "shutdown" /\ UNCHANGED <<Others, wires, lingering>>
    BY <1>6 DEF Parses, ParsingEnds, Polls, ToldToStop, m
  <2> DEFINE n == [m EXCEPT !.state = st]
  <2>3. n \in ServerMemory /\ n.hadui = m.hadui /\ n.ui = m.ui /\ n.control = m.control
    BY <1>1 DEF ServerMemory
  <2>4. /\ n.current = m.current /\ n.polling = m.polling /\ n.builds = m.builds
        /\ n.queued = m.queued /\ n.backlog = m.backlog /\ n.waiting = m.waiting
    BY <1>1 DEF ServerMemory
  <2> HIDE DEF n
  <2>5. CommandRight(n)
    BY <1>2, <2>2, <2>3, <2>4 DEF CommandRight
  <2>6. IdleMemory(s, n)
    BY <1>1, <2>3, <2>4, <2>5 DEF IdleMemory, GoodMemory, m
  <2>7. Selects(s, n)
    BY <2>1 DEF n
  <2> QED BY <2>2, <2>6, <2>7, QuietRound DEF Others
<1>7. CASE StartsBuild(s)
  <2> DEFINE n == [m EXCEPT !.builds = @ \cup {m.current}, !.polling = FALSE]
  <2>1. /\ Selects(s, n) /\ spc[s] = "idle" /\ m.polling /\ m.current # NoConn
        /\ m.state = "running"
        /\ UNCHANGED <<Others, wires, lingering>>
    BY <1>7 DEF StartsBuild, Polls, m
  <2>2. /\ n \in ServerMemory /\ n.hadui = m.hadui /\ n.ui = m.ui /\ n.control = m.control
        /\ n.builds = m.builds \cup {m.current} /\ n.polling = FALSE
    BY <1>1, <2>1 DEF ServerMemory
  <2>3. /\ n.current = m.current /\ n.queued = m.queued
        /\ n.backlog = m.backlog /\ n.waiting = m.waiting
    BY <1>1 DEF ServerMemory
  <2> HIDE DEF n
  <2>4. CommandRight(n)
    BY <1>2, <2>1, <2>2, <2>3 DEF CommandRight
  <2>5. IdleMemory(s, n)
    BY <1>1, <2>1, <2>2, <2>3, <2>4 DEF IdleMemory, ComesToBuild, GoodMemory, m
  <2> QED BY <2>1, <2>5, QuietRound DEF Others
<1>8. CASE CommandFails(s)
  <2> DEFINE n == [Finished(m) EXCEPT !.polling = FALSE]
  <2>1. /\ FiresAndSelects(s, n, m.current) /\ spc[s] = "idle" /\ m.polling
        /\ UNCHANGED <<Others, open, sent, request, reply, stopped, lingering>>
    BY <1>8 DEF CommandFails, Polls, m
  <2>2. /\ n \in ServerMemory /\ n.hadui = m.hadui /\ n.ui = m.ui /\ n.control = m.control
        /\ n.builds = m.builds /\ n.polling = FALSE
    BY <1>1 DEF ServerMemory, Finished
  <2>3. /\ n.current = NoConn /\ n.queued = m.queued
        /\ n.backlog = m.backlog /\ n.waiting = m.waiting
    BY <1>1 DEF ServerMemory, Finished
  <2> HIDE DEF n
  <2>4. CommandRight(n)
    BY <1>2, <1>3, <1>4, <2>1, <2>2, <2>3 DEF CommandRight
  <2>5. IdleMemory(s, n)
    BY <1>1, <2>2, <2>3, <2>4 DEF IdleMemory, GoodMemory, m
  <2>6. m.current \in {mem[s].current, NoConn}
    BY DEF m
  <2> QED BY <2>1, <2>5, <2>6, LoudRound DEF Others
<1>9. CASE BuildEnds(s)
  <2>1. PICK b \in m.builds :
          FiresAndSelects(s, [Finished(m) EXCEPT !.builds = @ \ {b}], b)
    BY <1>9 DEF BuildEnds, m
  <2> DEFINE n == [Finished(m) EXCEPT !.builds = @ \ {b}]
  <2>2. /\ spc[s] = "idle" /\ ~m.polling
        /\ UNCHANGED <<Others, open, sent, request, reply, stopped, lingering>>
    BY <1>9 DEF BuildEnds, m
  <2>3. /\ n \in ServerMemory /\ n.hadui = m.hadui /\ n.ui = m.ui /\ n.control = m.control
        /\ n.builds = m.builds \ {b} /\ n.polling = m.polling
    BY <1>1 DEF ServerMemory, Finished
  <2>4. /\ n.current = NoConn /\ n.queued = m.queued
        /\ n.backlog = m.backlog /\ n.waiting = m.waiting
    BY <1>1 DEF ServerMemory, Finished
  <2>5. FiresAndSelects(s, n, b)
    BY <2>1
  <2> HIDE DEF n
  <2>6. b = m.current
    BY <1>2 DEF CommandRight
  <2>7. CommandRight(n)
    BY <1>2, <1>3, <1>4, <2>3, <2>4, <2>6 DEF CommandRight
  <2>8. IdleMemory(s, n)
    BY <1>1, <2>3, <2>4, <2>7 DEF IdleMemory, GoodMemory, m
  <2>9. b \in {mem[s].current, NoConn}
    BY <2>6 DEF m
  <2> QED BY <2>2, <2>5, <2>8, <2>9, LoudRound DEF Others
<1>10. CASE BuildRaises(s)
  <2>1. PICK b \in m.builds : Selects(s, [m EXCEPT !.builds = @ \ {b}, !.quit = TRUE])
    BY <1>10 DEF BuildRaises, m
  <2> DEFINE n == [m EXCEPT !.builds = @ \ {b}, !.quit = TRUE]
  <2>2. spc[s] = "idle" /\ ~m.polling /\ UNCHANGED <<Others, wires, lingering>>
    BY <1>10 DEF BuildRaises, m
  <2>3. /\ n \in ServerMemory /\ n.hadui = m.hadui /\ n.ui = m.ui /\ n.control = m.control
        /\ n.builds = m.builds \ {b} /\ n.polling = m.polling
    BY <1>1 DEF ServerMemory
  <2>4. /\ n.current = m.current /\ n.queued = m.queued /\ n.state = m.state
        /\ n.backlog = m.backlog /\ n.waiting = m.waiting
    BY <1>1 DEF ServerMemory
  <2>5. Selects(s, n)
    BY <2>1
  <2> HIDE DEF n
  <2>6. CommandRight(n)
    BY <1>2, <2>3, <2>4 DEF CommandRight
  <2>7. IdleMemory(s, n)
    BY <1>1, <2>3, <2>4, <2>6 DEF IdleMemory, GoodMemory, m
  <2> QED BY <2>2, <2>5, <2>7, QuietRound DEF Others
<1> QED BY <1>5, <1>6, <1>7, <1>8, <1>9, <1>10

LEMMA AcceptRight ==
  ASSUME ServerInv, NEW s \in Servers, Accept(s)
  PROVE  LoopRight(s)
<1> DEFINE m == mem[s]
           n == Accepted(m)
           pc == AfterAccept(m)
<1>1. /\ m \in GoodMemory /\ mem \in [Servers -> GoodMemory] /\ spc \in [Servers -> Stages]
      /\ request \in [Conns -> Commands \cup {"none"}]
      /\ reply \in [Clients -> {"none", "r", "eof", "ok", "error"}]
      /\ heard \in [Clients -> Conns \cup {NoConn, CookerExit}]
      /\ open \subseteq Conns
  BY DEF ServerInv, TypesRight, TypeOK, Stages
<1>2. CommandRight(m) /\ StageRight(m, "accept") /\ spc[s] = "accept"
  BY DEF ServerInv, CommandsRight, StagesRight, Accept
<1>3. /\ mem' = [mem EXCEPT ![s] = n] /\ spc' = [spc EXCEPT ![s] = pc]
      /\ UNCHANGED <<Others, wires, lingering>>
  BY DEF Accept, SGoes
<1>4. m.backlog # <<>>
  BY <1>2 DEF StageRight
<1> HIDE DEF m
<1>5. /\ n \in GoodMemory
      /\ n.ui = m.ui /\ n.state = m.state
      /\ n.current = m.current /\ n.builds = m.builds
      /\ n.polling = m.polling /\ n.queued = m.queued
      /\ n.ready = m.ready
      /\ m.control # NoConn => n.control = m.control
      /\ ConnsOf(n) \subseteq ConnsOf(m)
  BY <1>1, <1>4, AcceptedIs
<1>6. /\ pc \in {"client", "command", "idle"}
      /\ pc = "client" => "controller" \in m.ready
      /\ pc = "command" => "command" \in m.ready
  BY DEF AfterAccept
<1> HIDE DEF n, pc
<1>7. mem'[s] = n /\ spc'[s] = pc
  BY <1>1, <1>3
<1>8. StageRight(mem[s], spc[s])'
  BY <1>2, <1>3, <1>5, <1>6, <1>7 DEF StageRight, wires
<1>9. NoConn \notin open
  BY <1>1, ConnsArePairs
<1>10. \A c \in Clients : Conn(c)' = Conn(c) /\ (StopHeard(c)' <=> StopHeard(c))
  BY <1>3 DEF Conn, StopHeard, Others, clientvars, wires
<1>11. CommandRight(mem[s])'
  <2>1. /\ n.builds \subseteq {n.current} /\ (n.polling => n.builds = {}) /\ n.queued \notin open
        /\ n.current \in open => n.control = n.current /\ n.ui
    BY <1>2, <1>5, <1>9 DEF CommandRight
  <2>2. \A c \in Clients :
          StopHeard(c) /\ Conn(c) \in open /\ n.current = Conn(c) /\ n.polling
            => n.state = "shutdown"
    BY <1>2, <1>5 DEF CommandRight
  <2> QED BY <1>3, <1>7, <1>10, <2>1, <2>2 DEF CommandRight, wires
<1>12. ClientsRight' /\ EventsGoHome'
  BY <1>3 DEF ServerInv, ClientsRight, AnswerRight, EventsGoHome, Others, clientvars, wires, Conn, Asked
<1>13. LoopFrame(s)
  <2>1. spc' = [spc EXCEPT ![s] = spc'[s]] /\ mem' = [mem EXCEPT ![s] = mem'[s]]
    BY <1>3, <1>7
  <2>2. spc[s] \in InLoop /\ spc'[s] \in InLoop \cup {"unlink"}
    BY <1>2, <1>6, <1>7 DEF InLoop
  <2>3. ConnsOf(mem'[s]) \subseteq ConnsOf(mem[s]) \cup {NoConn}
    BY <1>5, <1>7 DEF m
  <2>4. mem'[s].builds = mem[s].builds
    BY <1>5, <1>7 DEF m
  <2> QED BY <1>1, <1>3, <1>5, <1>7, <2>1, <2>2, <2>3, <2>4 DEF LoopFrame, Others, clientvars, wires
<1> QED BY <1>8, <1>11, <1>12, <1>13 DEF LoopRight

LEMMA ClientRight ==
  ASSUME ServerInv, NEW s \in Servers, Client(s)
  PROVE  LoopRight(s)
<1> DEFINE m == mem[s]
           n == mem'[s]
<1>1. /\ m \in GoodMemory /\ mem \in [Servers -> GoodMemory] /\ spc \in [Servers -> Stages]
      /\ request \in [Conns -> Commands \cup {"none"}]
      /\ reply \in [Clients -> {"none", "r", "eof", "ok", "error"}]
      /\ heard \in [Clients -> Conns \cup {NoConn, CookerExit}]
      /\ open \subseteq Conns /\ sent \subseteq Conns
  BY DEF ServerInv, TypesRight, TypeOK, Stages
<1>2. CommandRight(m) /\ StageRight(m, "client") /\ spc[s] = "client"
  BY DEF ServerInv, CommandsRight, StagesRight, Client
<1>3. /\ spc' = [spc EXCEPT ![s] = IF "command" \in m.ready /\ n.ui THEN "command" ELSE "idle"]
      /\ UNCHANGED <<Others, open, request, reply, heard, stopped, lingering, faults>>
  BY DEF Client, SGoes
<1>4. /\ spc' = [spc EXCEPT ![s] = spc'[s]]
      /\ spc'[s] \in {"command", "idle"} /\ (spc'[s] = "command" => n.ui)
  <2> DEFINE pc == IF "command" \in m.ready /\ n.ui THEN "command" ELSE "idle"
  <2>1. pc \in {"command", "idle"} /\ (pc = "command" => n.ui)
    OBVIOUS
  <2>2. spc' = [spc EXCEPT ![s] = pc]
    BY <1>3
  <2> HIDE DEF pc
  <2> QED BY <1>1, <2>1, <2>2
<1>5. /\ n \in GoodMemory /\ mem' = [mem EXCEPT ![s] = n]
      /\ ConnsOf(n) \subseteq ConnsOf(m) \cup {NoConn}
      /\ n.current = m.current /\ n.builds = m.builds
      /\ n.polling = m.polling /\ n.queued = m.queued
      /\ \/ n.control = m.control /\ n.ui /\ n.state = m.state
         \/ m.current \notin open
      /\ sent' \subseteq sent
  <2>1. CASE m.control \in sent
    <3> DEFINE k == [m EXCEPT !.ui = TRUE, !.hadui = TRUE]
    <3>1. mem' = [mem EXCEPT ![s].ui = TRUE, ![s].hadui = TRUE] /\ sent' = sent \ {m.control}
      BY <2>1 DEF Client
    <3>2. mem' = [mem EXCEPT ![s] = k]
      BY <1>1, <3>1
    <3>3. m \in ServerMemory
      BY <1>1 DEF GoodMemory
    <3>4. k \in ServerMemory /\ k.hadui /\ k.ui /\ k.control = m.control
      BY <3>3 DEF ServerMemory
    <3>5. /\ k.current = m.current /\ k.polling = m.polling /\ k.builds = m.builds
          /\ k.queued = m.queued /\ k.state = m.state
          /\ k.backlog = m.backlog /\ k.waiting = m.waiting
      BY <3>3 DEF ServerMemory
    <3> HIDE DEF k
    <3>6. n = k
      BY <1>1, <3>2
    <3>7. m.control # NoConn
      BY <1>1, <2>1, ConnsArePairs
    <3>8. k \in GoodMemory /\ ConnsOf(k) \subseteq ConnsOf(m) \cup {NoConn}
      BY <3>4, <3>5, <3>7 DEF GoodMemory, ConnsOf
    <3> HIDE DEF m, n
    <3> QED BY <3>1, <3>2, <3>4, <3>5, <3>6, <3>8
  <2>2. CASE m.control \notin sent
    <3> DEFINE k == Disconnected(m)
    <3>1. mem' = [mem EXCEPT ![s] = k] /\ sent' = sent
      BY <2>2 DEF Client
    <3>2. /\ k \in GoodMemory
          /\ k.current = m.current /\ k.builds = m.builds
          /\ k.polling = m.polling /\ k.queued = m.queued
          /\ ConnsOf(k) \subseteq ConnsOf(m) \cup {NoConn}
      BY <1>1, DisconnectedIs
    <3>3. m.control \notin open
      BY <1>2, <2>2 DEF StageRight
    <3>4. m.current \notin open
      BY <1>2, <3>3 DEF CommandRight
    <3> HIDE DEF k
    <3>5. n = k
      BY <1>1, <3>1
    <3> HIDE DEF m, n
    <3> QED BY <3>1, <3>2, <3>4, <3>5
  <2> QED BY <2>1, <2>2
<1>6. StageRight(mem[s], spc[s])'
  BY <1>4 DEF StageRight
<1>7. CommandRight(mem[s])'
  <2>1. /\ n.builds \subseteq {n.current} /\ (n.polling => n.builds = {}) /\ n.queued \notin open
        /\ n.current \in open => n.control = n.current /\ n.ui
    BY <1>2, <1>5 DEF CommandRight
  <2>2. \A c \in Clients :
          StopHeard(c) /\ Conn(c) \in open /\ n.current = Conn(c) /\ n.polling
            => n.state = "shutdown"
    BY <1>2, <1>5 DEF CommandRight
  <2>3. \A c \in Clients : Conn(c)' = Conn(c) /\ (StopHeard(c)' <=> StopHeard(c))
    BY <1>3 DEF Conn, StopHeard, Others, clientvars
  <2> QED BY <1>3, <2>1, <2>2, <2>3 DEF CommandRight
<1>8. ClientsRight' /\ EventsGoHome'
  BY <1>3 DEF ServerInv, ClientsRight, AnswerRight, EventsGoHome, Others, clientvars, Conn, Asked
<1>9. LoopFrame(s)
  BY <1>1, <1>2, <1>3, <1>4, <1>5 DEF LoopFrame, Others, clientvars, InLoop
<1> QED BY <1>6, <1>7, <1>8, <1>9 DEF LoopRight

LEMMA TimesOutRight ==
  ASSUME ServerInv, NEW s \in Servers, TimesOut(s)
  PROVE  LoopRight(s)
<1> DEFINE m == mem[s]
           n == [m EXCEPT !.quit = TRUE]
<1>1. /\ m \in GoodMemory /\ mem \in [Servers -> GoodMemory] /\ spc \in [Servers -> Stages]
      /\ request \in [Conns -> Commands \cup {"none"}]
      /\ reply \in [Clients -> {"none", "r", "eof", "ok", "error"}]
      /\ heard \in [Clients -> Conns \cup {NoConn, CookerExit}]
  BY DEF ServerInv, TypesRight, TypeOK, Stages
<1>2. CommandRight(m) /\ spc[s] = "idle"
  BY DEF ServerInv, CommandsRight, TimesOut
<1>3. mem' = [mem EXCEPT ![s].quit = TRUE] /\ UNCHANGED <<Others, wires, spc, lingering, faults>>
  BY DEF TimesOut
<1>4. mem' = [mem EXCEPT ![s] = n]
  BY <1>1, <1>3
<1>5. m \in ServerMemory /\ (m.ui => m.control # NoConn /\ m.hadui)
  BY <1>1 DEF GoodMemory
<1>6. n \in ServerMemory /\ n.hadui = m.hadui
  BY <1>5 DEF ServerMemory
<1>7. KeptBut(m, n) /\ n.queued = m.queued
  BY <1>5 DEF ServerMemory, KeptBut
<1> HIDE DEF n
<1>8. n \in GoodMemory /\ ConnsOf(n) = ConnsOf(m)
  BY <1>5, <1>6, <1>7 DEF GoodMemory, KeptBut, ConnsOf
<1>9. mem'[s] = n
  BY <1>1, <1>4
<1>10. StageRight(mem[s], spc[s])'
  BY <1>2, <1>3 DEF StageRight
<1>11. CommandRight(mem[s])'
  <2>1. \A c \in Clients : Conn(c)' = Conn(c) /\ (StopHeard(c)' <=> StopHeard(c))
    BY <1>3 DEF Conn, StopHeard, Others, clientvars, wires
  <2>2. CommandRight(n)
    BY <1>2, <1>7 DEF CommandRight, KeptBut
  <2> QED BY <1>3, <1>9, <2>1, <2>2 DEF CommandRight, wires
<1>12. ClientsRight' /\ EventsGoHome'
  BY <1>3 DEF ServerInv, ClientsRight, AnswerRight, EventsGoHome, Others, clientvars, wires, Conn, Asked
<1>13. LoopFrame(s)
  <2>1. spc' = [spc EXCEPT ![s] = spc'[s]] /\ mem' = [mem EXCEPT ![s] = mem'[s]]
    BY <1>1, <1>3, <1>4, <1>9
  <2>2. spc[s] \in InLoop /\ spc'[s] \in InLoop \cup {"unlink"}
    BY <1>2, <1>3 DEF InLoop
  <2>3. mem'[s].builds = mem[s].builds
    BY <1>7, <1>9 DEF KeptBut
  <2> QED BY <1>1, <1>3, <1>8, <1>9, <2>1, <2>2, <2>3 DEF LoopFrame, Others, clientvars, wires
<1> QED BY <1>10, <1>11, <1>12, <1>13 DEF LoopRight

(* The connection a command comes from is its client's only one, if it is   *)
(* still open, and its client waits for the answer, or is about to leave.   *)
LEMMA WhoAsked ==
  ASSUME ServerInv, NEW x \in open, request[x] # "none"
  PROVE  /\ x[1] \in Clients /\ x = Conn(x[1])
         /\ x[1] \notin stopped
         /\ \/ cpc[x[1]] = "leaving"
            \/ /\ cpc[x[1]] \in {"hello", "asked", "stopping"}
               /\ request[x] = Asked(cpc[x[1]]) /\ reply[x[1]] = "none"
<1>1. x \in Conns /\ left \in [Clients -> 0..Retries]
  BY DEF ServerInv, TypesRight, TypeOK
<1>2. x[1] \in Clients /\ x[2] = left[x[1]] /\ cpc[x[1]] \in Talking
  BY <1>1, ConnsArePairs DEF ServerInv, ConnsRight
<1>3. x = Conn(x[1])
  BY <1>1, <1>2, ConnIs
<1> DEFINE c == x[1]
<1> HIDE DEF c
<1>4. c \in Clients /\ cpc[c] \in Talking /\ request[Conn(c)] # "none"
  BY <1>2, <1>3 DEF c
<1>5. /\ c \in stopped => cpc[c] = "listen"
      /\ cpc[c] \in {"sendfds", "session", "listen"} => request[Conn(c)] = "none"
      /\ cpc[c] \in {"hello", "asked", "stopping"} =>
           request[Conn(c)] = "none" \/ (request[Conn(c)] = Asked(cpc[c]) /\ reply[c] = "none")
  BY <1>4 DEF ServerInv, ClientsRight, AnswerRight
<1>6. /\ c \notin stopped
      /\ \/ cpc[c] = "leaving"
         \/ /\ cpc[c] \in {"hello", "asked", "stopping"}
            /\ request[Conn(c)] = Asked(cpc[c]) /\ reply[c] = "none"
  BY <1>4, <1>5 DEF Talking
<1> QED BY <1>2, <1>3, <1>6 DEF c

LEMMA OrderedIs ==
  ASSUME NEW m \in GoodMemory, NEW what \in Commands, m.ui
  PROVE  LET n == IF Refused(m, what) THEN m ELSE Ordered(m, what)
         IN  /\ n \in GoodMemory /\ n.control = m.control /\ n.ui = m.ui
             /\ n.builds = m.builds /\ n.queued = m.queued
             /\ n.backlog = m.backlog /\ n.waiting = m.waiting
             /\ \/ n.current = m.current /\ n.polling = m.polling
                \/ /\ what = "buildTargets" /\ m.current = NoConn /\ n.current = m.control
             /\ \/ n.state = m.state
                \/ n.state = "shutdown"
             /\ what = "stateShutdown" => n.state = "shutdown"
<1> DEFINE n == IF Refused(m, what) THEN m ELSE Ordered(m, what)
<1>1. m \in ServerMemory /\ m.control # NoConn /\ m.hadui
  BY DEF GoodMemory
<1>2. CASE Refused(m, what)
  BY <1>1, <1>2 DEF GoodMemory, Refused
<1>3. CASE ~Refused(m, what) /\ what = "buildTargets"
  <2>1. n = [m EXCEPT !.current = m.control, !.polling = TRUE] /\ m.current = NoConn
    BY <1>3 DEF Ordered, Refused, Busy
  <2> HIDE DEF n
  <2>2. n \in ServerMemory /\ n.hadui = m.hadui /\ n.current = m.control
    BY <1>1, <2>1 DEF ServerMemory
  <2>3. /\ n.control = m.control /\ n.ui = m.ui
        /\ n.builds = m.builds /\ n.queued = m.queued /\ n.state = m.state
        /\ n.backlog = m.backlog /\ n.waiting = m.waiting
    BY <1>1, <2>1 DEF ServerMemory
  <2> QED BY <1>1, <1>3, <2>1, <2>2, <2>3 DEF GoodMemory, n
<1>4. CASE ~Refused(m, what) /\ what = "stateShutdown"
  <2>1. n = [m EXCEPT !.state = "shutdown"]
    BY <1>4 DEF Ordered
  <2> HIDE DEF n
  <2>2. n \in ServerMemory /\ n.hadui = m.hadui /\ n.state = "shutdown"
    BY <1>1, <2>1 DEF ServerMemory
  <2>3. /\ n.control = m.control /\ n.ui = m.ui
        /\ n.builds = m.builds /\ n.queued = m.queued
        /\ n.current = m.current /\ n.polling = m.polling
        /\ n.backlog = m.backlog /\ n.waiting = m.waiting
    BY <1>1, <2>1 DEF ServerMemory
  <2> QED BY <1>1, <1>4, <2>2, <2>3 DEF GoodMemory, n
<1>5. CASE ~Refused(m, what) /\ what = "terminateServer"
  <2>1. n = [m EXCEPT !.quit = TRUE]
    BY <1>5 DEF Ordered
  <2> HIDE DEF n
  <2>2. n \in ServerMemory /\ n.hadui = m.hadui
    BY <1>1, <2>1 DEF ServerMemory
  <2>3. /\ n.control = m.control /\ n.ui = m.ui /\ n.state = m.state
        /\ n.builds = m.builds /\ n.queued = m.queued
        /\ n.current = m.current /\ n.polling = m.polling
        /\ n.backlog = m.backlog /\ n.waiting = m.waiting
    BY <1>1, <2>1 DEF ServerMemory
  <2> QED BY <1>1, <1>5, <2>2, <2>3 DEF GoodMemory, n
<1>6. CASE ~Refused(m, what) /\ what = "setFeatures"
  BY <1>1, <1>6 DEF GoodMemory, Ordered
<1> QED BY <1>2, <1>3, <1>4, <1>5, <1>6 DEF Commands

(* A server does what it was told, at once or when its parsers have ended.  *)
LEMMA ObeysRight ==
  ASSUME ServerInv, NEW s \in Servers, spc[s] \in {"command", "joining"}, Obeys(s),
         UNCHANGED <<Others, open, sent, heard, stopped, lingering, faults>>
  PROVE  LoopRight(s)
<1> DEFINE m == mem[s]
           x == m.control
           what == request[x]
           n == IF Refused(m, what) THEN m ELSE Ordered(m, what)
           answer == IF x \notin open \/ what = "terminateServer" THEN reply[x[1]]
                     ELSE IF Refused(m, what) THEN "error" ELSE "ok"
           pc == IF what = "terminateServer" THEN "unlink" ELSE "idle"
<1>1. /\ m \in GoodMemory /\ mem \in [Servers -> GoodMemory] /\ spc \in [Servers -> Stages]
      /\ request \in [Conns -> Commands \cup {"none"}]
      /\ reply \in [Clients -> {"none", "r", "eof", "ok", "error"}]
      /\ heard \in [Clients -> Conns \cup {NoConn, CookerExit}]
      /\ open \subseteq Conns
  BY DEF ServerInv, TypesRight, TypeOK, Stages
<1>2. CommandRight(m) /\ StageRight(m, spc[s])
  BY DEF ServerInv, CommandsRight, StagesRight
<1>3. /\ what # "none" /\ mem' = [mem EXCEPT ![s] = n]
      /\ request' = [request EXCEPT ![x] = "none"]
      /\ reply' = [reply EXCEPT ![x[1]] = answer]
      /\ spc' = [spc EXCEPT ![s] = pc]
      /\ UNCHANGED <<Others, open, sent, heard, stopped, lingering, faults>>
  <2>1. CASE what = "terminateServer"
    BY <1>1, <2>1 DEF Obeys, SGoes
  <2>2. CASE what # "terminateServer"
    BY <2>2 DEF Obeys, Answered, SGoes
  <2> QED BY <2>1, <2>2
<1>4. m.ui /\ x \in Conns /\ what \in Commands /\ x[1] \in Clients
  <2>1. m.ui
    BY <1>2 DEF StageRight
  <2>2. x \in Conns
    BY <1>1, <2>1 DEF GoodMemory, ServerMemory
  <2> QED BY <1>1, <1>3, <2>1, <2>2, ConnsArePairs
<1>5. x \in open => /\ x = Conn(x[1]) /\ x[1] \notin stopped
                    /\ \/ cpc[x[1]] = "leaving"
                       \/ /\ cpc[x[1]] \in {"hello", "asked", "stopping"}
                          /\ what = Asked(cpc[x[1]]) /\ reply[x[1]] = "none"
  BY <1>3, WhoAsked
<1> HIDE DEF m, x
<1>6. /\ n \in GoodMemory /\ n.control = m.control /\ n.ui = m.ui
      /\ n.builds = m.builds /\ n.queued = m.queued
      /\ n.backlog = m.backlog /\ n.waiting = m.waiting
      /\ \/ n.current = m.current /\ n.polling = m.polling
         \/ /\ what = "buildTargets" /\ m.current = NoConn /\ n.current = x
      /\ n.state = m.state \/ n.state = "shutdown"
      /\ what = "stateShutdown" => n.state = "shutdown"
  BY <1>1, <1>4, OrderedIs DEF x
<1>7. answer \in {"none", "r", "eof", "ok", "error"}
  BY <1>1, <1>4
<1>8. answer # reply[x[1]] => x \in open
  OBVIOUS
<1>9. pc \in {"unlink", "idle"}
  OBVIOUS
<1> HIDE DEF what, n, answer, pc
<1>10. mem'[s] = n /\ spc'[s] = pc
  BY <1>1, <1>3
<1>11. \A c \in Clients : Conn(c)' = Conn(c)
  BY <1>3 DEF Conn, Others, clientvars
<1>12. StageRight(mem[s], spc[s])'
  BY <1>9, <1>10 DEF StageRight
<1>13. NoConn \notin open /\ \A c \in Clients : Conn(c) # NoConn
  BY <1>1, ConnsArePairs, ConnIs DEF ServerInv, TypesRight, TypeOK
<1>14. CommandRight(mem[s])'
  <2>1. /\ n.builds \subseteq {n.current} /\ (n.polling => n.builds = {})
        /\ n.queued \notin open
        /\ n.current \in open => n.control = n.current /\ n.ui
    <3>1. CASE n.current = m.current /\ n.polling = m.polling
      BY <1>2, <1>6, <3>1 DEF CommandRight
    <3>2. CASE m.current = NoConn /\ n.current = x
      <4>1. m.builds = {}
        <5>1. m.builds \subseteq Conns /\ m.builds \subseteq {NoConn}
          BY <1>1, <1>2, <3>2 DEF CommandRight, GoodMemory, ServerMemory
        <5> QED BY <5>1, ConnsArePairs
      <4> QED BY <1>2, <1>4, <1>6, <3>2, <4>1 DEF CommandRight, x
    <3> QED BY <1>6, <3>1, <3>2
  <2>2. ASSUME NEW c \in Clients, StopHeard(c)', Conn(c) \in open, n.current = Conn(c),
               n.polling
        PROVE  n.state = "shutdown"
    <3>1. CASE c = x[1] /\ x \in open
      <4>1. cpc[c] = "stopping"
        BY <1>3, <1>5, <2>2, <3>1 DEF StopHeard, Others, clientvars
      <4> QED BY <1>5, <1>6, <3>1, <4>1 DEF Asked
    <3>2. CASE ~(c = x[1] /\ x \in open)
      <4>1. reply'[c] = reply[c]
        BY <1>1, <1>3, <1>4, <1>8, <3>2
      <4>2. StopHeard(c)
        BY <1>3, <2>2, <4>1 DEF StopHeard, Others, clientvars
      <4>3. n.current # x
        BY <1>5, <2>2, <3>2, ConnIs DEF ServerInv, TypesRight, TypeOK
      <4>4. n.current = m.current /\ n.polling = m.polling
        BY <1>6, <4>3
      <4>5. m.state = "shutdown"
        BY <1>2, <2>2, <4>2, <4>4 DEF CommandRight
      <4> QED BY <1>6, <4>5
    <3> QED BY <3>1, <3>2
  <2> QED BY <1>3, <1>10, <1>11, <2>1, <2>2 DEF CommandRight
<1>15. ClientsRight'
  <2> SUFFICES ASSUME NEW c \in Clients
      PROVE  /\ cpc[c] \notin CEnded => left[c] > 0
             /\ c \in stopped => cpc[c] = "listen"
             /\ cpc[c] \in {"start", "locked", "refused", "wait", "connect"} => reply'[c] = "none"
             /\ cpc[c] \in {"sendfds", "session", "listen"} =>
                  request'[Conn(c)] = "none" /\ reply'[c] = "none"
             /\ cpc[c] \in {"hello", "asked", "stopping"} =>
                  \/ request'[Conn(c)] = "none"
                  \/ request'[Conn(c)] = Asked(cpc[c]) /\ reply'[c] = "none"
    BY <1>3, <1>11 DEF ClientsRight, AnswerRight, Others, clientvars, Asked
  <2>1. /\ cpc[c] \notin CEnded => left[c] > 0
        /\ c \in stopped => cpc[c] = "listen"
        /\ cpc[c] \in {"start", "locked", "refused", "wait", "connect"} => reply[c] = "none"
        /\ cpc[c] \in {"sendfds", "session", "listen"} =>
             request[Conn(c)] = "none" /\ reply[c] = "none"
        /\ cpc[c] \in {"hello", "asked", "stopping"} =>
             request[Conn(c)] = "none" \/ (request[Conn(c)] = Asked(cpc[c]) /\ reply[c] = "none")
    BY DEF ServerInv, ClientsRight, AnswerRight
  <2>2. left[c] > 0 => Conn(c) \in Conns
    BY ConnIs DEF ServerInv, TypesRight, TypeOK
  <2>3. left[c] > 0 => request'[Conn(c)] \in {request[Conn(c)], "none"}
    BY <1>1, <1>3, <2>2
  <2>4. CASE c = x[1] /\ x \in open
    <3>1. request'[Conn(c)] = "none" /\ cpc[c] \in {"hello", "leaving", "asked", "stopping"}
      BY <1>1, <1>3, <1>4, <1>5, <2>4
    <3> QED BY <2>1, <3>1 DEF CEnded
  <2>5. CASE ~(c = x[1] /\ x \in open)
    <3>1. reply'[c] = reply[c]
      BY <1>1, <1>3, <1>4, <1>8, <2>5
    <3> QED BY <2>1, <2>3, <3>1 DEF CEnded
  <2> QED BY <2>4, <2>5
<1>16. EventsGoHome'
  BY <1>3 DEF ServerInv, EventsGoHome, Others, clientvars, Conn
<1>17. LoopFrame(s)
  <2>1. spc' = [spc EXCEPT ![s] = spc'[s]] /\ mem' = [mem EXCEPT ![s] = mem'[s]]
    BY <1>3, <1>10
  <2>2. spc[s] \in InLoop \cup {"joining"} /\ spc'[s] \in InLoop \cup {"unlink"}
    BY <1>9, <1>10 DEF InLoop
  <2>3. ConnsOf(mem'[s]) \subseteq ConnsOf(mem[s]) \cup {NoConn}
    <3>1. ConnsOf(n) \subseteq ConnsOf(m)
      BY <1>6 DEF ConnsOf, x
    <3> QED BY <1>10, <3>1 DEF m
  <2>4. /\ request' \in [Conns -> Commands \cup {"none"}]
        /\ \A y \in Conns : request'[y] \in {request[y], "none"}
        /\ reply' \in [Clients -> {"none", "r", "eof", "ok", "error"}]
    BY <1>1, <1>3, <1>4, <1>7
  <2>5. mem'[s].builds = mem[s].builds
    BY <1>6, <1>10 DEF m
  <2> QED BY <1>1, <1>3, <1>6, <1>10, <2>1, <2>2, <2>3, <2>4, <2>5 DEF LoopFrame, Others, clientvars
<1> QED BY <1>12, <1>14, <1>15, <1>16, <1>17 DEF LoopRight

(* A server that waits for its parsers has done nothing yet.                *)
LEMMA CommandStepRight ==
  ASSUME ServerInv, NEW s \in Servers, Command(s) \/ Joined(s)
  PROVE  LoopRight(s)
<1>1. CASE spc[s] \in {"command", "joining"} /\ Obeys(s)
  BY <1>1, ObeysRight DEF Command, Joined
<1>2. CASE Command(s) /\ SGoes(s, "joining") /\ UNCHANGED <<mem, request, reply>>
  <2>1. /\ mem[s] \in GoodMemory /\ mem \in [Servers -> GoodMemory] /\ spc \in [Servers -> Stages]
        /\ request \in [Conns -> Commands \cup {"none"}]
        /\ reply \in [Clients -> {"none", "r", "eof", "ok", "error"}]
        /\ heard \in [Clients -> Conns \cup {NoConn, CookerExit}]
    BY DEF ServerInv, TypesRight, TypeOK, Stages
  <2>2. /\ spc[s] = "command" /\ spc' = [spc EXCEPT ![s] = "joining"] /\ spc'[s] = "joining"
        /\ UNCHANGED <<mem, request, reply>>
        /\ UNCHANGED <<Others, open, sent, heard, stopped, lingering, faults>>
    BY <1>2, <2>1 DEF Command, SGoes
  <2>3. CommandRight(mem[s]) /\ StageRight(mem[s], "command")
    BY <2>2 DEF ServerInv, CommandsRight, StagesRight
  <2>4. StageRight(mem[s], spc[s])'
    BY <2>2, <2>3 DEF StageRight
  <2>5. CommandRight(mem[s])'
    <3>1. \A c \in Clients : Conn(c)' = Conn(c) /\ (StopHeard(c)' <=> StopHeard(c))
      BY <2>2 DEF Conn, StopHeard, Others, clientvars
    <3> QED BY <2>2, <2>3, <3>1 DEF CommandRight
  <2>6. ClientsRight' /\ EventsGoHome'
    BY <2>2 DEF ServerInv, ClientsRight, AnswerRight, EventsGoHome, Others, clientvars, Conn, Asked
  <2>7. LoopFrame(s)
    <3>1. mem' = [mem EXCEPT ![s] = mem'[s]] /\ spc' = [spc EXCEPT ![s] = spc'[s]]
      BY <2>1, <2>2
    <3>2. spc[s] \in InLoop /\ spc'[s] \in InLoop \cup {"joining", "unlink"}
      BY <2>2 DEF InLoop
    <3> QED BY <2>1, <2>2, <3>1, <3>2 DEF LoopFrame, Others, clientvars
  <2> QED BY <2>4, <2>5, <2>6, <2>7 DEF LoopRight
<1> QED BY <1>1, <1>2 DEF Command, Joined

LoopStep(s) == \/ Accept(s) \/ Client(s) \/ Command(s) \/ Joined(s) \/ TimesOut(s)
               \/ Idles(s) \/ Parses(s) \/ ParsingEnds(s) \/ StartsBuild(s)
               \/ CommandFails(s) \/ BuildEnds(s) \/ BuildRaises(s)

LEMMA LoopStepRight ==
  ASSUME ServerInv, NEW s \in Servers, LoopStep(s)
  PROVE  LoopRight(s)
BY AcceptRight, ClientRight, CommandStepRight, TimesOutRight, IdleRounds DEF LoopStep

-----------------------------------------------------------------------------
(* A step of a server *)

(* A server that remembers nothing has nothing wrong with it.               *)
LEMMA NobodyServed ==
  ASSUME NEW s, mem'[s] = NewServer(NoStarter), open' \subseteq Conns
  PROVE  CommandRight(mem[s])'
<1>1. NoConn \notin open'
  BY ConnsArePairs
<1>2. /\ mem'[s].current = NoConn /\ mem'[s].queued = NoConn /\ mem'[s].builds = {}
      /\ mem'[s].polling = FALSE
  BY DEF NewServer
<1> QED BY <1>1, <1>2 DEF CommandRight

LEMMA MemoryTyped ==
  ASSUME mem' \in [Servers -> GoodMemory]
  PROVE  \A s \in Servers :
           /\ mem'[s].control \in Conns \cup {NoConn} /\ mem'[s].current \in Conns \cup {NoConn}
           /\ mem'[s].builds \subseteq Conns /\ mem'[s].queued \in Conns \cup {NoConn, CookerExit}
           /\ mem'[s].state \in {"initial", "parsing", "running", "shutdown"}
           /\ mem'[s].ui => mem'[s].control # NoConn /\ mem'[s].hadui
<1> SUFFICES ASSUME NEW s \in Servers
    PROVE  /\ mem'[s].control \in Conns \cup {NoConn} /\ mem'[s].current \in Conns \cup {NoConn}
           /\ mem'[s].builds \subseteq Conns /\ mem'[s].queued \in Conns \cup {NoConn, CookerExit}
           /\ mem'[s].state \in {"initial", "parsing", "running", "shutdown"}
           /\ mem'[s].ui => mem'[s].control # NoConn /\ mem'[s].hadui
  OBVIOUS
<1>1. mem'[s] \in GoodMemory
  OBVIOUS
<1> QED BY <1>1 DEF GoodMemory, ServerMemory

(* There is one server: the others have ended, and remember nothing.        *)
LEMMA OthersEnded ==
  ASSUME ServerInv, NEW s \in Servers, spc[s] # "none"
  PROVE  /\ lock = s /\ lock \notin Clients /\ lock \notin {NoServer, Remover}
         /\ \A t \in Servers \ {s} : spc[t] = "none" /\ mem[t] = NewServer(NoStarter)
<1>1. lock = s
  BY DEF ServerInv, LockRight
<1>2. lock \notin Clients /\ lock \notin {NoServer, Remover}
  BY <1>1, ProcessServerAssumption
<1>3. \A t \in Servers \ {s} : spc[t] = "none" /\ mem[t] = NewServer(NoStarter)
  BY <1>1 DEF ServerInv, LockRight
<1> QED BY <1>1, <1>2, <1>3

LEMMA LoopKeeps ==
  ASSUME ServerInv, NEW s \in Servers, LoopStep(s)
  PROVE  ServerInv'
<1>1. LoopFrame(s) /\ ClientsRight' /\ EventsGoHome'
      /\ StageRight(mem[s], spc[s])' /\ CommandRight(mem[s])'
  BY LoopStepRight DEF LoopRight
<1>2. /\ TypeOK /\ mem \in [Servers -> GoodMemory]
      /\ heard \in [Clients -> Conns \cup {NoConn, CookerExit}]
      /\ spc \in [Servers -> Stages] /\ open \subseteq Conns
  BY DEF ServerInv, TypesRight, TypeOK, Stages
<1>3. spc[s] # "none"
  BY <1>1 DEF LoopFrame, InLoop
<1>4. /\ lock = s /\ lock \notin Clients /\ lock \notin {NoServer, Remover}
      /\ \A t \in Servers \ {s} : spc[t] = "none" /\ mem[t] = NewServer(NoStarter)
  BY <1>3, OthersEnded
<1>5. /\ mem' \in [Servers -> GoodMemory] /\ spc' \in [Servers -> Stages]
      /\ \A t \in Servers \ {s} : spc'[t] = "none" /\ mem'[t] = NewServer(NoStarter)
  BY <1>1, <1>2, <1>4 DEF LoopFrame, Stages
<1>6. TypesRight'
  <2>1. TypeOK'
    BY <1>1, <1>2, <1>5, MemoryTyped DEF TypeOK, LoopFrame, Stages
  <2> QED BY <1>1, <1>5, <2>1 DEF TypesRight, LoopFrame
<1>7. LockRight'
  <2>1. spc[s] \in Listening => sockname = s
    BY DEF ServerInv, LockRight
  <2>2. spc[s] \in Listening
    BY <1>1 DEF LoopFrame, Listening
  <2> QED BY <1>1, <1>4, <1>5, <2>1, <2>2 DEF ServerInv, LockRight, LoopFrame, Listening, InLoop
<1>8. ConnsRight'
  <2>1. \A x \in Conns : Used(x)' <=> Used(x)
    BY <1>1 DEF Used, LoopFrame
  <2>2. \A x \in open' : x[2] = left'[x[1]] /\ cpc'[x[1]] \in Talking
    BY <1>1 DEF LoopFrame, ServerInv, ConnsRight
  <2>3. \A x \in sent' : Used(x)'
    BY <1>1, <1>2, <2>1 DEF LoopFrame, ServerInv, ConnsRight, TypeOK
  <2>4. \A x \in Conns : request'[x] # "none" => Used(x)'
    BY <1>1, <2>1 DEF LoopFrame, ServerInv, ConnsRight
  <2>5. \A x \in ConnsOf(mem[s]) \cap Conns : Used(x)'
    BY <2>1 DEF ServerInv, ConnsRight
  <2>6. NoConn \notin Conns
    BY ConnsArePairs
  <2>7. \A t \in Servers : \A x \in ConnsOf(mem'[t]) \cap Conns : Used(x)'
    <3>1. \A x \in ConnsOf(mem'[s]) \cap Conns : Used(x)'
      BY <1>1, <2>5, <2>6 DEF LoopFrame
    <3>2. \A t \in Servers \ {s} : mem'[t] = mem[t]
      BY <1>4, <1>5
    <3>3. \A t \in Servers \ {s} : \A x \in ConnsOf(mem'[t]) \cap Conns : Used(x)'
      BY <2>1, <3>2 DEF ServerInv, ConnsRight
    <3> QED BY <3>1, <3>3
  <2>8. \A c \in Clients : heard'[c] \in Conns => Used(heard[c])'
    BY <1>1, <2>1, <2>5, <2>6 DEF LoopFrame, ServerInv, ConnsRight
  <2> QED BY <2>2, <2>3, <2>4, <2>7, <2>8 DEF ConnsRight
<1>9. StagesRight'
  <2>1. \A t \in Servers \ {s} : StageRight(mem[t], spc[t])'
    BY <1>5 DEF StageRight
  <2> QED BY <1>1, <2>1 DEF StagesRight
<1>10. CommandsRight'
  <2>1. \A t \in Servers \ {s} : CommandRight(mem[t])'
    BY <1>1, <1>2, <1>5, NobodyServed DEF LoopFrame
  <2> QED BY <1>1, <2>1 DEF CommandsRight
<1> QED BY <1>1, <1>6, <1>7, <1>8, <1>9, <1>10 DEF ServerInv

(* What the end of a process does to those it served: what it held is lost, *)
(* a client that waits for it to start hears of it, and a user interface    *)
(* hears CookerExit.                                                        *)
LEMMA AnswersRight ==
  ASSUME ServerInv, NEW c, NEW a \in {"r", "eof"}, Answers(c, a)
  PROVE  /\ reply' \in [Clients -> {"none", "r", "eof", "ok", "error"}]
         /\ \A d \in Clients : cpc[d] # "ready" => reply'[d] = reply[d]
BY DEF Answers, ServerInv, TypesRight, TypeOK

LEMMA ClientsUndisturbed ==
  ASSUME ServerInv, UNCHANGED <<clientvars, stopped>>,
         \A d \in Clients : cpc[d] # "ready" => reply'[d] = reply[d],
         \A x \in Conns : request'[x] \in {request[x], "none"}
  PROVE  /\ ClientsRight'
         /\ \A c \in Clients : Conn(c)' = Conn(c) /\ (StopHeard(c)' <=> StopHeard(c))
<1>1. \A c \in Clients : Conn(c)' = Conn(c) /\ (StopHeard(c)' <=> StopHeard(c))
  BY DEF Conn, StopHeard, clientvars
<1>2. ClientsRight'
  <2> SUFFICES ASSUME NEW c \in Clients
      PROVE  /\ cpc[c] \notin CEnded => left[c] > 0
             /\ c \in stopped => cpc[c] = "listen"
             /\ cpc[c] \in {"start", "locked", "refused", "wait", "connect"} => reply'[c] = "none"
             /\ cpc[c] \in {"sendfds", "session", "listen"} =>
                  request'[Conn(c)] = "none" /\ reply'[c] = "none"
             /\ cpc[c] \in {"hello", "asked", "stopping"} =>
                  \/ request'[Conn(c)] = "none"
                  \/ request'[Conn(c)] = Asked(cpc[c]) /\ reply'[c] = "none"
    BY <1>1 DEF ClientsRight, AnswerRight, clientvars, Asked
  <2>1. /\ cpc[c] \notin CEnded => left[c] > 0
        /\ c \in stopped => cpc[c] = "listen"
        /\ cpc[c] \in {"start", "locked", "refused", "wait", "connect"} => reply[c] = "none"
        /\ cpc[c] \in {"sendfds", "session", "listen"} =>
             request[Conn(c)] = "none" /\ reply[c] = "none"
        /\ cpc[c] \in {"hello", "asked", "stopping"} =>
             request[Conn(c)] = "none" \/ (request[Conn(c)] = Asked(cpc[c]) /\ reply[c] = "none")
    BY DEF ServerInv, ClientsRight, AnswerRight
  <2>2. left[c] > 0 => Conn(c) \in Conns
    BY ConnIs DEF ServerInv, TypesRight, TypeOK
  <2>3. left[c] > 0 => request'[Conn(c)] \in {request[Conn(c)], "none"}
    BY <2>2
  <2> QED BY <2>1, <2>3 DEF CEnded
<1> QED BY <1>1, <1>2

LEMMA GoneKeeps ==
  ASSUME ServerInv, NEW s \in Servers, spc[s] # "none",
         Gone(s), LetsGo(s), SGoes(s, "none"),
         UNCHANGED <<sockname, clientvars, open, stopped>>,
         lingering' \in {lingering, lingering + 1},
         \/ UNCHANGED reply
         \/ Answers(mem[s].starter, "eof"),
         \/ UNCHANGED heard
         \/ heard' = Heard(mem[s], CookerExit)
  PROVE  ServerInv'
<1> DEFINE m == mem[s]
<1>1. /\ TypeOK /\ mem \in [Servers -> GoodMemory] /\ m \in GoodMemory /\ m \in ServerMemory
      /\ heard \in [Clients -> Conns \cup {NoConn, CookerExit}]
      /\ request \in [Conns -> Commands \cup {"none"}]
      /\ spc \in [Servers -> Stages] /\ open \subseteq Conns /\ sent \subseteq Conns
  BY DEF ServerInv, TypesRight, TypeOK, Stages, GoodMemory
<1>2. /\ lock = s /\ lock \notin Clients /\ lock \notin {NoServer, Remover}
      /\ \A t \in Servers \ {s} : spc[t] = "none" /\ mem[t] = NewServer(NoStarter)
  BY OthersEnded
<1>3. /\ mem' \in [Servers -> GoodMemory] /\ spc' \in [Servers -> Stages]
      /\ \A t \in Servers : spc'[t] = "none" /\ mem'[t] = NewServer(NoStarter)
  BY <1>1, <1>2, NewServerGood DEF Gone, SGoes, Stages
<1>4. /\ sent' \subseteq sent /\ request' \in [Conns -> Commands \cup {"none"}]
      /\ \A x \in Conns : request'[x] \in {request[x], "none"}
  BY <1>1 DEF Gone
<1>5. /\ reply' \in [Clients -> {"none", "r", "eof", "ok", "error"}]
      /\ \A d \in Clients : cpc[d] # "ready" => reply'[d] = reply[d]
  BY <1>1, AnswersRight DEF TypeOK
<1>6. /\ ClientsRight'
      /\ \A c \in Clients : Conn(c)' = Conn(c)
  BY <1>4, <1>5, ClientsUndisturbed
<1>7. \A c \in Clients : heard'[c] \in {heard[c], m.queued, CookerExit}
  BY DEF Heard, FirstOf
<1>8. heard' \in [Clients -> Conns \cup {NoConn, CookerExit}]
  <2>1. m.queued \in Conns \cup {NoConn, CookerExit}
    BY <1>1 DEF ServerMemory
  <2>2. heard' = [c \in Clients |-> heard'[c]]
    BY <1>1 DEF Heard
  <2> QED BY <1>1, <1>7, <2>1, <2>2
<1>9. lock' = NoServer /\ UNCHANGED <<sockname, job, cpc, left, rounds, open, stopped>>
  BY <1>2 DEF LetsGo, clientvars
<1>10. TypesRight'
  <2>1. lingering' \in Nat
    BY <1>1 DEF TypeOK
  <2>2. TypeOK'
    BY <1>1, <1>3, <1>4, <1>5, <1>8, <1>9, <2>1, MemoryTyped DEF TypeOK, Stages
  <2> QED BY <1>3, <1>8, <2>2 DEF TypesRight
<1>11. LockRight'
  <2>1. \A c \in Clients : cpc'[c] # "locked"
    BY <1>2, <1>9 DEF ServerInv, LockRight
  <2> QED BY <1>3, <1>9, <2>1, ProcessServerAssumption DEF LockRight, Listening, InLoop
<1>12. ConnsRight'
  <2>1. \A x \in Conns : Used(x)' <=> Used(x)
    BY <1>9 DEF Used
  <2>2. \A x \in open' : x[2] = left'[x[1]] /\ cpc'[x[1]] \in Talking
    BY <1>9 DEF ServerInv, ConnsRight
  <2>3. (\A x \in sent' : Used(x)') /\ \A x \in Conns : request'[x] # "none" => Used(x)'
    BY <1>1, <1>4, <2>1 DEF ServerInv, ConnsRight
  <2>4. NoConn \notin Conns /\ CookerExit \notin Conns
    BY ConnsArePairs
  <2>5. \A t \in Servers : \A x \in ConnsOf(mem'[t]) \cap Conns : Used(x)'
    <3>1. ConnsOf(NewServer(NoStarter)) \subseteq {NoConn}
      BY DEF ConnsOf, NewServer, ToSet
    <3> QED BY <1>3, <2>4, <3>1
  <2>6. \A x \in {m.queued} \cap Conns : Used(x)'
    BY <2>1 DEF ServerInv, ConnsRight, ConnsOf
  <2>7. \A c \in Clients : heard'[c] \in Conns => Used(heard[c])'
    BY <1>7, <2>1, <2>4, <2>6 DEF ServerInv, ConnsRight
  <2> QED BY <2>2, <2>3, <2>5, <2>7 DEF ConnsRight
<1>13. StagesRight'
  BY <1>3 DEF StagesRight, StageRight
<1>14. CommandsRight'
  BY <1>1, <1>3, <1>9, NobodyServed DEF CommandsRight
<1>15. EventsGoHome'
  <2>1. m.queued \notin open
    BY DEF ServerInv, CommandsRight, CommandRight
  <2>2. CookerExit \notin open
    BY <1>1, ConnsArePairs
  <2> QED BY <1>6, <1>7, <1>9, <2>1, <2>2 DEF ServerInv, EventsGoHome
<1> QED BY <1>6, <1>10, <1>11, <1>12, <1>13, <1>14, <1>15 DEF ServerInv

(* A server is up: who started it hears of it.                              *)
StartsUp(s) ==
  /\ SGoes(s, "idle") /\ Answers(mem[s].starter, "r")
  /\ mem' = [mem EXCEPT ![s].starter = NoStarter]

LEMMA StartsUpKeeps ==
  ASSUME ServerInv, NEW s \in Servers, spc[s] = "starting", StartsUp(s),
         UNCHANGED <<lock, sockname, clientvars, open, sent, request, heard, stopped, lingering>>
  PROVE  ServerInv'
<1> DEFINE m == mem[s]
           n == [m EXCEPT !.starter = NoStarter]
<1>1. /\ TypeOK /\ mem \in [Servers -> GoodMemory] /\ m \in GoodMemory /\ m \in ServerMemory
      /\ heard \in [Clients -> Conns \cup {NoConn, CookerExit}]
      /\ spc \in [Servers -> Stages] /\ open \subseteq Conns
  BY DEF ServerInv, TypesRight, TypeOK, Stages, GoodMemory
<1>2. /\ lock = s /\ lock \notin Clients /\ lock \notin {NoServer, Remover}
      /\ \A t \in Servers \ {s} : spc[t] = "none" /\ mem[t] = NewServer(NoStarter)
  BY OthersEnded
<1>3. mem' = [mem EXCEPT ![s] = n]
  BY <1>1 DEF StartsUp
<1>4. n \in ServerMemory /\ n.hadui = m.hadui /\ KeptBut(m, n) /\ n.queued = m.queued
  BY <1>1 DEF ServerMemory, KeptBut
<1> HIDE DEF n
<1>5. n \in GoodMemory /\ ConnsOf(n) = ConnsOf(m)
  BY <1>1, <1>4 DEF GoodMemory, KeptBut, ConnsOf
<1>6. mem'[s] = n /\ spc'[s] = "idle"
  BY <1>1, <1>3 DEF StartsUp, SGoes
<1>7. /\ mem' \in [Servers -> GoodMemory] /\ spc' \in [Servers -> Stages]
      /\ \A t \in Servers \ {s} : spc'[t] = "none" /\ mem'[t] = mem[t]
  BY <1>1, <1>2, <1>3, <1>5 DEF StartsUp, SGoes, Stages, InLoop
<1>8. /\ reply' \in [Clients -> {"none", "r", "eof", "ok", "error"}]
      /\ \A d \in Clients : cpc[d] # "ready" => reply'[d] = reply[d]
  BY AnswersRight DEF StartsUp
<1>9. /\ ClientsRight'
      /\ \A c \in Clients : Conn(c)' = Conn(c) /\ (StopHeard(c)' <=> StopHeard(c))
  BY <1>8, ClientsUndisturbed
<1>10. TypesRight'
  <2>1. TypeOK'
    BY <1>1, <1>7, <1>8, MemoryTyped DEF TypeOK, Stages, clientvars
  <2> QED BY <1>1, <1>7, <2>1 DEF TypesRight
<1>11. LockRight'
  BY <1>2, <1>6, <1>7 DEF ServerInv, LockRight, Listening, clientvars
<1>12. ConnsRight'
  <2>1. \A x \in Conns : Used(x)' <=> Used(x)
    BY DEF Used, clientvars
  <2>2. \A t \in Servers : ConnsOf(mem'[t]) = ConnsOf(mem[t])
    BY <1>5, <1>6, <1>7
  <2>3. \A t \in Servers : \A x \in ConnsOf(mem'[t]) \cap Conns : Used(x)'
    BY <2>1, <2>2 DEF ServerInv, ConnsRight
  <2>4. (\A x \in sent' : Used(x)') /\ \A x \in Conns : request'[x] # "none" => Used(x)'
    BY <1>1, <2>1 DEF ServerInv, ConnsRight, TypeOK
  <2>5. \A c \in Clients : heard'[c] \in Conns => Used(heard[c])'
    BY <2>1 DEF ServerInv, ConnsRight
  <2>6. \A x \in open' : x[2] = left'[x[1]] /\ cpc'[x[1]] \in Talking
    BY DEF ServerInv, ConnsRight, clientvars
  <2> QED BY <2>3, <2>4, <2>5, <2>6 DEF ConnsRight
<1>13. StagesRight'
  BY <1>6, <1>7 DEF StagesRight, StageRight
<1>14. CommandsRight'
  <2>1. CommandRight(m)
    BY DEF ServerInv, CommandsRight
  <2>2. CommandRight(mem[s])'
    BY <1>4, <1>6, <1>9, <2>1 DEF CommandRight, KeptBut
  <2>3. \A t \in Servers \ {s} : CommandRight(mem[t])'
    BY <1>1, <1>2, <1>7, NobodyServed
  <2> QED BY <2>2, <2>3 DEF CommandsRight
<1>15. EventsGoHome'
  BY <1>9 DEF ServerInv, EventsGoHome
<1> QED BY <1>9, <1>10, <1>11, <1>12, <1>13, <1>14, <1>15 DEF ServerInv

LEMMA RemovesSocketKeeps ==
  ASSUME ServerInv, NEW s \in Servers, RemovesSocket(s)
  PROVE  ServerInv'
<1> DEFINE m == mem[s]
           n == [m EXCEPT !.backlog = <<>>, !.ready = {}]
<1>1. /\ TypeOK /\ mem \in [Servers -> GoodMemory] /\ m \in GoodMemory /\ m \in ServerMemory
      /\ heard \in [Clients -> Conns \cup {NoConn, CookerExit}]
      /\ request \in [Conns -> Commands \cup {"none"}]
      /\ spc \in [Servers -> Stages] /\ open \subseteq Conns
  BY DEF ServerInv, TypesRight, TypeOK, Stages, GoodMemory
<1>2. /\ lock = s /\ lock \notin Clients /\ lock \notin {NoServer, Remover}
      /\ \A t \in Servers \ {s} : spc[t] = "none" /\ mem[t] = NewServer(NoStarter)
  BY OthersEnded DEF RemovesSocket
<1>3. mem' = [mem EXCEPT ![s] = n]
  BY <1>1 DEF RemovesSocket
<1>4. /\ n \in ServerMemory /\ n.hadui = m.hadui /\ n.queued = m.queued
      /\ n.control = m.control /\ n.ui = m.ui /\ n.state = m.state /\ n.current = m.current
      /\ n.polling = m.polling /\ n.builds = m.builds
      /\ n.backlog = <<>> /\ n.waiting = m.waiting
  <2>1. <<>> \in Seq(Conns)
    OBVIOUS
  <2> QED BY <1>1, <2>1 DEF ServerMemory
<1> HIDE DEF n
<1>5. n \in GoodMemory
  BY <1>1, <1>4 DEF GoodMemory
<1>6. ConnsOf(n) \subseteq ConnsOf(m)
  BY <1>4 DEF ConnsOf, ToSet
<1>7. mem'[s] = n /\ spc'[s] = "shutdown"
  BY <1>1, <1>3 DEF RemovesSocket, SGoes
<1>8. /\ mem' \in [Servers -> GoodMemory] /\ spc' \in [Servers -> Stages]
      /\ \A t \in Servers \ {s} : spc'[t] = "none" /\ mem'[t] = mem[t]
  BY <1>1, <1>2, <1>3, <1>5 DEF RemovesSocket, SGoes, Stages
<1>9. /\ sent' \subseteq sent /\ request' \in [Conns -> Commands \cup {"none"}]
      /\ \A x \in Conns : request'[x] \in {request[x], "none"}
  BY <1>1 DEF RemovesSocket
<1>10. UNCHANGED <<lock, job, cpc, left, rounds, open, reply, heard, stopped, lingering>>
       /\ sockname' = NoServer
  BY DEF RemovesSocket, clientvars
<1>11. /\ ClientsRight'
       /\ \A c \in Clients : Conn(c)' = Conn(c) /\ (StopHeard(c)' <=> StopHeard(c))
  BY <1>9, <1>10, ClientsUndisturbed DEF clientvars
<1>12. TypesRight'
  <2>1. TypeOK'
    BY <1>1, <1>8, <1>9, <1>10, MemoryTyped DEF TypeOK, Stages
  <2> QED BY <1>1, <1>8, <1>10, <2>1 DEF TypesRight
<1>13. LockRight'
  BY <1>2, <1>7, <1>8, <1>10 DEF ServerInv, LockRight, Listening, InLoop
<1>14. ConnsRight'
  <2>1. \A x \in Conns : Used(x)' <=> Used(x)
    BY <1>10 DEF Used
  <2>2. \A t \in Servers : ConnsOf(mem'[t]) \subseteq ConnsOf(mem[t])
    BY <1>6, <1>7, <1>8
  <2>3. \A t \in Servers : \A x \in ConnsOf(mem'[t]) \cap Conns : Used(x)'
    BY <2>1, <2>2 DEF ServerInv, ConnsRight
  <2>4. (\A x \in sent' : Used(x)') /\ \A x \in Conns : request'[x] # "none" => Used(x)'
    BY <1>1, <1>9, <2>1 DEF ServerInv, ConnsRight, TypeOK
  <2>5. \A c \in Clients : heard'[c] \in Conns => Used(heard[c])'
    BY <1>10, <2>1 DEF ServerInv, ConnsRight
  <2>6. \A x \in open' : x[2] = left'[x[1]] /\ cpc'[x[1]] \in Talking
    BY <1>10 DEF ServerInv, ConnsRight
  <2> QED BY <2>3, <2>4, <2>5, <2>6 DEF ConnsRight
<1>15. StagesRight'
  BY <1>7, <1>8 DEF StagesRight, StageRight
<1>16. CommandsRight'
  <2>1. CommandRight(m)
    BY DEF ServerInv, CommandsRight
  <2>2. CommandRight(mem[s])'
    BY <1>4, <1>7, <1>10, <1>11, <2>1 DEF CommandRight
  <2>3. \A t \in Servers \ {s} : CommandRight(mem[t])'
    BY <1>1, <1>2, <1>8, <1>10, NobodyServed
  <2> QED BY <2>2, <2>3 DEF CommandsRight
<1>17. EventsGoHome'
  BY <1>10, <1>11 DEF ServerInv, EventsGoHome
<1> QED BY <1>11, <1>12, <1>13, <1>14, <1>15, <1>16, <1>17 DEF ServerInv

(* A server that removes the lock file takes the lock and lets go of it.    *)
LEMMA RemoverKeeps ==
  ASSUME ServerInv, Relocks \/ ServerEnds
  PROVE  ServerInv'
<1>1. /\ UNCHANGED <<sockname, job, cpc, left, rounds, open, sent, request, reply, heard, stopped>>
      /\ UNCHANGED <<spc, mem>>
      /\ lingering' \in Nat
      /\ \/ lock = NoServer /\ lock' = Remover /\ lingering' > 0
         \/ lock = Remover /\ lock' = NoServer
  <2>1. lingering \in Nat
    BY DEF ServerInv, TypesRight, TypeOK
  <2>2. lock = Remover => lingering > 0
    BY DEF ServerInv, LockRight
  <2>3. CASE Relocks
    BY <2>1, <2>3 DEF Relocks, GetsLock, clientvars, wires, servervars
  <2>4. CASE ServerEnds
    BY <2>1, <2>2, <2>4 DEF ServerEnds, LetsGo, clientvars, wires
  <2> QED BY <2>3, <2>4
<1>2. \A c \in Clients : Conn(c)' = Conn(c) /\ (StopHeard(c)' <=> StopHeard(c))
  BY <1>1 DEF Conn, StopHeard
<1>3. TypesRight'
  BY <1>1, ProcessServerAssumption DEF ServerInv, TypesRight, TypeOK
<1>4. LockRight'
  BY <1>1, ProcessServerAssumption DEF ServerInv, LockRight
<1>5. ConnsRight'
  <2>1. \A x : Used(x)' <=> Used(x)
    BY <1>1 DEF Used
  <2> QED BY <1>1, <2>1 DEF ServerInv, ConnsRight
<1>6. ClientsRight' /\ EventsGoHome'
  BY <1>1, <1>2 DEF ServerInv, ClientsRight, AnswerRight, EventsGoHome, Asked
<1>7. StagesRight' /\ CommandsRight'
  BY <1>1, <1>2 DEF ServerInv, StagesRight, StageRight, CommandsRight, CommandRight
<1> QED BY <1>3, <1>4, <1>5, <1>6, <1>7 DEF ServerInv

-----------------------------------------------------------------------------
(* A step of a client *)

(* What a client does is about itself and its own connection: it makes one  *)
(* or closes it, asks only over one it has made, forgets what it heard when *)
(* it tries again, and has the answer to what it asked last.                *)
ClientMoved(c) ==
  /\ job' = job
  /\ cpc' = [cpc EXCEPT ![c] = cpc'[c]] /\ left' = [left EXCEPT ![c] = left'[c]]
  /\ reply' = [reply EXCEPT ![c] = reply'[c]] /\ heard' = [heard EXCEPT ![c] = heard'[c]]
  /\ cpc'[c] \in {"start", "locked", "refused", "ready", "wait", "connect"} \cup Connected
  /\ rounds' \in [Clients -> 0..WaitRounds]
  /\ left'[c] \in 0..Retries
  /\ \/ left'[c] = left[c] /\ (cpc[c] \in Connected => cpc'[c] \in Connected)
     \/ left'[c] = left[c] - 1 /\ Conn(c) \notin open' /\ heard'[c] = NoConn
  /\ reply'[c] \in {"none", "r", "eof", "ok", "error"}
  /\ heard'[c] \in {heard[c], NoConn}
  /\ stopped' \subseteq Clients /\ stopped' \ {c} = stopped \ {c}
  /\ AnswerRight(c)' /\ (StopHeard(c)' => StopHeard(c))
  /\ open' \subseteq open \cup {Conn(c)}
  /\ Conn(c) \in open' => /\ Conn(c) \in open \/ cpc[c] = "connect"
                          /\ cpc'[c] \in Talking
  /\ sent' = sent \/ (cpc[c] \in Talking /\ sent' = sent \cup {Conn(c)})
  /\ \/ request' = request
     \/ /\ cpc[c] \in Talking
        /\ request' = [request EXCEPT ![Conn(c)] = request'[Conn(c)]]
        /\ request'[Conn(c)] \in Commands \cup {"none"}

(* A client starts a server, or is one more in front of a socket, or leaves *)
(* the servers alone.                                                       *)
ServersKept(c) ==
  /\ spc' \in [Servers -> Stages] /\ mem' \in [Servers -> GoodMemory]
  /\ \A s \in Servers :
       \/ spc'[s] = "starting" /\ mem'[s] = NewServer(c)
       \/ /\ spc'[s] = spc[s]
          /\ mem'[s].control = mem[s].control /\ mem'[s].ready = mem[s].ready
          /\ mem'[s].ui = mem[s].ui /\ mem'[s].state = mem[s].state
          /\ mem'[s].current = mem[s].current /\ mem'[s].polling = mem[s].polling
          /\ mem'[s].builds = mem[s].builds /\ mem'[s].queued = mem[s].queued
          /\ mem[s].backlog # <<>> => mem'[s].backlog # <<>>
          /\ \/ ConnsOf(mem'[s]) \subseteq ConnsOf(mem[s])
             \/ /\ Conn(c) \in open'
                /\ ConnsOf(mem'[s]) \subseteq ConnsOf(mem[s]) \cup {Conn(c)}

(* A connection that was made stays so.                                     *)
LEMMA UsedStays ==
  ASSUME ServerInv, NEW c \in Clients, ClientMoved(c)
  PROVE  \A x \in Conns : Used(x) => Used(x)'
<1>1. left \in [Clients -> 0..Retries] /\ cpc \in [Clients -> {"start", "locked", "refused", "ready", "wait", "connect"} \cup Connected]
  BY DEF ServerInv, TypesRight, TypeOK, Connected, Talking
<1> SUFFICES ASSUME NEW x \in Conns, Used(x)
             PROVE  Used(x)'
  OBVIOUS
<1>2. x[1] \in Clients /\ x[2] \in 1..Retries
  BY ConnsArePairs
<1>3. CASE x[1] # c
  <2>1. left'[x[1]] = left[x[1]] /\ cpc'[x[1]] = cpc[x[1]]
    BY <1>1, <1>2, <1>3 DEF ClientMoved
  <2> QED BY <2>1 DEF Used
<1>4. CASE x[1] = c
  <2>1. \/ left'[c] = left[c] /\ (cpc[c] \in Connected => cpc'[c] \in Connected)
        \/ left'[c] = left[c] - 1
    BY DEF ClientMoved
  <2>2. left[c] \in Nat /\ x[2] \in Nat
    BY <1>1, <1>2
  <2> QED BY <1>4, <2>1, <2>2 DEF Used
<1> QED BY <1>3, <1>4

LEMMA ClientKeeps ==
  ASSUME ServerInv, NEW c \in Clients, ClientMoved(c), ServersKept(c), LockRight',
         lock' \in Clients \cup Servers \cup {NoServer, Remover},
         sockname' \in Servers \cup {NoServer}, UNCHANGED lingering
  PROVE  ServerInv'
<1>1. /\ TypeOK /\ mem \in [Servers -> GoodMemory]
      /\ heard \in [Clients -> Conns \cup {NoConn, CookerExit}]
      /\ request \in [Conns -> Commands \cup {"none"}]
      /\ cpc \in [Clients -> {"start", "locked", "refused", "ready", "wait", "connect"} \cup Connected]
      /\ left \in [Clients -> 0..Retries]
      /\ reply \in [Clients -> {"none", "r", "eof", "ok", "error"}]
      /\ open \subseteq Conns /\ sent \subseteq Conns
  BY DEF ServerInv, TypesRight, TypeOK, Connected, Talking
<1>2. /\ Conn(c)[1] = c /\ Conn(c)[2] = left[c] /\ Conn(c) # NoConn
      /\ left[c] > 0 => Conn(c) \in Conns
      /\ cpc[c] \notin CEnded => left[c] > 0
  BY <1>1, ConnIs DEF ServerInv, ClientsRight, AnswerRight
<1>3. \A d \in Clients \ {c} :
        /\ cpc'[d] = cpc[d] /\ left'[d] = left[d] /\ reply'[d] = reply[d] /\ heard'[d] = heard[d]
        /\ d \in stopped' <=> d \in stopped
        /\ Conn(d)' = Conn(d) /\ Conn(d) # Conn(c)
  <2> SUFFICES ASSUME NEW d \in Clients \ {c}
      PROVE  /\ cpc'[d] = cpc[d] /\ left'[d] = left[d] /\ reply'[d] = reply[d]
             /\ heard'[d] = heard[d]
             /\ d \in stopped' <=> d \in stopped
             /\ Conn(d)' = Conn(d) /\ Conn(d) # Conn(c)
    OBVIOUS
  <2>1. /\ cpc'[d] = cpc[d] /\ left'[d] = left[d] /\ reply'[d] = reply[d]
        /\ heard'[d] = heard[d] /\ (d \in stopped' <=> d \in stopped)
    BY <1>1 DEF ClientMoved
  <2>2. Conn(d)' = Conn(d) /\ Conn(d) # Conn(c)
    BY <1>1, <2>1, ConnIs DEF Conn
  <2> QED BY <2>1, <2>2
<1>4. cpc[c] = "connect" => Conn(c) \in Conns /\ ~Used(Conn(c))
  BY <1>1, <1>2 DEF Used, Connected, Talking, CEnded
<1>5. cpc[c] \in Talking => Conn(c) \in Conns /\ Used(Conn(c))
  BY <1>1, <1>2 DEF Used, Connected, Talking, CEnded
<1>6. /\ open' \subseteq Conns /\ NoConn \notin open'
      /\ \A x \in open' : x \in open \/ (x = Conn(c) /\ ~Used(x))
      /\ Conn(c) \in open' => left'[c] = left[c] /\ cpc'[c] \in Talking
  <2>1. Conn(c) \in open => cpc[c] \in Talking
    BY <1>2 DEF ServerInv, ConnsRight
  <2>2. Conn(c) \in open' => Conn(c) \in open \/ cpc[c] = "connect"
    BY DEF ClientMoved
  <2>3. open' \subseteq Conns
    BY <1>1, <1>4, <2>2 DEF ClientMoved
  <2> QED BY <1>4, <2>2, <2>3, ConnsArePairs DEF ClientMoved
<1>7. \A x \in Conns : Used(x) => Used(x)'
  BY UsedStays
<1>8. /\ sent' \subseteq Conns /\ request' \in [Conns -> Commands \cup {"none"}]
      /\ \A x \in Conns : request'[x] = request[x] \/ (x = Conn(c) /\ cpc[c] \in Talking)
      /\ \A x \in sent' : x \in sent \/ (x = Conn(c) /\ cpc[c] \in Talking)
      /\ sent \subseteq sent'
  BY <1>1, <1>5 DEF ClientMoved
<1>9. heard' \in [Clients -> Conns \cup {NoConn, CookerExit}]
  BY <1>1 DEF ClientMoved
<1>10. TypesRight'
  <2>1. /\ cpc' \in [Clients -> {"start", "locked", "refused", "ready", "wait", "connect"} \cup Connected]
        /\ left' \in [Clients -> 0..Retries] /\ rounds' \in [Clients -> 0..WaitRounds]
        /\ reply' \in [Clients -> {"none", "r", "eof", "ok", "error"}] /\ stopped' \subseteq Clients
        /\ job' \in Jobs /\ lingering' \in Nat
    BY <1>1 DEF ClientMoved, TypeOK
  <2>2. spc' \in [Servers -> Stages] /\ mem' \in [Servers -> GoodMemory]
    BY DEF ServersKept
  <2>3. TypeOK'
    BY <1>6, <1>8, <1>9, <2>1, <2>2, MemoryTyped DEF TypeOK, Stages, Connected, Talking
  <2> QED BY <1>9, <2>2, <2>3 DEF TypesRight
<1>11. \A s \in Servers : \A x \in ConnsOf(mem[s]) : x \in open' => x \in open
  BY <1>6 DEF ServerInv, ConnsRight
<1>12. ConnsRight'
  <2>1. \A x \in open' : x[2] = left'[x[1]] /\ cpc'[x[1]] \in Talking
    <3> SUFFICES ASSUME NEW x \in open'
                 PROVE  x[2] = left'[x[1]] /\ cpc'[x[1]] \in Talking
      OBVIOUS
    <3>1. CASE x = Conn(c)
      BY <1>2, <1>6, <3>1
    <3>2. CASE x # Conn(c)
      <4>1. x \in open /\ x \in Conns
        BY <1>6, <3>2
      <4>2. x[1] \in Clients /\ x[2] = left[x[1]] /\ cpc[x[1]] \in Talking
        BY <4>1, ConnsArePairs DEF ServerInv, ConnsRight
      <4>3. x[1] # c
        BY <1>1, <3>2, <4>1, <4>2, ConnIs
      <4> QED BY <1>3, <4>2, <4>3
    <3> QED BY <3>1, <3>2
  <2>2. \A x \in sent' : Used(x)'
    BY <1>1, <1>5, <1>7, <1>8 DEF ServerInv, ConnsRight
  <2>3. \A x \in Conns : request'[x] # "none" => Used(x)'
    BY <1>5, <1>7, <1>8 DEF ServerInv, ConnsRight
  <2>4. \A s \in Servers : \A x \in ConnsOf(mem'[s]) \cap Conns : Used(x)'
    <3> SUFFICES ASSUME NEW s \in Servers, NEW x \in ConnsOf(mem'[s]) \cap Conns
                 PROVE  Used(x)'
      OBVIOUS
    <3>1. CASE mem'[s] = NewServer(c)
      <4>1. ConnsOf(NewServer(c)) \subseteq {NoConn}
        BY DEF ConnsOf, NewServer, ToSet
      <4> QED BY <3>1, <4>1, ConnsArePairs
    <3>2. CASE x \in ConnsOf(mem[s])
      BY <1>7, <3>2 DEF ServerInv, ConnsRight
    <3>3. CASE x = Conn(c) /\ Conn(c) \in open'
      BY <1>2, <1>6, <3>3 DEF Used, Connected
    <3> QED BY <3>1, <3>2, <3>3 DEF ServersKept
  <2>5. \A d \in Clients : heard'[d] \in Conns => Used(heard[d])' /\ heard'[d] = heard[d]
    <3>1. \A d \in Clients : heard'[d] \in {heard[d], NoConn}
      BY <1>3 DEF ClientMoved
    <3> QED BY <1>7, <3>1, ConnsArePairs DEF ServerInv, ConnsRight
  <2> QED BY <2>1, <2>2, <2>3, <2>4, <2>5 DEF ConnsRight
<1>13. ClientsRight'
  <2>1. AnswerRight(c)'
    BY DEF ClientMoved
  <2>2. \A d \in Clients \ {c} : AnswerRight(d)'
    <3> SUFFICES ASSUME NEW d \in Clients \ {c}
                 PROVE  AnswerRight(d)'
      OBVIOUS
    <3>1. AnswerRight(d)
      BY DEF ServerInv, ClientsRight
    <3>2. left[d] > 0 => request'[Conn(d)] = request[Conn(d)]
      BY <1>1, <1>3, <1>8, ConnIs
    <3> QED BY <1>3, <3>1, <3>2 DEF AnswerRight, Asked, CEnded
  <2> QED BY <2>1, <2>2 DEF ClientsRight
<1>14. StagesRight'
  <2> SUFFICES ASSUME NEW s \in Servers
               PROVE  StageRight(mem[s], spc[s])'
    BY DEF StagesRight
  <2>1. CASE spc'[s] = "starting"
    BY <2>1 DEF StageRight
  <2>2. CASE spc'[s] # "starting"
    <3>1. /\ spc'[s] = spc[s]
          /\ mem'[s].control = mem[s].control /\ mem'[s].ready = mem[s].ready
          /\ mem'[s].ui = mem[s].ui /\ (mem[s].backlog # <<>> => mem'[s].backlog # <<>>)
      BY <2>2 DEF ServersKept
    <3>2. StageRight(mem[s], spc[s])
      BY DEF ServerInv, StagesRight
    <3>3. mem[s].control \in open' => mem[s].control \in open
      BY <1>11 DEF ConnsOf
    <3> QED BY <1>8, <3>1, <3>2, <3>3 DEF StageRight
  <2> QED BY <2>1, <2>2
<1>15. CommandsRight'
  <2> SUFFICES ASSUME NEW s \in Servers
               PROVE  CommandRight(mem[s])'
    BY DEF CommandsRight
  <2>1. CASE mem'[s] = NewServer(c)
    <3>1. /\ mem'[s].current = NoConn /\ mem'[s].queued = NoConn /\ mem'[s].builds = {}
          /\ mem'[s].polling = FALSE
      BY <2>1 DEF NewServer
    <3> QED BY <1>6, <3>1 DEF CommandRight
  <2>2. CASE mem'[s] # NewServer(c)
    <3>1. /\ mem'[s].control = mem[s].control
          /\ mem'[s].ui = mem[s].ui /\ mem'[s].state = mem[s].state
          /\ mem'[s].current = mem[s].current /\ mem'[s].polling = mem[s].polling
          /\ mem'[s].builds = mem[s].builds /\ mem'[s].queued = mem[s].queued
      BY <2>2 DEF ServersKept
    <3>2. CommandRight(mem[s])
      BY DEF ServerInv, CommandsRight
    <3>3. /\ mem[s].current \in open' => mem[s].current \in open
          /\ mem[s].queued \in open' => mem[s].queued \in open
      BY <1>11 DEF ConnsOf
    <3>4. ASSUME NEW d \in Clients, StopHeard(d)', Conn(d)' \in open', mem[s].current = Conn(d)',
                 mem[s].polling
          PROVE  mem[s].state = "shutdown"
      <4>1. mem[s].current \in open
        BY <3>3, <3>4
      <4>2. Conn(d)' = Conn(d)
        <5>1. CASE d = c
          <6>1. left'[c] = left[c]
            <7>1. Conn(c)' = <<c, left'[c]>> /\ Conn(c)' \in open
              BY <3>4, <4>1, <5>1 DEF Conn
            <7>2. left'[c] = left[c]
              BY <7>1 DEF ServerInv, ConnsRight
            <7> QED BY <7>2
          <6> QED BY <5>1, <6>1 DEF Conn
        <5> QED BY <1>3, <5>1
      <4>3. StopHeard(d)
        <5>1. CASE d = c
          BY <3>4, <5>1 DEF ClientMoved
        <5>2. CASE d # c
          BY <1>3, <3>4, <5>2 DEF StopHeard
        <5> QED BY <5>1, <5>2
      <4> QED BY <3>2, <3>4, <4>1, <4>2, <4>3 DEF CommandRight
    <3> QED BY <3>1, <3>2, <3>3, <3>4 DEF CommandRight
  <2> QED BY <2>1, <2>2
<1>16. EventsGoHome'
  <2> SUFFICES ASSUME NEW d \in Clients, heard'[d] \in Conns, heard'[d] # Conn(d)'
               PROVE  heard'[d] \notin open'
    BY DEF EventsGoHome
  <2>1. heard'[d] = heard[d]
    BY <1>3, ConnsArePairs DEF ClientMoved
  <2>2. Conn(d)' = Conn(d)
    <3>1. CASE d = c
      <4>1. left'[c] = left[c]
        BY <3>1, ConnsArePairs DEF ClientMoved
      <4> QED BY <3>1, <4>1 DEF Conn
    <3> QED BY <1>3, <3>1
  <2>3. heard[d] \notin open /\ Used(heard[d])
    BY <2>1, <2>2 DEF ServerInv, EventsGoHome, ConnsRight
  <2> QED BY <1>6, <2>1, <2>3
<1> QED BY <1>10, <1>12, <1>13, <1>14, <1>15, <1>16 DEF ServerInv

LEMMA ClientTypes ==
  ASSUME ServerInv
  PROVE  /\ cpc \in [Clients -> {"start", "locked", "refused", "ready", "wait", "connect"} \cup Connected]
         /\ left \in [Clients -> 0..Retries] /\ rounds \in [Clients -> 0..WaitRounds]
         /\ reply \in [Clients -> {"none", "r", "eof", "ok", "error"}]
         /\ heard \in [Clients -> Conns \cup {NoConn, CookerExit}]
         /\ request \in [Conns -> Commands \cup {"none"}]
         /\ open \subseteq Conns /\ stopped \subseteq Clients
         /\ mem \in [Servers -> GoodMemory] /\ spc \in [Servers -> Stages]
BY DEF ServerInv, TypesRight, TypeOK, Connected, Talking, Stages

LEMMA ServersAlone ==
  ASSUME ServerInv, NEW c \in Clients, UNCHANGED <<spc, mem>>
  PROVE  ServersKept(c)
BY ClientTypes DEF ServersKept

LEMMA LockAlone ==
  ASSUME ServerInv, NEW c \in Clients, UNCHANGED <<lock, sockname, spc, mem, lingering>>,
         cpc' = [cpc EXCEPT ![c] = cpc'[c]], cpc'[c] # "locked"
  PROVE  /\ LockRight'
         /\ lock' \in Clients \cup Servers \cup {NoServer, Remover}
         /\ sockname' \in Servers \cup {NoServer}
<1>1. \A d \in Clients : cpc'[d] = "locked" => cpc[d] = "locked"
  BY ClientTypes
<1>2. LockRight'
  BY <1>1 DEF ServerInv, LockRight
<1> QED BY <1>2 DEF ServerInv, TypesRight, TypeOK

(* Where a client that has a connection, or none yet, tries again.          *)
LEMMA TriesMoves ==
  ASSUME ServerInv, NEW c \in Clients, TriesAgain(c),
         cpc[c] \notin CEnded \cup {"listen", "stopping"},
         UNCHANGED <<job, rounds, sent, request, stopped>>
  PROVE  ClientMoved(c) /\ cpc'[c] # "locked"
<1>1. left[c] > 0 /\ c \notin stopped
  BY DEF ServerInv, ClientsRight, AnswerRight, CEnded
<1>2. /\ left' = [left EXCEPT ![c] = left[c] - 1] /\ left'[c] = left[c] - 1
      /\ left[c] \in 0..Retries /\ left'[c] \in 0..Retries
  BY <1>1, ClientTypes, ProcessServerAssumption DEF TriesAgain
<1>3. /\ cpc' = [cpc EXCEPT ![c] = cpc'[c]] /\ cpc'[c] \in {"failed", "start"}
      /\ cpc'[c] = "start" => left'[c] > 0
  <2>1. CASE left[c] = 1
    BY <2>1, ClientTypes DEF TriesAgain, CGoes
  <2>2. CASE left[c] # 1
    BY <1>1, <1>2, <2>2, ClientTypes DEF TriesAgain, CGoes
  <2> QED BY <2>1, <2>2
<1>4. /\ open' = open \ {Conn(c)}
      /\ reply' = [reply EXCEPT ![c] = "none"] /\ reply'[c] = "none"
      /\ heard' = [heard EXCEPT ![c] = NoConn] /\ heard'[c] = NoConn
  BY ClientTypes DEF TriesAgain, Closes
<1>5. AnswerRight(c)'
  BY <1>1, <1>3, <1>4 DEF AnswerRight, CEnded
<1>6. ~StopHeard(c)'
  BY <1>1, <1>3 DEF StopHeard
<1> QED BY <1>2, <1>3, <1>4, <1>5, <1>6, ClientTypes DEF ClientMoved, Connected, CEnded

(* Where a client goes on over the connection it has.                       *)
LEMMA TalkMoves ==
  ASSUME ServerInv, NEW c \in Clients, cpc[c] \in Talking,
         CGoes(c, cpc'[c]), cpc'[c] \in Talking,
         reply' = [reply EXCEPT ![c] = reply'[c]],
         reply'[c] \in {"none", "r", "eof", "ok", "error"},
         AnswerRight(c)', StopHeard(c)' => StopHeard(c),
         stopped' \subseteq Clients, stopped' \ {c} = stopped \ {c},
         \/ request' = request
         \/ \E what \in Commands : request' = [request EXCEPT ![Conn(c)] = what],
         sent' = sent \/ sent' = sent \cup {Conn(c)},
         UNCHANGED <<job, left, rounds, open, heard>>
  PROVE  ClientMoved(c)
<1>1. left[c] > 0
  BY DEF ServerInv, ClientsRight, AnswerRight, Talking, CEnded
<1>2. Conn(c) \in Conns
  BY <1>1, ClientTypes, ConnIs
<1>3. \/ request' = request
      \/ /\ request' = [request EXCEPT ![Conn(c)] = request'[Conn(c)]]
         /\ request'[Conn(c)] \in Commands \cup {"none"}
  BY <1>2, ClientTypes
<1>4. /\ left' = [left EXCEPT ![c] = left'[c]] /\ heard' = [heard EXCEPT ![c] = heard'[c]]
      /\ left'[c] \in 0..Retries
  BY ClientTypes
<1> QED BY <1>3, <1>4, ClientTypes DEF ClientMoved, CGoes, Connected

(* Where a client leaves: it closes its connection, and asks nothing more   *)
(* over it.                                                                 *)
LEMMA LeaveMoves ==
  ASSUME ServerInv, NEW c \in Clients, CGoes(c, cpc'[c]), cpc'[c] \in CEnded, Closes(c),
         c \notin stopped', stopped' \subseteq Clients, stopped' \ {c} = stopped \ {c},
         UNCHANGED <<job, left, rounds, sent, request>>
  PROVE  ClientMoved(c)
<1>1. /\ open' = open \ {Conn(c)}
      /\ reply' = [reply EXCEPT ![c] = "none"] /\ reply'[c] = "none"
      /\ heard' = [heard EXCEPT ![c] = NoConn] /\ heard'[c] = NoConn
  BY ClientTypes DEF Closes
<1>2. AnswerRight(c)'
  BY DEF AnswerRight, CEnded
<1>3. ~StopHeard(c)'
  BY DEF StopHeard, CEnded
<1>4. left' = [left EXCEPT ![c] = left'[c]] /\ left'[c] \in 0..Retries
  BY ClientTypes
<1> QED BY <1>1, <1>2, <1>3, <1>4, ClientTypes DEF ClientMoved, CGoes, Connected

(* Where a client has no connection yet.                                    *)
LEMMA StartMoves ==
  ASSUME ServerInv, NEW c \in Clients, CGoes(c, cpc'[c]),
         cpc[c] \in {"start", "locked", "refused", "ready", "wait"},
         cpc'[c] \in {"locked", "refused", "ready", "wait", "connect", "failed", "done"},
         \/ cpc[c] # "ready" /\ reply' = reply
         \/ reply' = [reply EXCEPT ![c] = "none"],
         rounds' \in [Clients -> 0..WaitRounds],
         UNCHANGED <<job, left, open, sent, request, heard, stopped>>
  PROVE  ClientMoved(c)
<1>1. AnswerRight(c)
  BY DEF ServerInv, ClientsRight
<1>2. left[c] > 0 /\ c \notin stopped
  BY <1>1 DEF AnswerRight, CEnded
<1>3. Conn(c) \notin open
  <2>1. Conn(c)[1] = c
    BY ClientTypes, ConnIs
  <2> QED BY <2>1 DEF ServerInv, ConnsRight, Talking
<1>4. /\ reply' = [reply EXCEPT ![c] = reply'[c]] /\ reply'[c] \in {"none", "r", "eof", "ok", "error"}
      /\ left' = [left EXCEPT ![c] = left'[c]] /\ left'[c] \in 0..Retries
      /\ heard' = [heard EXCEPT ![c] = heard'[c]]
  BY ClientTypes
<1>5. cpc[c] # "ready" => reply[c] = "none"
  BY <1>1 DEF AnswerRight
<1>6. reply'[c] = "none"
  BY <1>5, ClientTypes
<1>7. AnswerRight(c)'
  BY <1>2, <1>6 DEF AnswerRight, CEnded
<1>8. ~StopHeard(c)'
  BY <1>2 DEF StopHeard
<1> QED BY <1>3, <1>4, <1>7, <1>8, ClientTypes DEF ClientMoved, CGoes, Connected, Talking, CEnded

LEMMA StartKeeps ==
  ASSUME ServerInv, NEW c \in Clients,
         LocksBitbake(c) \/ NotRunning(c) \/ HearsOfServer(c) \/ LooksForSocket(c)
           \/ WaitsForLock(c) \/ GivesUpWaiting(c)
  PROVE  ServerInv'
<1>1. UNCHANGED <<sockname, spc, mem, lingering>>
  BY DEF LocksBitbake, NotRunning, HearsOfServer, LooksForSocket, WaitsForLock, GivesUpWaiting,
         servervars
<1>2. ServersKept(c)
  BY <1>1, ServersAlone
<1>3. /\ lock \in Clients \cup Servers \cup {NoServer, Remover}
      /\ sockname' \in Servers \cup {NoServer}
      /\ c \notin Servers /\ c # Remover /\ c # NoServer
      /\ NoServer \notin Servers /\ NoServer \notin Clients /\ NoServer # Remover
  BY <1>1, ProcessServerAssumption DEF ServerInv, TypesRight, TypeOK
<1>4. CASE LocksBitbake(c)
  <2>1. PICK pc \in {"locked", "refused"} :
          /\ cpc' = [cpc EXCEPT ![c] = pc]
          /\ \/ pc = "locked" /\ lock = NoServer /\ lock' = c
             \/ pc = "refused" /\ lock' = lock
    BY <1>4 DEF LocksBitbake, GetsLock, CGoes
  <2>2. cpc'[c] = pc /\ cpc[c] = "start"
    BY <1>4, <2>1, ClientTypes DEF LocksBitbake
  <2>3. ClientMoved(c)
    BY <1>4, <2>1, <2>2, StartMoves, ClientTypes DEF LocksBitbake, CGoes, wires
  <2>4. LockRight'
    <3>1. \A d \in Clients : cpc'[d] = "locked" => cpc[d] = "locked" \/ (d = c /\ pc = "locked")
      BY <2>1, ClientTypes
    <3> QED BY <1>1, <1>3, <2>1, <3>1 DEF ServerInv, LockRight
  <2>5. lock' \in Clients \cup Servers \cup {NoServer, Remover}
    BY <1>3, <2>1
  <2> QED BY <1>1, <1>2, <1>3, <2>3, <2>4, <2>5, ClientKeeps
<1>5. CASE NotRunning(c)
  <2>1. cpc' = [cpc EXCEPT ![c] = "done"] /\ cpc'[c] = "done" /\ cpc[c] = "locked"
    BY <1>5, ClientTypes DEF NotRunning, CGoes
  <2>2. ClientMoved(c)
    BY <1>5, <2>1, StartMoves, ClientTypes DEF NotRunning, CGoes, wires
  <2>3. lock = c /\ lock' = NoServer
    BY <1>5, <2>1 DEF NotRunning, LetsGo, ServerInv, LockRight
  <2>4. LockRight'
    <3>1. \A d \in Clients : cpc'[d] = "locked" => cpc[d] = "locked" /\ d # c
      BY <2>1, ClientTypes
    <3> QED BY <1>1, <1>3, <2>3, <3>1 DEF ServerInv, LockRight
  <2> QED BY <1>1, <1>2, <1>3, <2>2, <2>3, <2>4, ClientKeeps
<1>6. CASE HearsOfServer(c)
  <2>1. /\ cpc' = [cpc EXCEPT ![c] = cpc'[c]] /\ cpc'[c] \in {"connect", "failed"}
        /\ cpc[c] = "ready"
    <3>1. CASE reply[c] = "r"
      BY <1>6, <3>1, ClientTypes DEF HearsOfServer, CGoes
    <3>2. CASE reply[c] # "r"
      BY <1>6, <3>2, ClientTypes DEF HearsOfServer, CGoes
    <3> QED BY <3>1, <3>2
  <2>2. ClientMoved(c)
    BY <1>6, <2>1, StartMoves, ClientTypes DEF HearsOfServer, CGoes
  <2> QED BY <1>1, <1>2, <1>6, <2>1, <2>2, LockAlone, ClientKeeps DEF HearsOfServer, servervars
<1>7. CASE LooksForSocket(c)
  <2>1. /\ cpc' = [cpc EXCEPT ![c] = cpc'[c]] /\ cpc'[c] \in {"wait", "connect"}
        /\ cpc[c] = "refused" /\ rounds' \in [Clients -> 0..WaitRounds]
    BY <1>7, ClientTypes, ProcessServerAssumption DEF LooksForSocket, CGoes
  <2>2. ClientMoved(c)
    BY <1>7, <2>1, StartMoves DEF LooksForSocket, CGoes, wires
  <2> QED BY <1>1, <1>2, <1>7, <2>1, <2>2, LockAlone, ClientKeeps DEF LooksForSocket
<1>8. CASE WaitsForLock(c)
  <2>1. /\ cpc' = [cpc EXCEPT ![c] = cpc'[c]] /\ cpc'[c] = "wait" /\ cpc[c] = "wait"
        /\ rounds' \in [Clients -> 0..WaitRounds]
    <3>1. rounds[c] \in 0..WaitRounds /\ rounds[c] > 0 /\ WaitRounds \in Nat
      BY <1>8, ClientTypes, ProcessServerAssumption DEF WaitsForLock
    <3> QED BY <1>8, <3>1, ClientTypes DEF WaitsForLock
  <2>2. ClientMoved(c)
    BY <1>8, <2>1, StartMoves, ClientTypes DEF WaitsForLock, CGoes, wires
  <2>3. (lock = NoServer /\ lock' = c) \/ lock' = lock
    BY <1>8 DEF WaitsForLock, GetsLock
  <2>4. LockRight'
    <3>1. \A d \in Clients : cpc'[d] = cpc[d]
      BY <1>8 DEF WaitsForLock
    <3> QED BY <1>1, <1>3, <2>3, <3>1 DEF ServerInv, LockRight
  <2>5. lock' \in Clients \cup Servers \cup {NoServer, Remover}
    BY <1>3, <2>3
  <2> QED BY <1>1, <1>2, <1>3, <2>2, <2>4, <2>5, ClientKeeps
<1>9. CASE GivesUpWaiting(c)
  <2>1. cpc[c] = "wait" /\ TriesAgain(c) /\ LetsGo(c)
        /\ UNCHANGED <<job, rounds, sent, request, stopped>>
    BY <1>9 DEF GivesUpWaiting
  <2>2. ClientMoved(c) /\ cpc'[c] # "locked"
    BY <2>1, TriesMoves DEF CEnded
  <2>3. (lock = c /\ lock' = NoServer) \/ lock' = lock
    BY <2>1 DEF LetsGo
  <2>4. LockRight'
    <3>1. \A d \in Clients : cpc'[d] = "locked" => cpc[d] = "locked" /\ d # c
      BY <2>2, ClientTypes DEF ClientMoved
    <3> QED BY <1>1, <1>3, <2>3, <3>1 DEF ServerInv, LockRight
  <2>5. lock' \in Clients \cup Servers \cup {NoServer, Remover}
    BY <1>3, <2>3
  <2> QED BY <1>1, <1>2, <1>3, <2>2, <2>4, <2>5, ClientKeeps
<1> QED BY <1>4, <1>5, <1>6, <1>7, <1>8, <1>9

LEMMA TalkKeeps ==
  ASSUME ServerInv, NEW c \in Clients,
         SendsFds(c) \/ HearsHello(c) \/ AsksToTerminate(c) \/ Leaves(c) \/ AsksToBuild(c)
           \/ AsksToStop(c) \/ HearsAnswer(c) \/ HearsTheEnd(c)
  PROVE  ServerInv'
<1>1. UNCHANGED <<lock, sockname, job, rounds, spc, mem, lingering>>
  BY DEF SendsFds, HearsHello, AsksToTerminate, Leaves, AsksToBuild, AsksToStop, HearsAnswer,
         HearsTheEnd, servervars, Unasked
<1>2. ServersKept(c)
  BY <1>1, ServersAlone
<1>3. SUFFICES ClientMoved(c) /\ cpc'[c] # "locked"
  <2>1. cpc' = [cpc EXCEPT ![c] = cpc'[c]]
    BY <1>3 DEF ClientMoved
  <2> QED BY <1>1, <1>2, <1>3, <2>1, LockAlone, ClientKeeps
<1>4. /\ AnswerRight(c)
      /\ Conn(c) \in Conns => request[Conn(c)] \in Commands \cup {"none"}
      /\ left[c] > 0 => Conn(c) \in Conns
  BY ClientTypes, ConnIs DEF ServerInv, ClientsRight
<1>5. CASE SendsFds(c)
  <2>1. CASE HungUp(c)
    BY <1>1, <1>5, <2>1, TriesMoves DEF SendsFds, CEnded
  <2>2. CASE ~HungUp(c)
    <3>1. /\ cpc[c] = "sendfds" /\ sent' = sent \cup {Conn(c)}
          /\ request' = [request EXCEPT ![Conn(c)] = "setFeatures"]
          /\ cpc' = [cpc EXCEPT ![c] = "hello"] /\ cpc'[c] = "hello"
          /\ UNCHANGED <<left, open, reply, heard, stopped>>
      BY <1>5, <2>2, ClientTypes DEF SendsFds, CGoes
    <3>2. /\ left[c] > 0 /\ c \notin stopped /\ reply[c] = "none" /\ Conn(c) \in Conns
          /\ Conn(c)' = Conn(c)
      BY <1>4, <3>1 DEF AnswerRight, CEnded, Conn
    <3>3. request'[Conn(c)] = "setFeatures"
      BY <3>1, <3>2, ClientTypes
    <3>4. AnswerRight(c)' /\ ~StopHeard(c)'
      BY <3>1, <3>2, <3>3 DEF AnswerRight, StopHeard, Asked, CEnded
    <3>5. reply' = [reply EXCEPT ![c] = reply'[c]] /\ reply'[c] = "none"
      BY <3>1, <3>2, ClientTypes
    <3>6. ClientMoved(c)
      BY <1>1, <3>1, <3>4, <3>5, TalkMoves, ClientTypes DEF CGoes, Talking, Commands
    <3> QED BY <3>1, <3>6
  <2> QED BY <2>1, <2>2
<1>6. CASE HearsHello(c)
  <2>0. cpc[c] = "hello" /\ UNCHANGED <<sent, request, stopped>>
    BY <1>6 DEF HearsHello
  <2>1. CASE reply[c] = "ok" /\ CGoes(c, "session") /\ reply' = [reply EXCEPT ![c] = "none"]
             /\ UNCHANGED <<left, open, heard>>
    <3>1. cpc'[c] = "session" /\ reply'[c] = "none" /\ Conn(c)' = Conn(c)
      BY <2>1, ClientTypes DEF CGoes, Conn
    <3>2. left[c] > 0 /\ c \notin stopped /\ request[Conn(c)] = "none"
      BY <1>4, <2>0, <2>1 DEF AnswerRight, CEnded
    <3>3. AnswerRight(c)' /\ ~StopHeard(c)'
      BY <2>0, <2>1, <3>1, <3>2 DEF AnswerRight, StopHeard, CEnded
    <3>4. ClientMoved(c)
      BY <1>1, <2>0, <2>1, <3>1, <3>3, TalkMoves, ClientTypes DEF Talking
    <3> QED BY <3>1, <3>4
  <2>2. CASE CGoes(c, "failed") /\ Closes(c) /\ UNCHANGED left
    <3>1. cpc'[c] = "failed" /\ c \notin stopped
      BY <1>4, <2>0, <2>2, ClientTypes DEF CGoes, AnswerRight
    <3>2. ClientMoved(c)
      BY <1>1, <2>0, <2>2, <3>1, LeaveMoves, ClientTypes DEF CEnded
    <3> QED BY <3>1, <3>2
  <2>3. CASE TriesAgain(c)
    BY <1>1, <2>0, <2>3, TriesMoves DEF CEnded
  <2> QED BY <1>6, <2>1, <2>2, <2>3 DEF HearsHello
<1>7. CASE AsksToTerminate(c) \/ Leaves(c)
  <2>0. /\ cpc[c] \in {"session", "leaving"} /\ c \notin stopped
        /\ UNCHANGED <<left, sent, stopped>>
    BY <1>4, <1>7 DEF AsksToTerminate, Leaves, Unasked, AnswerRight
  <2>1. CASE \E pc \in CEnded : CGoes(c, pc) /\ Closes(c) /\ UNCHANGED request
    <3>1. PICK pc \in CEnded : CGoes(c, pc) /\ Closes(c) /\ UNCHANGED request
      BY <2>1
    <3>2. cpc'[c] = pc
      BY <3>1, ClientTypes DEF CGoes
    <3>3. ClientMoved(c)
      BY <1>1, <2>0, <3>1, <3>2, LeaveMoves, ClientTypes
    <3> QED BY <3>2, <3>3 DEF CEnded
  <2>2. CASE cpc[c] = "session" /\ CGoes(c, "leaving") /\ Asks(c, "terminateServer")
             /\ UNCHANGED <<open, reply, heard>>
    <3>1. cpc'[c] = "leaving" /\ request' = [request EXCEPT ![Conn(c)] = "terminateServer"]
      BY <2>2, ClientTypes DEF CGoes, Asks
    <3>2. left[c] > 0 /\ reply[c] = "none"
      BY <1>4, <2>2 DEF AnswerRight, CEnded
    <3>3. AnswerRight(c)' /\ ~StopHeard(c)'
      BY <2>0, <3>1, <3>2 DEF AnswerRight, StopHeard, CEnded
    <3>4. reply' = [reply EXCEPT ![c] = reply'[c]] /\ reply'[c] = "none"
      BY <2>2, <3>2, ClientTypes
    <3>5. ClientMoved(c)
      BY <1>1, <2>0, <2>2, <3>1, <3>3, <3>4, TalkMoves, ClientTypes DEF Talking, Commands
    <3> QED BY <3>1, <3>5
  <2> QED BY <1>7, <2>1, <2>2 DEF AsksToTerminate, Leaves, CEnded
<1>8. CASE AsksToBuild(c) \/ AsksToStop(c)
  <2>1. PICK pc \in {"asked", "stopping"} :
          /\ CGoes(c, pc) /\ request' = [request EXCEPT ![Conn(c)] = Asked(pc)]
          /\ cpc[c] \in {"session", "listen"} /\ (cpc[c] = "listen" => c \notin stopped)
    BY <1>8 DEF AsksToBuild, AsksToStop, Asks, Asked
  <2>2. UNCHANGED <<left, sent, open, reply, heard, stopped>>
    BY <1>8 DEF AsksToBuild, AsksToStop, Unasked
  <2>3. cpc'[c] = pc /\ Conn(c)' = Conn(c)
    BY <2>1, <2>2, ClientTypes DEF CGoes, Conn
  <2>4. left[c] > 0 /\ c \notin stopped /\ reply[c] = "none" /\ Conn(c) \in Conns
    BY <1>4, <2>1 DEF AnswerRight, CEnded
  <2>5. request'[Conn(c)] = Asked(pc)
    BY <2>1, <2>4, ClientTypes
  <2>6. AnswerRight(c)' /\ ~StopHeard(c)'
    BY <2>2, <2>3, <2>4, <2>5 DEF AnswerRight, StopHeard, CEnded
  <2>7. /\ reply' = [reply EXCEPT ![c] = reply'[c]] /\ reply'[c] = "none"
        /\ Asked(pc) \in Commands
    BY <2>2, <2>4, ClientTypes DEF Asked, Commands
  <2>8. ClientMoved(c)
    BY <1>1, <2>1, <2>2, <2>3, <2>6, <2>7, TalkMoves, ClientTypes DEF Talking
  <2> QED BY <2>3, <2>8
<1>9. CASE HearsAnswer(c)
  <2>0. cpc[c] \in {"asked", "stopping"} /\ UNCHANGED <<left, sent, request>>
    BY <1>9 DEF HearsAnswer, Unasked
  <2>1. CASE /\ reply[c] = "ok" /\ CGoes(c, "listen")
             /\ reply' = [reply EXCEPT ![c] = "none"]
             /\ stopped' = IF cpc[c] = "stopping" THEN stopped \cup {c} ELSE stopped
             /\ UNCHANGED <<open, heard>>
    <3>1. cpc'[c] = "listen" /\ reply'[c] = "none" /\ Conn(c)' = Conn(c)
      BY <2>0, <2>1, ClientTypes DEF CGoes, Conn
    <3>2. left[c] > 0 /\ c \notin stopped /\ request[Conn(c)] = "none"
      BY <1>4, <2>0, <2>1 DEF AnswerRight, CEnded
    <3>3. AnswerRight(c)'
      BY <2>0, <3>1, <3>2 DEF AnswerRight, CEnded
    <3>4. StopHeard(c)' => StopHeard(c)
      BY <2>0, <2>1, <3>1, <3>2 DEF StopHeard
    <3>5. stopped' \subseteq Clients /\ stopped' \ {c} = stopped \ {c}
      BY <2>1, ClientTypes
    <3>6. ClientMoved(c)
      BY <1>1, <2>0, <2>1, <3>1, <3>3, <3>4, <3>5, TalkMoves DEF Talking
    <3> QED BY <3>1, <3>6
  <2>2. CASE CGoes(c, "failed") /\ Closes(c) /\ UNCHANGED stopped
    <3>1. cpc'[c] = "failed" /\ c \notin stopped
      BY <1>4, <2>0, <2>2, ClientTypes DEF CGoes, AnswerRight
    <3>2. ClientMoved(c)
      BY <1>1, <2>0, <2>2, <3>1, LeaveMoves, ClientTypes DEF CEnded
    <3> QED BY <3>1, <3>2
  <2> QED BY <1>9, <2>1, <2>2 DEF HearsAnswer
<1>10. CASE HearsTheEnd(c)
  <2>1. /\ CGoes(c, "done") /\ Closes(c) /\ stopped' = stopped \ {c}
        /\ UNCHANGED <<left, sent, request>>
    BY <1>10 DEF HearsTheEnd, Unasked
  <2>2. cpc'[c] = "done"
    BY <2>1, ClientTypes DEF CGoes
  <2>3. ClientMoved(c)
    BY <1>1, <2>1, <2>2, LeaveMoves, ClientTypes DEF CEnded
  <2> QED BY <2>2, <2>3
<1> QED BY <1>5, <1>6, <1>7, <1>8, <1>9, <1>10

(* A client takes its place in front of the socket, or tries again.         *)
LEMMA ConnectsKeeps ==
  ASSUME ServerInv, NEW c \in Clients, Connects(c)
  PROVE  ServerInv'
<1>1. /\ cpc[c] = "connect" /\ AnswerRight(c)
      /\ UNCHANGED <<lock, sockname, job, rounds, sent, request, stopped, spc, lingering>>
  BY DEF Connects, ServerInv, ClientsRight
<1>2. left[c] > 0 /\ c \notin stopped /\ reply[c] = "none"
  BY <1>1 DEF AnswerRight, CEnded
<1>3. Conn(c) \in Conns
  BY <1>2, ClientTypes, ConnIs
<1>4. CASE TriesAgain(c) /\ UNCHANGED mem
  <2>1. ClientMoved(c) /\ cpc'[c] # "locked"
    BY <1>1, <1>4, TriesMoves DEF CEnded
  <2>2. cpc' = [cpc EXCEPT ![c] = cpc'[c]]
    BY <2>1 DEF ClientMoved
  <2> QED BY <1>1, <1>4, <2>1, <2>2, ServersAlone, LockAlone, ClientKeeps
<1>5. CASE /\ sockname # NoServer /\ spc[sockname] \in Listening
           /\ mem' = [mem EXCEPT ![sockname].backlog = Append(@, Conn(c))]
           /\ open' = open \cup {Conn(c)}
           /\ CGoes(c, "sendfds")
           /\ UNCHANGED <<left, reply, heard>>
  <2>1. cpc'[c] = "sendfds" /\ cpc' = [cpc EXCEPT ![c] = cpc'[c]] /\ Conn(c)' = Conn(c)
    BY <1>5, ClientTypes DEF CGoes, Conn
  <2>2. request[Conn(c)] = "none"
    <3>1. ~Used(Conn(c))
      BY <1>1, <1>2, ConnIs, ClientTypes DEF Used, Connected, Talking, CEnded
    <3> QED BY <1>3, <3>1 DEF ServerInv, ConnsRight
  <2>3. AnswerRight(c)' /\ ~StopHeard(c)'
    BY <1>1, <1>2, <1>5, <2>1, <2>2 DEF AnswerRight, StopHeard, CEnded
  <2>4. /\ left' = [left EXCEPT ![c] = left'[c]] /\ left'[c] \in 0..Retries
        /\ heard' = [heard EXCEPT ![c] = heard'[c]]
        /\ reply' = [reply EXCEPT ![c] = reply'[c]] /\ reply'[c] = "none"
    BY <1>2, <1>5, ClientTypes
  <2>5. ClientMoved(c)
    BY <1>1, <1>5, <2>1, <2>3, <2>4, ClientTypes DEF ClientMoved, Talking, Connected, CEnded
  <2> DEFINE s == sockname
             m == mem[s]
             n == [m EXCEPT !.backlog = Append(@, Conn(c))]
  <2>6. s \in Servers /\ m \in GoodMemory /\ m \in ServerMemory
    <3>1. s \in Servers
      BY <1>5 DEF ServerInv, TypesRight, TypeOK
    <3> QED BY <3>1, ClientTypes DEF GoodMemory
  <2>7. mem' = [mem EXCEPT ![s] = n]
    BY <1>5, <2>6, ClientTypes
  <2>8. /\ Append(m.backlog, Conn(c)) \in Seq(Conns) /\ Append(m.backlog, Conn(c)) # <<>>
        /\ ToSet(Append(m.backlog, Conn(c))) \subseteq ToSet(m.backlog) \cup {Conn(c)}
    <3>1. m.backlog \in Seq(Conns)
      BY <2>6 DEF ServerMemory
    <3> QED BY <1>3, <3>1, Appending
  <2>9. /\ n \in ServerMemory /\ n.hadui = m.hadui /\ n.backlog = Append(m.backlog, Conn(c))
        /\ n.control = m.control /\ n.ready = m.ready
        /\ n.ui = m.ui /\ n.state = m.state
        /\ n.current = m.current /\ n.polling = m.polling
        /\ n.builds = m.builds /\ n.queued = m.queued /\ n.waiting = m.waiting
    BY <2>6, <2>8 DEF ServerMemory
  <2> HIDE DEF n
  <2>10. n \in GoodMemory /\ ConnsOf(n) \subseteq ConnsOf(m) \cup {Conn(c)}
    BY <2>6, <2>8, <2>9 DEF GoodMemory, ConnsOf
  <2>11. /\ mem'[s] = n /\ mem' \in [Servers -> GoodMemory]
         /\ \A t \in Servers \ {s} : mem'[t] = mem[t]
    BY <2>6, <2>7, <2>10, ClientTypes
  <2>12. ServersKept(c)
    <3> SUFFICES ASSUME NEW t \in Servers
        PROVE  /\ mem'[t].control = mem[t].control /\ mem'[t].ready = mem[t].ready
               /\ mem'[t].ui = mem[t].ui /\ mem'[t].state = mem[t].state
               /\ mem'[t].current = mem[t].current /\ mem'[t].polling = mem[t].polling
               /\ mem'[t].builds = mem[t].builds /\ mem'[t].queued = mem[t].queued
               /\ mem[t].backlog # <<>> => mem'[t].backlog # <<>>
               /\ ConnsOf(mem'[t]) \subseteq ConnsOf(mem[t]) \cup {Conn(c)}
      BY <1>1, <1>5, <2>11, ClientTypes DEF ServersKept
    <3>1. CASE t = s
      BY <2>8, <2>9, <2>10, <2>11, <3>1
    <3>2. CASE t # s
      BY <2>11, <3>2
    <3> QED BY <3>1, <3>2
  <2>13. LockRight'
    <3>1. \A d \in Clients : cpc'[d] = "locked" => cpc[d] = "locked"
      BY <2>1, ClientTypes
    <3>2. spc[s] # "none"
      BY <1>5 DEF Listening, InLoop
    <3>3. \A t \in Servers : spc'[t] = "none" => mem'[t] = mem[t]
      BY <1>1, <2>11, <3>2
    <3> QED BY <1>1, <3>1, <3>3 DEF ServerInv, LockRight
  <2>14. /\ lock' \in Clients \cup Servers \cup {NoServer, Remover}
         /\ sockname' \in Servers \cup {NoServer}
    BY <1>1 DEF ServerInv, TypesRight, TypeOK
  <2> QED BY <1>1, <2>5, <2>12, <2>13, <2>14, ClientKeeps
<1> QED BY <1>4, <1>5 DEF Connects

(* The lock goes from the client to the server it starts.                   *)
LEMMA StartServerKeeps ==
  ASSUME ServerInv, NEW c \in Clients, NEW s \in Servers, StartServer(c, s)
  PROVE  ServerInv'
<1>1. /\ cpc[c] = "locked" /\ spc[s] = "none" /\ lock' = s /\ sockname' = s
      /\ spc' = [spc EXCEPT ![s] = "starting"] /\ mem' = [mem EXCEPT ![s] = NewServer(c)]
      /\ CGoes(c, "ready")
      /\ UNCHANGED <<job, left, rounds, wires, lingering>>
  BY DEF StartServer, HeirOf
<1>2. cpc'[c] = "ready"
  BY <1>1, ClientTypes DEF CGoes
<1>3. ClientMoved(c)
  BY <1>1, <1>2, StartMoves, ClientTypes DEF wires
<1>4. /\ lock = c /\ c \notin Servers /\ c # Remover /\ s # Remover
      /\ \A t \in Servers : spc[t] = "none"
  BY <1>1, ProcessServerAssumption DEF ServerInv, LockRight
<1>5. /\ spc' \in [Servers -> Stages] /\ mem' \in [Servers -> GoodMemory]
      /\ spc'[s] = "starting" /\ mem'[s] = NewServer(c)
      /\ \A t \in Servers \ {s} : spc'[t] = spc[t] /\ mem'[t] = mem[t]
  BY <1>1, NewServerGood, ClientTypes DEF Stages
<1>6. ServersKept(c)
  BY <1>5 DEF ServersKept
<1>7. LockRight'
  <2>1. \A d \in Clients : cpc'[d] # "locked"
    BY <1>1, <1>2, <1>4, ClientTypes DEF ServerInv, LockRight, CGoes
  <2> QED BY <1>1, <1>4, <1>5, <2>1 DEF ServerInv, LockRight, Listening, InLoop
<1> QED BY <1>1, <1>3, <1>6, <1>7, ClientKeeps

LEMMA ClientDiesKeeps ==
  ASSUME ServerInv, NEW c \in Clients, ClientDies(c)
  PROVE  ServerInv'
<1>1. /\ CGoes(c, "dead") /\ Closes(c) /\ LetsGo(c) /\ stopped' = stopped \ {c}
      /\ UNCHANGED <<sockname, job, left, rounds, sent, request, spc, mem, lingering>>
  BY DEF ClientDies
<1>2. cpc'[c] = "dead" /\ cpc' = [cpc EXCEPT ![c] = cpc'[c]]
  BY <1>1, ClientTypes DEF CGoes
<1>3. ClientMoved(c)
  BY <1>1, <1>2, LeaveMoves, ClientTypes DEF CEnded
<1>4. (lock = c /\ lock' = NoServer) \/ lock' = lock
  BY <1>1 DEF LetsGo
<1>5. LockRight'
  <2>1. \A d \in Clients : cpc'[d] = "locked" => cpc[d] = "locked" /\ d # c
    BY <1>2, ClientTypes
  <2> QED BY <1>1, <1>4, <2>1, ProcessServerAssumption DEF ServerInv, LockRight
<1>6. /\ lock' \in Clients \cup Servers \cup {NoServer, Remover}
      /\ sockname' \in Servers \cup {NoServer}
  BY <1>1, <1>4 DEF ServerInv, TypesRight, TypeOK
<1> QED BY <1>1, <1>3, <1>5, <1>6, ServersAlone, ClientKeeps

-----------------------------------------------------------------------------
(* The invariant *)

LEMMA EndsKeep ==
  ASSUME ServerInv, NEW s \in Servers, ServerStarts(s) \/ ShutsDown(s) \/ ServerKilled(s)
  PROVE  ServerInv'
<1>1. CASE ShutsDown(s)
  <2>1. lingering' = lingering + 1 /\ UNCHANGED <<sockname, clientvars, open, reply, stopped>>
    BY <1>1 DEF ShutsDown
  <2> QED BY <1>1, <2>1, GoneKeeps DEF ShutsDown
<1>2. CASE ServerKilled(s)
  BY <1>2, GoneKeeps DEF ServerKilled
<1>3. CASE ServerStarts(s)
  <2>1. CASE StartsUp(s) /\ UNCHANGED <<lock, sent, request, faults>>
    BY <1>3, <2>1, StartsUpKeeps DEF ServerStarts
  <2>2. CASE SGoes(s, "none") /\ Answers(mem[s].starter, "eof") /\ Gone(s) /\ LetsGo(s)
    BY <1>3, <2>2, GoneKeeps DEF ServerStarts
  <2> QED BY <1>3, <2>1, <2>2 DEF ServerStarts, StartsUp
<1> QED BY <1>1, <1>2, <1>3

LEMMA ServerInvInit == Init => ServerInv
<1> SUFFICES ASSUME Init PROVE ServerInv
  OBVIOUS
<1>1. /\ mem = [s \in Servers |-> NewServer(NoStarter)] /\ open = {} /\ sent = {} /\ stopped = {}
      /\ spc = [s \in Servers |-> "none"] /\ lock = NoServer /\ sockname = NoServer
      /\ lingering = 0 /\ job \in Jobs
      /\ cpc = [c \in Clients |-> "start"]
      /\ left = [c \in Clients |-> Retries] /\ rounds = [c \in Clients |-> 0]
      /\ request = [x \in Conns |-> "none"]
      /\ reply = [c \in Clients |-> "none"] /\ heard = [c \in Clients |-> NoConn]
  BY DEF Init
<1>2. NewServer(NoStarter) \in GoodMemory
  BY NewServerGood
<1>3. TypesRight
  <2>1. mem \in [Servers -> GoodMemory] /\ heard \in [Clients -> Conns \cup {NoConn, CookerExit}]
    BY <1>1, <1>2
  <2>2. \A s \in Servers :
          /\ mem[s].control = NoConn /\ mem[s].current = NoConn /\ mem[s].builds = {}
          /\ mem[s].queued = NoConn /\ mem[s].state = "initial" /\ mem[s].ui = FALSE
    BY <1>1 DEF NewServer
  <2>3. TypeOK
    BY <1>1, <2>1, <2>2, ProcessServerAssumption DEF TypeOK
  <2> QED BY <2>1, <2>3 DEF TypesRight
<1>4. LockRight
  BY <1>1, ProcessServerAssumption DEF LockRight, Listening, InLoop
<1>5. ConnsRight
  <2>1. ConnsOf(NewServer(NoStarter)) \subseteq {NoConn}
    BY DEF ConnsOf, NewServer, ToSet
  <2> QED BY <1>1, <2>1, ConnsArePairs DEF ConnsRight
<1>6. ClientsRight
  BY <1>1, ProcessServerAssumption DEF ClientsRight, AnswerRight
<1>7. StagesRight
  BY <1>1 DEF StagesRight, StageRight
<1>8. CommandsRight
  <2>1. \A s \in Servers :
          /\ mem[s].current = NoConn /\ mem[s].queued = NoConn /\ mem[s].builds = {}
          /\ mem[s].polling = FALSE
    BY <1>1 DEF NewServer
  <2> QED BY <1>1, <2>1 DEF CommandsRight, CommandRight
<1>9. EventsGoHome
  BY <1>1 DEF EventsGoHome
<1> QED BY <1>3, <1>4, <1>5, <1>6, <1>7, <1>8, <1>9 DEF ServerInv

LEMMA StutterKeeps ==
  ASSUME ServerInv, UNCHANGED vars
  PROVE  ServerInv'
<1>1. /\ UNCHANGED <<lock, sockname, job, cpc, left, rounds, lingering>>
      /\ UNCHANGED <<open, sent, request, reply, heard, stopped, spc, mem>>
  BY DEF vars, clientvars, wires, servervars
<1>2. \A c \in Clients : Conn(c)' = Conn(c) /\ (StopHeard(c)' <=> StopHeard(c))
  BY <1>1 DEF Conn, StopHeard
<1>3. TypesRight' /\ LockRight'
  BY <1>1 DEF ServerInv, TypesRight, TypeOK, LockRight
<1>4. ConnsRight'
  <2>1. \A x : Used(x)' <=> Used(x)
    BY <1>1 DEF Used
  <2> QED BY <1>1, <2>1 DEF ServerInv, ConnsRight
<1>5. ClientsRight' /\ EventsGoHome'
  BY <1>1, <1>2 DEF ServerInv, ClientsRight, AnswerRight, EventsGoHome, Asked
<1>6. StagesRight' /\ CommandsRight'
  BY <1>1, <1>2 DEF ServerInv, StagesRight, StageRight, CommandsRight, CommandRight
<1> QED BY <1>3, <1>4, <1>5, <1>6 DEF ServerInv

LEMMA ServerInvStep == ServerInv /\ [Next]_vars => ServerInv'
<1> SUFFICES ASSUME ServerInv, [Next]_vars PROVE ServerInv'
  OBVIOUS
<1>1. CASE UNCHANGED vars
  BY <1>1, StutterKeeps
<1>2. ASSUME NEW c \in Clients, ClientStep(c) \/ AsksToStop(c) \/ ClientDies(c)
      PROVE  ServerInv'
  BY <1>2, StartKeeps, TalkKeeps, ConnectsKeeps, StartServerKeeps, ClientDiesKeeps DEF ClientStep
<1>3. ASSUME NEW s \in Servers, ServerStep(s) \/ Passes(s) \/ Joined(s) \/ ServerKilled(s)
      PROVE  ServerInv'
  BY <1>3, EndsKeep, LoopKeeps, RemovesSocketKeeps DEF ServerStep, Passes, LoopStep
<1>4. CASE Relocks \/ ServerEnds
  BY <1>4, RemoverKeeps
<1> QED BY <1>1, <1>2, <1>3, <1>4 DEF Next

LEMMA ServerInvAlways == Spec => []ServerInv
<1>1. Init => ServerInv
  BY ServerInvInit
<1>2. ServerInv /\ [Next]_vars => ServerInv'
  BY ServerInvStep
<1> QED BY <1>1, <1>2, PTL DEF Spec

-----------------------------------------------------------------------------
(* What follows *)

(* A build directory has one server, and whoever looks for it finds it:     *)
(* only who has bitbake.lock is a server or removes the socket's name       *)
(* (lockBitbake in lib/bb/main.py, ProcessServer.main).                     *)
THEOREM ServersSoundAlways == Spec => []ServersSound
<1>1. ServerInv => ServersSound
  <2> SUFFICES ASSUME ServerInv PROVE ServersSound
    OBVIOUS
  <2>1. TypeOK
    BY DEF ServerInv, TypesRight
  <2>2. OneServer
    BY DEF ServerInv, LockRight, OneServer, Owning, Listening, InLoop
  <2>3. SocketFound
    BY DEF ServerInv, LockRight, SocketFound, Listening
  <2> QED BY <2>1, <2>2, <2>3 DEF ServersSound
<1> QED BY <1>1, ServerInvAlways, PTL

(* A server runs one build at a time, and what a client's command has to    *)
(* say reaches another client only when the first is gone: a build belongs  *)
(* to the command in progress, and that to the client being served, unless  *)
(* its client is gone (Command.runCommand, ProcessServer.main, event.fire). *)
THEOREM CommandsKeptApartAlways == Spec => []CommandsKeptApart
<1>1. ServerInv => CommandsKeptApart
  <2> SUFFICES ASSUME ServerInv PROVE CommandsKeptApart
    OBVIOUS
  <2>1. OneBuild
    <3> SUFFICES ASSUME NEW s \in Servers
                 PROVE  Cardinality(mem[s].builds) <= 1
      BY DEF OneBuild
    <3>1. mem[s].builds \subseteq {mem[s].current}
      BY DEF ServerInv, CommandsRight, CommandRight
    <3>2. mem[s].builds = {} \/ mem[s].builds = {mem[s].current}
      BY <3>1
    <3>3. Cardinality({}) = 0 /\ Cardinality({mem[s].current}) = 1
      BY FS_EmptySet, FS_Singleton
    <3> QED BY <3>2, <3>3
  <2> QED BY <2>1 DEF ServerInv, CommandsKeptApart
<1> QED BY <1>1, ServerInvAlways, PTL

(* What one step may add to the builds of a server.                         *)
LEMMA BuildsGrow ==
  ASSUME ServerInv, [Next]_vars, NEW s \in Servers
  PROVE  mem'[s].builds \subseteq mem[s].builds \cup ComesToBuild(mem[s])
<1>1. mem \in [Servers -> GoodMemory] /\ mem[s] \in ServerMemory
  BY ClientTypes DEF GoodMemory
<1>2. \A c : NewServer(c).builds = {}
  BY DEF NewServer
<1>3. CASE UNCHANGED mem
  BY <1>3
<1>4. ASSUME NEW t \in Servers, LoopStep(t)
      PROVE  mem'[s].builds \subseteq mem[s].builds \cup ComesToBuild(mem[s])
  <2>1. LoopFrame(t)
    BY <1>4, LoopStepRight DEF LoopRight
  <2>2. CASE s = t
    BY <2>1, <2>2 DEF LoopFrame
  <2>3. CASE s # t
    <3>1. mem'[s] = mem[s]
      BY <1>1, <2>1, <2>3 DEF LoopFrame
    <3> QED BY <3>1
  <2> QED BY <2>2, <2>3
<1>5. ASSUME NEW t \in Servers, Gone(t)
      PROVE  mem'[s].builds \subseteq mem[s].builds
  BY <1>1, <1>2, <1>5 DEF Gone
<1>6. ASSUME NEW t \in Servers, StartsUp(t) \/ RemovesSocket(t)
      PROVE  mem'[s].builds = mem[s].builds
  <2>1. mem[t] \in ServerMemory
    BY ClientTypes DEF GoodMemory
  <2>2. CASE StartsUp(t)
    BY <1>1, <2>1, <2>2 DEF StartsUp, ServerMemory
  <2>3. CASE RemovesSocket(t)
    BY <1>1, <2>1, <2>3 DEF RemovesSocket, ServerMemory
  <2> QED BY <1>6, <2>2, <2>3
<1>7. ASSUME NEW c \in Clients, NEW t \in Servers, StartServer(c, t)
      PROVE  mem'[s].builds \subseteq mem[s].builds
  BY <1>1, <1>2, <1>7 DEF StartServer
<1>8. ASSUME NEW c \in Clients, Connects(c)
      PROVE  mem'[s].builds = mem[s].builds
  <2>1. \/ mem' = mem
        \/ /\ mem' = [mem EXCEPT ![sockname].backlog = Append(@, Conn(c))]
           /\ sockname # NoServer
    BY <1>8 DEF Connects
  <2>2. sockname # NoServer => sockname \in Servers /\ mem[sockname] \in ServerMemory
    BY ClientTypes DEF ServerInv, TypesRight, TypeOK, GoodMemory
  <2>3. CASE mem' = mem
    BY <2>3
  <2>4. CASE mem' = [mem EXCEPT ![sockname].backlog = Append(@, Conn(c))] /\ sockname \in Servers
             /\ mem[sockname] \in ServerMemory
    BY <1>1, <2>4 DEF ServerMemory
  <2> QED BY <2>1, <2>2, <2>3, <2>4
<1>9. ASSUME NEW c \in Clients, ClientStep(c) \/ AsksToStop(c) \/ ClientDies(c)
      PROVE  mem'[s].builds \subseteq mem[s].builds
  <2>1. \/ Connects(c) \/ \E t \in Servers : StartServer(c, t)
        \/ mem' = mem
    BY <1>9 DEF ClientStep, AsksToStop, ClientDies, LocksBitbake, NotRunning, HearsOfServer,
         LooksForSocket, WaitsForLock, GivesUpWaiting, SendsFds, HearsHello, AsksToTerminate,
         Leaves, AsksToBuild, HearsAnswer, HearsTheEnd, servervars, Unasked
  <2> QED BY <1>7, <1>8, <2>1
<1>10. ASSUME NEW t \in Servers, ServerStep(t) \/ Passes(t) \/ Joined(t) \/ ServerKilled(t)
       PROVE  mem'[s].builds \subseteq mem[s].builds \cup ComesToBuild(mem[s])
  <2>1. LoopStep(t) \/ Gone(t) \/ StartsUp(t) \/ RemovesSocket(t)
    BY <1>10 DEF ServerStep, Passes, ServerKilled, ServerStarts, ShutsDown, LoopStep, StartsUp
  <2> QED BY <1>4, <1>5, <1>6, <2>1
<1>11. CASE Relocks \/ ServerEnds
  BY <1>11 DEF Relocks, ServerEnds, servervars
<1>12. CASE UNCHANGED vars
  BY <1>12 DEF vars, servervars
<1> QED BY <1>9, <1>10, <1>11, <1>12 DEF Next

(* Once the server has answered stateShutdown the client's command does not *)
(* come to build any more, as long as the client stays: its cooker is to    *)
(* stop, and only one that is not may get to the state in which a build     *)
(* starts (runAsyncCommand, BBCooker.updateCache).                          *)
THEOREM StopIsFinalAlways == Spec => StopIsFinal
<1> DEFINE Final == \A s \in Servers, c \in stopped :
                      Conn(c) \in open /\ Conn(c) \notin mem[s].builds
                        => Conn(c) \notin mem'[s].builds
<1>1. ServerInv /\ [Next]_vars => Final
  <2> SUFFICES ASSUME ServerInv, [Next]_vars, NEW s \in Servers, NEW c \in stopped,
                      Conn(c) \in open, Conn(c) \notin mem[s].builds
               PROVE  Conn(c) \notin mem'[s].builds
    OBVIOUS
  <2>1. c \in Clients /\ StopHeard(c)
    BY ClientTypes DEF StopHeard
  <2>2. Conn(c) \notin ComesToBuild(mem[s])
    BY <2>1 DEF ServerInv, CommandsRight, CommandRight, ComesToBuild
  <2> QED BY <2>2, BuildsGrow
<1> QED BY <1>1, ServerInvAlways, PTL DEF Spec, StopIsFinal
=============================================================================
