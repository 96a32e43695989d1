--------------------------- MODULE RecipeParsing ---------------------------
(***************************************************************************)
(* RecipeParsing: the server parses recipes with several processes          *)
(* (CookerParser, Parser and BBCooker.updateCache in lib/bb/cooker.py) that *)
(* save what they found for the next time (MultiProcessCache in cache.py).  *)
(*                                                                          *)
(* A parser's results go from a buffer of its own through a pipe all of     *)
(* them share; it ends when its buffer is empty, saves its finds in a file  *)
(* of its own, with the lock of the cache shared, and the server merges     *)
(* these files with the lock for itself (LockFile).  terminate() has no     *)
(* effect on a parser: it inherits the server's handler of SIGTERM.         *)
(* The two caches of this kind are alike, one stands for both.  Left out:   *)
(* recipes that need no parsing, parsers that are killed.                   *)
(***************************************************************************)
EXTENDS LockFile, Sequences, FiniteSets

CONSTANTS
  Parsers,
  Server,
  Recipes,         \* willparse
  Jobs,            \* Jobs[p]: the recipes p has to parse (chunkify)
  PipeRoom,        \* how many results the pipe holds
  MayStop          \* the stops a UI may ask for: "soft" (stateShutdown), "hard"
                   \* (stateForceShutdown)

ASSUME RecipeParsingAssumption ==
  /\ Parsers \subseteq Procs /\ IsFiniteSet(Parsers) /\ Server \in Procs \ Parsers
  /\ Jobs \in [Parsers -> SUBSET Recipes] /\ IsFiniteSet(Recipes)
  /\ PipeRoom \in Nat /\ MayStop \subseteq {"soft", "hard"}

VARIABLES
  broken,          \* the recipes that do not parse
  jobs,            \* jobs[p]: what is left of Jobs[p]
  finds,           \* finds[p]: the recipes whose parsing is in p's cachedata_extras
  buffer,          \* buffer[p]: results p has put and not yet written to the pipe
  pipe,            \* result_queue
  quits,           \* how many parsers have yet to take a None from parser_quit
  ppc,             \* "parse", "flush", "save", "write", "saved"
  extras,          \* p's file of extras: "none", "torn" while it is written, "written"
  cachefile,       \* the recipes whose parsing the cache file has
  added,           \* the recipes in recipecaches
  spc,             \* the server: "parse", "drain", "join", "merge", "merged", "over"
  why              \* why the parser was shut down: "no", all is parsed ("end"), an
                   \* "error", or a stop

parservars == <<jobs, finds, buffer, ppc, extras>>
servervars == <<cachefile, added, spc, why>>
parsevars  == <<broken, jobs, finds, buffer, pipe, quits, ppc, extras, cachefile, added,
                spc, why>>

PGoes(p, step) == ppc' = [ppc EXCEPT ![p] = step]

\* The process is gone.
Exited(p) == ppc[p] = "saved" /\ lpc[p] = "none"

-----------------------------------------------------------------------------
(* Parser.realrun                                                           *)

\* quit.get_nowait() may come too early for a None that is on its way.
SeesQuit(p) ==
  /\ ppc[p] = "parse" /\ quits > 0
  /\ quits' = quits - 1
  /\ PGoes(p, "flush")
  /\ UNCHANGED <<lockvars, servervars, broken, jobs, finds, buffer, pipe, extras>>

Parse(p) ==
  /\ ppc[p] = "parse"
  /\ \E r \in jobs[p] :
       /\ jobs' = [jobs EXCEPT ![p] = @ \ {r}]
       /\ buffer' = [buffer EXCEPT ![p] = @ \cup {r}]
       /\ finds' = [finds EXCEPT ![p] = @ \cup ({r} \ broken)]
  /\ UNCHANGED <<lockvars, servervars, broken, pipe, quits, ppc, extras>>

NoJobs(p) ==
  /\ ppc[p] = "parse" /\ jobs[p] = {}
  /\ PGoes(p, "flush")
  /\ UNCHANGED <<lockvars, servervars, broken, jobs, finds, buffer, pipe, quits, extras>>

\* The thread behind results.put()
Feed(p) ==
  /\ Len(pipe) < PipeRoom
  /\ \E r \in buffer[p] :
       /\ buffer' = [buffer EXCEPT ![p] = @ \ {r}]
       /\ pipe' = Append(pipe, r)
  /\ UNCHANGED <<lockvars, servervars, broken, jobs, finds, quits, ppc, extras>>

\* results.join_thread() returns; on its way out the process saves its finds.
Flushed(p) ==
  /\ ppc[p] = "flush" /\ buffer[p] = {}
  /\ CallsLockfile(p, Shared)
  /\ PGoes(p, "save")
  /\ UNCHANGED <<servervars, broken, jobs, finds, buffer, pipe, quits, extras>>

(* save_extras(), in a file of a name nobody has yet                        *)
OpenExtras(p) ==
  /\ ppc[p] = "save" /\ Holds(p)
  /\ extras' = [extras EXCEPT ![p] = "torn"]
  /\ PGoes(p, "write")
  /\ UNCHANGED <<lockvars, servervars, broken, jobs, finds, buffer, pipe, quits>>

\* What is written to a file that was removed is gone.
WriteExtras(p) ==
  /\ ppc[p] = "write"
  /\ extras' = [extras EXCEPT ![p] = IF @ = "torn" THEN "written" ELSE "none"]
  /\ CallsUnlockfile(p)
  /\ PGoes(p, "saved")
  /\ UNCHANGED <<servervars, broken, jobs, finds, buffer, pipe, quits>>

ParserStep(p) ==
  \/ SeesQuit(p) \/ Parse(p) \/ NoJobs(p) \/ Flushed(p) \/ OpenExtras(p) \/ WriteExtras(p)

-----------------------------------------------------------------------------
(* The server                                                               *)

\* CookerParser.shutdown() begins: a None for every process.
Shutdown(reason) ==
  /\ why' = reason /\ spc' = "drain"
  /\ quits' = Cardinality(Parsers)
  /\ UNCHANGED <<cachefile>>

\* parse_next() with a result
Receive ==
  /\ spc = "parse" /\ pipe # <<>>
  /\ pipe' = Tail(pipe)
  /\ IF Head(pipe) \in broken
     THEN Shutdown("error") /\ UNCHANGED added
     ELSE added' = added \cup {Head(pipe)} /\ UNCHANGED <<cachefile, spc, why, quits>>
  /\ UNCHANGED <<lockvars, parservars, broken>>

Toparse == Cardinality(Recipes)

\* parse_generator() has come to its end.
AllParsed ==
  /\ spc = "parse" /\ Cardinality(added) = Toparse
  /\ Shutdown("end")
  /\ UNCHANGED <<lockvars, parservars, broken, pipe, added>>

\* BBCooker.shutdown(), between two calls of updateCache()
Stop(kind) ==
  /\ spc = "parse" /\ kind \in MayStop
  /\ Shutdown(kind)
  /\ UNCHANGED <<lockvars, parservars, broken, pipe, added>>

\* "Cleanup the queue before call process.join()"
Drain ==
  /\ spc = "drain" /\ pipe # <<>>
  /\ pipe' = Tail(pipe)
  /\ UNCHANGED <<lockvars, parservars, servervars, broken, quits>>

\* Nothing came for a quarter of a second.
Silence ==
  /\ spc = "drain" /\ pipe = <<>>
  /\ spc' = "join"
  /\ UNCHANGED <<lockvars, parservars, broken, pipe, quits, cachefile, added, why>>

Forced == why \in {"error", "hard"}

\* process.join(), which is given 0.1 s when the shutdown is forced
Joined == Forced \/ \A p \in Parsers : Exited(p)

Join ==
  /\ spc = "join" /\ Joined
  /\ spc' = "merge"
  /\ CallsLockfile(Server, Exclusive)
  /\ UNCHANGED <<parservars, broken, pipe, quits, cachefile, added, why>>

(* save_merge(): a file that cannot be read is removed like one that was    *)
(* merged.                                                                  *)
Merge ==
  /\ spc = "merge" /\ Holds(Server)
  /\ cachefile' = cachefile \cup UNION {finds[p] : p \in {q \in Parsers : extras[q] = "written"}}
  /\ extras' = [p \in Parsers |-> "none"]
  /\ spc' = "merged"
  /\ CallsUnlockfile(Server)
  /\ UNCHANGED <<broken, jobs, finds, buffer, pipe, quits, ppc, added, why>>

\* state.running when all is parsed, BBHandledException otherwise
Over ==
  /\ spc = "merged" /\ lpc[Server] = "none"
  /\ spc' = "over"
  /\ UNCHANGED <<lockvars, parservars, broken, pipe, quits, cachefile, added, why>>

ServerStep == Receive \/ AllParsed \/ Drain \/ Silence \/ Join \/ Merge \/ Over

-----------------------------------------------------------------------------

ParseInit ==
  /\ broken \in SUBSET Recipes
  /\ jobs = Jobs
  /\ finds = [p \in Parsers |-> {}]
  /\ buffer = [p \in Parsers |-> {}]
  /\ pipe = <<>> /\ quits = 0
  /\ ppc = [p \in Parsers |-> "parse"]
  /\ extras = [p \in Parsers |-> "none"]
  /\ cachefile = {} /\ added = {} /\ spc = "parse" /\ why = "no"

\* In lockfile() or unlockfile()
InLock(p) == LockStep(p) /\ UNCHANGED parsevars

ParsersGoOn ==
  \/ \E p \in Parsers : ParserStep(p) \/ Feed(p) \/ InLock(p)
  \/ ServerStep \/ InLock(Server)

ParseNext == ParsersGoOn \/ \E kind \in MayStop : Stop(kind)

allparse == <<lockvars, parsevars>>

\* Something goes on as long as it can; nobody has to stop the parsing.
ParseFair == WF_allparse(ParsersGoOn)

ParseSpec == LockInit /\ ParseInit /\ [][ParseNext]_allparse /\ ParseFair

-----------------------------------------------------------------------------
(* Properties                                                               *)

ParseTypeOK ==
  /\ broken \subseteq Recipes
  /\ {jobs, finds, buffer} \subseteq [Parsers -> SUBSET Recipes]
  /\ ppc \in [Parsers -> {"parse", "flush", "save", "write", "saved"}]
  /\ extras \in [Parsers -> {"none", "torn", "written"}]
  /\ Len(pipe) \in 0..PipeRoom /\ quits \in 0..Cardinality(Parsers)
  /\ cachefile \subseteq Recipes /\ added \subseteq Recipes
  /\ spc \in {"parse", "drain", "join", "merge", "merged", "over"}
  /\ why \in {"no", "end", "error", "soft", "hard"}

(* What a parser has saved is in the cache file or waits in a file of its   *)
(* own: the server never reads, and removes, a file that is being written,  *)
(* though after a forced shutdown it does not wait for the parsers          *)
(* (save_extras, save_merge).                                               *)
NothingLost ==
  \A p \in Parsers : ppc[p] = "saved" => finds[p] \subseteq cachefile \/ extras[p] = "written"

(* When all was parsed, all that was found is in the cache file, and every  *)
(* recipe is known and parses (CookerParser.shutdown, updateCache).         *)
AllMerged ==
  spc = "over" /\ why = "end" =>
    cachefile = Recipes /\ added = Recipes /\ broken = {}

(* Parsing ends, a stop that waits for the parsers aside                    *)
(* (CookerParser.parse_next, shutdown).                                     *)
ParsingEnds == <>(spc = "over" \/ why = "soft")

(* A shutdown during parsing returns: it cleans up the queue for this to be *)
(* so (CookerParser.shutdown).                                              *)
SoftStopReturns == why = "soft" ~> spc = "over"

(* All that is promised of what the parsers find (save_extras, save_merge)  *)
FindsSound == ParseTypeOK /\ NothingLost /\ AllMerged
=============================================================================
