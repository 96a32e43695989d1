------------------------------ MODULE MCFiles ------------------------------
(***************************************************************************)
(* Three users of a lock file for TLC, one of them in each behaviour: the   *)
(* fetcher, the processes that parse recipes, and processes that call       *)
(* lockfile() in any way.                                                   *)
(***************************************************************************)
EXTENDS Fetch, RecipeParsing

CONSTANTS p1, p2, p3, v1, v2, r1, r2

VARIABLE user

TheJobs == [p \in {p1, p2} |-> IF p = p1 THEN {r1} ELSE {r2}]

\* p1 fetches v1; p2 does anything with the same file; the others do nothing.
FewFetchers ==
  /\ job[p1] = "fetch" /\ job[p3] = "none" /\ job[p2] # "none"
  /\ wants[p1] = v1 /\ wants[p3] = v1 /\ (job[p2] = "clean" => wants[p2] = v1)
  /\ offers["premirror"] # v1 /\ offers["mirror"] # "fails"

NoFetchers ==
  /\ job = [p \in Procs |-> "none"] /\ wants = [p \in Procs |-> v1]
  /\ offers = [s \in Sources |-> "fails"]
  /\ localfile = "none" /\ stamp = "none"

NoParsers ==
  /\ broken = {} /\ jobs = [p \in Parsers |-> {}] /\ finds = jobs /\ buffer = jobs
  /\ pipe = <<>> /\ quits = 0
  /\ ppc = [p \in Parsers |-> "saved"] /\ extras = [p \in Parsers |-> "none"]
  /\ cachefile = {} /\ added = {} /\ spc = "over" /\ why = "no"

\* An inode is as good as another.
Init ==
  /\ LockInit /\ name \in {NoInode, CHOOSE i \in Inodes : TRUE}
  /\ \/ user = "fetch" /\ FetchInit /\ FewFetchers /\ NoParsers /\ name = NoInode
     \/ user = "parse" /\ ParseInit /\ broken \in {{}, {r1}} /\ NoFetchers /\ FetchInit
          /\ name = NoInode
     \/ user = "any" /\ NoFetchers /\ FetchInit /\ NoParsers

Next ==
  /\ UNCHANGED user
  /\ \/ user = "fetch" /\ FetchNext /\ UNCHANGED parsevars
     \/ user = "parse" /\ ParseNext /\ UNCHANGED fetchvars
     \/ user = "any" /\ LockNext /\ UNCHANGED <<fetchvars, parsevars>>

allfiles == <<lockvars, fetchvars, parsevars, user>>

Spec == Init /\ [][Next]_allfiles /\ FetchFair /\ ParseFair

ParsingSpec == Init /\ user = "parse" /\ [][Next]_allfiles /\ ParseFair

(* Nobody waits for ever: neither for a lock file whose holders come and    *)
(* go, nor for a parser, a soft stop aside (lockfile, CookerParser).        *)
WaitingEnds == FetchesEnd /\ ParsingEnds
=============================================================================
