------------------------------- MODULE Fetch -------------------------------
(***************************************************************************)
(* Fetch: a file of DL_DIR that several recipes download, unpack or clean   *)
(* (Fetch.download, Fetch.unpack, Fetch.clean, verify_donestamp and         *)
(* update_stamp in lib/bb/fetch2/__init__.py, with a wget URL).             *)
(*                                                                          *)
(* Next to the file lies a stamp with the checksums it had when it was last *)
(* verified; while the file is older than the stamp they stand for those of *)
(* the file.  All of it is done with the lock file of the download held,    *)
(* taken and let go of step by step (LockFile); the disk may be left        *)
(* halfway through a step by a process that dies, and a task that died is   *)
(* run again.  A content stands for its own checksums; a recipe wants one.  *)
(* Left out: mirror tarballs, file:// mirrors and their own lock files,     *)
(* URLs without checksums, I/O errors.                                      *)
(***************************************************************************)
EXTENDS LockFile

CONSTANTS
  Versions,        \* the contents the sources have for the name of the file
  MaxDeaths        \* how often a process may die

ASSUME FetchAssumption ==
  /\ Versions \cap {"part", "none", "torn", "fails", "refused"} = {}
  /\ MaxDeaths \in Nat

VARIABLES
  localfile,       \* the content of ud.localpath: a version, "part" or "none"
  stamp,           \* ud.donestamp: the version whose checksums it holds,
                   \* "torn" (nothing to be read in it) or "none"
  fresh,           \* is there a stamp, and the file older than it?
  job,             \* job[p]: "fetch" (do_fetch, then do_unpack), "clean" or "none"
  wants,           \* wants[p]: the version whose checksums p's recipe has
  offers,          \* what each kind of source has: a version, or it "fails", or
                   \* is "refused": the network must not be used from there on
  pc,              \* where p is in its job
  done,            \* done[p]: download()'s done
  unpacked,        \* unpacked[p]: what p unpacked, or "none"
  deaths

disk      == <<localfile, stamp, fresh>>
setting   == <<job, wants, offers>>
fetchvars == <<localfile, stamp, fresh, job, wants, offers, pc, done, unpacked, deaths>>

Contents == Versions \cup {"part", "none"}
Sources  == {"premirror", "upstream", "mirror"}
\* BB_NO_NETWORK, BB_FETCH_PREMIRRORONLY or neither
Offers   == {o \in [Sources -> Versions \cup {"fails", "refused"}] :
               /\ o["premirror"] = "refused" => o["upstream"] = "refused"
               /\ o["mirror"] = "refused" <=> o["upstream"] = "refused"}

\* The steps of download() under its lock
Downloading == {"verify", "premirror", "early", "again", "upstream", "late", "mirror",
                "final"}
\* With these p lets go of the lock.
\* Mutant: not when it is left with an exception (no finally).
Mutant_Leaving == {"fetched", "unpacked", "cleaned"}
Leaving == {"fetched", "unfetched", "unpacked", "cleaned"}

Goes(p, step) == pc' = [pc EXCEPT ![p] = step]
Sets(p, b)    == done' = [done EXCEPT ![p] = b]

-----------------------------------------------------------------------------
(* The file and its stamp                                                   *)

\* Are the checksums in the stamp taken for those of the file?
\* Mutant: however old the stamp is.
Mutant_Precomputed == stamp \in Versions
Precomputed == stamp \in Versions /\ fresh

Believed    == IF Precomputed THEN stamp ELSE localfile
Verified(p) == localfile # "none" /\ Believed = wants[p]

\* A stamp is written after the file; a server may have dated the file later.
WriteStamp(c) == stamp' = c /\ fresh' \in BOOLEAN /\ UNCHANGED localfile
NoFileLeft    == localfile' = "none" /\ stamp' = "none" /\ fresh' = FALSE

(* verify_donestamp(): what it says is Verified(p), before it does this.    *)
VerifyDonestamp(p) ==
  \/ Verified(p) /\ Precomputed /\ UNCHANGED disk
  \/ Verified(p) /\ ~Precomputed /\ WriteStamp(localfile)
  \/ localfile = "none" /\ NoFileLeft
  \/ localfile # "none" /\ ~Verified(p) /\ NoFileLeft

(* update_stamp(): a stamp that is there is only touched.                   *)
StampRefused(p) == stamp = "none" /\ localfile # wants[p]

UpdateStamp(p) ==
  \/ stamp # "none" /\ WriteStamp(stamp)
  \/ stamp = "none" /\ ~StampRefused(p) /\ WriteStamp(localfile)
  \/ StampRefused(p) /\ NoFileLeft

\* A method's download(); what a failed one left is removed by clean().
Download(p, source) ==
  /\ fresh' \in {FALSE, stamp # "none"} /\ UNCHANGED stamp
  /\ IF offers[source] \in Versions
     THEN localfile' = offers[source] /\ Sets(p, TRUE)
     ELSE localfile' = "none" /\ Sets(p, FALSE)

(* try_mirrors() with one mirror: its verify_donestamp() says no, for a     *)
(* file that was not the right one is gone by now; then the download, whose *)
(* checksums nobody looks at here.                                          *)
TryMirrorUrl(p, source) == localfile = "none" /\ Download(p, source)

-----------------------------------------------------------------------------
(* Fetch.download()                                                         *)

Begin(p) ==
  /\ pc[p] = "start"
  /\ CallsLockfile(p, Exclusive)
  /\ Goes(p, IF job[p] = "fetch" THEN "verify" ELSE "clean")
  /\ UNCHANGED <<disk, setting, done, unpacked, deaths>>

Verify(p) ==
  /\ pc[p] = "verify"
  /\ VerifyDonestamp(p)
  /\ Sets(p, Verified(p))
  /\ Goes(p, IF Verified(p) THEN "again" ELSE "premirror")

Premirror(p) ==
  /\ pc[p] = "premirror" /\ offers["premirror"] # "refused"
  /\ TryMirrorUrl(p, "premirror")
  /\ Goes(p, IF done'[p] THEN "early" ELSE "again")

\* Is it what the recipe wants?  Otherwise the other sources are still to come.
\* Mutant: done stays true.
Mutant_EarlyUpdate(p) ==
  /\ pc[p] = "early"
  /\ UpdateStamp(p)
  /\ Goes(p, "again")
  /\ UNCHANGED done
EarlyUpdate(p) ==
  /\ pc[p] = "early"
  /\ UpdateStamp(p)
  /\ Sets(p, ~StampRefused(p))
  /\ Goes(p, "again")

\* verified_stamp
VerifyAgain(p) ==
  /\ pc[p] = "again"
  /\ VerifyDonestamp(p)
  /\ Goes(p, IF done[p] \/ Verified(p) THEN "final" ELSE "upstream")
  /\ UNCHANGED done

Upstream(p) ==
  /\ pc[p] = "upstream" /\ offers["upstream"] # "refused"
  /\ Download(p, "upstream")
  /\ Goes(p, IF done'[p] THEN "late" ELSE "mirror")

\* NetworkAccess goes past everything but the finally.
NoNetwork(p) ==
  /\ pc[p] \in Sources /\ offers[pc[p]] = "refused"
  /\ Goes(p, "unfetched")
  /\ UNCHANGED <<disk, done>>

LateUpdate(p) ==
  /\ pc[p] = "late"
  /\ UpdateStamp(p)
  /\ Sets(p, ~StampRefused(p))
  /\ Goes(p, IF StampRefused(p) THEN "mirror" ELSE "final")

Mirror(p) ==
  /\ pc[p] = "mirror"
  /\ TryMirrorUrl(p, "mirror")
  /\ Goes(p, "final")

FinalUpdate(p) ==
  /\ pc[p] = "final"
  /\ IF ~done[p] \/ localfile = "none"
     THEN Goes(p, "unfetched") /\ UNCHANGED disk
     ELSE UpdateStamp(p) /\ Goes(p, IF StampRefused(p) THEN "unfetched" ELSE "fetched")
  /\ UNCHANGED done

DownloadStep(p) ==
  /\ Holds(p)
  /\ \/ Verify(p) \/ Premirror(p) \/ EarlyUpdate(p) \/ VerifyAgain(p)
     \/ Upstream(p) \/ NoNetwork(p) \/ LateUpdate(p) \/ Mirror(p) \/ FinalUpdate(p)
  /\ UNCHANGED <<lockvars, setting, unpacked, deaths>>

-----------------------------------------------------------------------------
(* Fetch.unpack(), Fetch.clean()                                            *)

BeginUnpack(p) ==
  /\ pc[p] = "fetched" /\ lpc[p] = "none"
  /\ CallsLockfile(p, Exclusive)
  /\ Goes(p, "unpack")
  /\ UNCHANGED <<disk, setting, done, unpacked, deaths>>

Unpack(p) ==
  /\ pc[p] = "unpack" /\ Holds(p) /\ localfile # "none"
  /\ unpacked' = [unpacked EXCEPT ![p] = localfile]
  /\ Goes(p, "unpacked")
  /\ UNCHANGED <<lockvars, disk, setting, done, deaths>>

\* The task ends with the exception, and with it the lock.
NothingToUnpack(p) ==
  /\ pc[p] = "unpack" /\ Holds(p) /\ localfile = "none"
  /\ LetGo(p)
  /\ Goes(p, "missing")
  /\ UNCHANGED <<disk, setting, done, unpacked, deaths>>

Clean(p) ==
  /\ pc[p] = "clean" /\ Holds(p)
  /\ NoFileLeft
  /\ Goes(p, "cleaned")
  /\ UNCHANGED <<lockvars, setting, done, unpacked, deaths>>

Unlocks(p) ==
  /\ pc[p] \in Leaving /\ CallsUnlockfile(p)
  /\ UNCHANGED fetchvars

-----------------------------------------------------------------------------
(* A process dies, and its task is run again.                               *)

(* What a step that was cut off may have done to the disk.                  *)
Halfway(p) ==
  \/ UNCHANGED disk
  \/ Holds(p) /\ pc[p] \in {"verify", "again", "early", "late", "final"}
       /\ localfile = wants[p] /\ ~Precomputed /\ WriteStamp("torn")
  \/ Holds(p) /\ pc[p] \in {"verify", "again", "early", "late", "final", "clean"}
       /\ (pc[p] # "clean" => ~Verified(p))
       /\ localfile' = "none" /\ UNCHANGED <<stamp, fresh>>
  \/ Holds(p) /\ pc[p] \in Sources
       /\ localfile' = "part" /\ fresh' \in {FALSE, stamp # "none"} /\ UNCHANGED stamp

Dies(p) ==
  /\ deaths < MaxDeaths /\ lpc[p] # "none"
  /\ Halfway(p)
  /\ LetGo(p)
  /\ deaths' = deaths + 1
  /\ Goes(p, IF pc[p] \in {"unpack", "unpacked"} THEN "fetched" ELSE "start")
  /\ Sets(p, FALSE)
  /\ UNCHANGED <<setting, unpacked>>

-----------------------------------------------------------------------------

(* A stamp taken for the checksums of the file never lies, or a wrong file  *)
(* would be good for every build to come (verify_donestamp, update_stamp).  *)
StampTrue ==
  stamp \in Versions /\ fresh /\ localfile # "none" => localfile = stamp

(* Any file and stamp an earlier build may have left; whoever put another   *)
(* file there since made it newer than the stamp.                           *)
FetchInit ==
  /\ localfile \in Contents
  /\ stamp \in Versions \cup {"torn", "none"}
  /\ fresh \in BOOLEAN
  /\ fresh => stamp # "none"
  /\ StampTrue
  /\ job \in [Procs -> {"fetch", "clean", "none"}]
  /\ wants \in [Procs -> Versions]
  /\ offers \in Offers
  /\ pc = [p \in Procs |-> IF job[p] = "none" THEN "end" ELSE "start"]
  /\ done = [p \in Procs |-> FALSE]
  /\ unpacked = [p \in Procs |-> "none"]
  /\ deaths = 0

FetchStep(p) ==
  \/ Begin(p) \/ DownloadStep(p) \/ BeginUnpack(p) \/ Unpack(p) \/ NothingToUnpack(p)
  \/ Clean(p) \/ Unlocks(p)
  \/ LockStep(p) /\ UNCHANGED fetchvars

FetchNext == \E p \in Procs : FetchStep(p) \/ Dies(p)

allfetch == <<lockvars, fetchvars>>

\* Some process goes on as long as one can; none has to die.
FetchFair == WF_allfetch(\E p \in Procs : FetchStep(p))

FetchSpec == LockInit /\ FetchInit /\ [][FetchNext]_allfetch /\ FetchFair

-----------------------------------------------------------------------------
(* Properties                                                               *)

FetchTypeOK ==
  /\ localfile \in Contents
  /\ stamp \in Versions \cup {"torn", "none"}
  /\ fresh \in BOOLEAN
  /\ job \in [Procs -> {"fetch", "clean", "none"}]
  /\ wants \in [Procs -> Versions]
  /\ offers \in Offers
  /\ pc \in [Procs -> Downloading \cup Leaving \cup
                      {"start", "unpack", "missing", "clean", "end"}]
  /\ done \in [Procs -> BOOLEAN]
  /\ unpacked \in [Procs -> Contents]
  /\ deaths \in 0..MaxDeaths

(* When download() returns, the file is the one whose checksums the recipe  *)
(* has, whatever a source served, another recipe wants under that name or a *)
(* process that died left (Fetch.download, verify_donestamp).               *)
FetchedIsRight ==
  \A p \in Procs : pc[p] = "fetched" /\ Holds(p) => localfile = wants[p]

Fetchers == {p \in Procs : job[p] # "none"}
Agreed   == \A p, q \in Fetchers : job[p] = "fetch" /\ wants[p] = wants[q]

(* A recipe unpacks what it fetched, though nobody looks at the file again  *)
(* when it is unpacked, as long as the recipes with that file agree on its  *)
(* checksums and nobody cleans it away (Fetch.unpack).                      *)
UnpackedIsRight ==
  Agreed => \A p \in Procs : /\ unpacked[p] \in {"none", wants[p]}
                             /\ pc[p] # "missing"

(* Where upstream has the file, wrong contents on a mirror, in DL_DIR or    *)
(* after a death do not make the fetch fail (Fetch.download).               *)
UpstreamSuffices ==
  \A p \in Procs : pc[p] = "unfetched" => offers["upstream"] # wants[p]

(* Nobody waits for ever for the lock of a download, whose file its holder  *)
(* removes under those that wait, or who dies (Fetch, lockfile, unlockfile). *)
FetchesEnd ==
  <>(\A p \in Procs :
       lpc[p] = "none" /\ pc[p] \in {"unfetched", "unpacked", "missing", "cleaned", "end"})

(* All that a fetch promises of the disk and the sources (download, unpack) *)
FetchSound == FetchTypeOK /\ StampTrue /\ FetchedIsRight /\ UnpackedIsRight
=============================================================================
