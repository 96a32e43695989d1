---------------------------- MODULE FilesProofs ----------------------------
(***************************************************************************)
(* Mutual exclusion by a lock file (LockFile), for any number of processes  *)
(* and inodes; what its users promise: a fetch (Fetch), for any number of   *)
(* recipes, any sources and any number of deaths; and that no parser's      *)
(* finds are lost (RecipeParsing), for any number of parsers and recipes,   *)
(* however the parsing ends.                                                *)
(***************************************************************************)
EXTENDS Fetch, RecipeParsing, FiniteSetTheorems, TLAPS

-----------------------------------------------------------------------------
(* The lock.  The kernel's locks exclude each other only on one inode, and  *)
(* the comparison of the inodes has made sure that all who hold the lock    *)
(* have the inode the name stands for.  That stays so because the name is   *)
(* changed by open(), when it stands for nothing, so that nobody holds the  *)
(* lock, and by unlink(), whose caller has the inode for himself.           *)

\* Whoever got past the comparison of the inodes has the inode of the name.
HasTheName(p) ==
  /\ lpc[p] \in {"flock", "stat", "held", "promote", "unlink"} => fd[p] \in Inodes
  /\ lpc[p] \in {"held", "promote", "unlink"} => name = fd[p]

\* Where p is says what lock of the kernel's it has.
FlockIsKnown(p) ==
  /\ lpc[p] \in {"none", "open", "flock", "failed"} => flock[p] = "none"
  /\ lpc[p] \in {"stat", "held", "promote"} => flock[p] = Kind(p)
  /\ lpc[p] = "unlink" => flock[p] = "exclusive"

\* The kernel's locks on one inode go together.
FlocksAgree ==
  \A p, q \in Procs : p # q /\ fd[p] = fd[q] /\ flock[p] = "exclusive" => flock[q] = "none"

LockInv ==
  /\ LockTypeOK
  /\ \A p \in Procs : HasTheName(p) /\ FlockIsKnown(p)
  /\ FlocksAgree

-----------------------------------------------------------------------------

(* The invariant says what it is for: two who have the inode of the name,   *)
(* one of them exclusively, are one (lockfile, unlockfile).                 *)
LEMMA InvExcludes == LockInv => MutualExclusion
  BY DEF LockInv, MutualExclusion, HasTheName, FlockIsKnown, FlocksAgree, LockTypeOK, Kind,
         Ways, Exclusive, Shared, TryIt, WaitOnce

(* It holds when nobody has called lockfile() yet.                          *)
LEMMA LockInvInit == LockInit => LockInv
  BY DEF LockInit, LockInv, LockTypeOK, HasTheName, FlockIsKnown, FlocksAgree, Ways

-----------------------------------------------------------------------------

(* A step of lockfile() up to flock() keeps it: a new inode gets a name     *)
(* only when there is none (open in lockfile).                              *)
LEMMA OpenStep ==
  ASSUME LockInv, NEW p \in Procs, (\E h \in Ways : CallsLockfile(p, h)) \/ OpenFile(p)
  PROVE  LockInv'
<1> USE LockFileAssumption DEF LockInv, LockTypeOK, HasTheName, FlockIsKnown, FlocksAgree, Kind
<1>1. CASE \E h \in Ways : CallsLockfile(p, h)
  BY <1>1 DEF CallsLockfile
<1>2. CASE OpenFile(p)
  <2>1. LockTypeOK'
    BY <1>2 DEF OpenFile, FreeInodes
  <2>2. ASSUME NEW q \in Procs PROVE HasTheName(q)'
    BY <1>2 DEF OpenFile, FreeInodes
  <2>3. ASSUME NEW q \in Procs PROVE FlockIsKnown(q)'
    BY <1>2 DEF OpenFile
  <2>4. FlocksAgree'
    BY <1>2 DEF OpenFile
  <2> QED BY <2>1, <2>2, <2>3, <2>4
<1> QED BY <1>1, <1>2

(* What the kernel grants agrees with what it granted before, and the       *)
(* comparison puts p among those with the inode of the name (lockfile).     *)
LEMMA LockingStep ==
  ASSUME LockInv, NEW p \in Procs, Flock(p) \/ CompareInodes(p)
  PROVE  LockInv'
<1> USE LockFileAssumption DEF LockInv, LockTypeOK, HasTheName, FlockIsKnown, FlocksAgree, Kind
<1>1. CASE Flock(p)
  <2>1. CASE Compatible(p, Kind(p)) /\ lpc' = [lpc EXCEPT ![p] = "stat"]
               /\ flock' = [flock EXCEPT ![p] = Kind(p)] /\ UNCHANGED fd
    BY <1>1, <2>1 DEF Flock, Compatible
  <2>2. CASE TurnedDown(p)
    BY <1>1, <2>2 DEF Flock, TurnedDown
  <2> QED BY <1>1, <2>1, <2>2 DEF Flock
<1>2. CASE CompareInodes(p)
  <2>1. CASE StillThere(p)
    BY <1>2, <2>1 DEF CompareInodes, StillThere
  <2>2. CASE ~StillThere(p)
    BY <1>2, <2>2 DEF CompareInodes, TurnedDown
  <2> QED BY <2>1, <2>2
<1> QED BY <1>1, <1>2

(* The file is unlinked by one who has its inode for himself, so that       *)
(* nobody holds the lock any more (unlockfile).                             *)
LEMMA UnlockingStep ==
  ASSUME LockInv, NEW p \in Procs,
         CallsUnlockfile(p) \/ Promote(p) \/ UnlinkFile(p)
  PROVE  LockInv'
<1> USE LockFileAssumption DEF LockInv, LockTypeOK, HasTheName, FlockIsKnown, FlocksAgree, Kind
<1>1. CASE CallsUnlockfile(p)
  BY <1>1 DEF CallsUnlockfile
<1>2. CASE Promote(p)
  <2>1. CASE MayUnlink(p)
    BY <1>2, <2>1 DEF Promote, MayUnlink, Compatible
  <2>2. CASE ~MayUnlink(p)
    BY <1>2, <2>2 DEF Promote
  <2> QED BY <2>1, <2>2
<1>3. CASE UnlinkFile(p)
  <2>1. ASSUME NEW q \in Procs, q # p PROVE lpc[q] \notin {"held", "promote", "unlink"}
    BY <1>3, <2>1 DEF UnlinkFile
  <2> QED BY <1>3, <2>1 DEF UnlinkFile
<1> QED BY <1>1, <1>2, <1>3

(* Nor does anything depend on one who lets go, or dies (close).            *)
LEMMA LeavingStep ==
  ASSUME LockInv, NEW p \in Procs, WithoutLock(p) \/ LetGo(p)
  PROVE  LockInv'
<1> USE DEF LockInv, LockTypeOK, HasTheName, FlockIsKnown, FlocksAgree, Kind, Leaves, Ways
<1>1. CASE WithoutLock(p)
  BY <1>1 DEF WithoutLock
<1>2. CASE LetGo(p)
  BY <1>2 DEF LetGo
<1> QED BY <1>1, <1>2

(* The invariant is kept by whatever is done with the lock file, so that    *)
(* a component that does no more than that has it too.                      *)
LEMMA LockInvStep == LockInv /\ [LockNext]_lockvars => LockInv'
<1> SUFFICES ASSUME LockInv, [LockNext]_lockvars PROVE LockInv'
  OBVIOUS
<1>1. CASE UNCHANGED lockvars
  BY <1>1 DEF lockvars, LockInv, LockTypeOK, HasTheName, FlockIsKnown, FlocksAgree, Kind
<1>2. ASSUME NEW p \in Procs, LockUse(p) PROVE LockInv'
  <2>1. CASE (\E h \in Ways : CallsLockfile(p, h)) \/ OpenFile(p)
    BY <2>1, OpenStep
  <2>2. CASE Flock(p) \/ CompareInodes(p)
    BY <2>2, LockingStep
  <2>3. CASE CallsUnlockfile(p) \/ Promote(p) \/ UnlinkFile(p)
    BY <2>3, UnlockingStep
  <2>4. CASE WithoutLock(p) \/ LetGo(p) \/ CloseFile(p)
    BY <2>4, LeavingStep DEF CloseFile
  <2> QED BY <1>2, <2>1, <2>2, <2>3, <2>4 DEF LockUse, LockStep
<1> QED BY <1>1, <1>2 DEF LockNext

(* Nobody shares the lock with one who has it for himself, for any number   *)
(* of processes that call lockfile() in any way, and whoever dies           *)
(* (lockfile, unlockfile).                                                  *)
THEOREM LockExcludes == LockSpec => []LockSound
<1>1. LockSpec => []LockInv
  BY LockInvInit, LockInvStep, PTL DEF LockSpec
<1>2. LockInv => LockSound
  BY InvExcludes DEF LockInv, LockSound
<1> QED BY <1>1, <1>2, PTL

-----------------------------------------------------------------------------
(* The fetch.  Nobody but the holder of the lock changes the disk, so the   *)
(* place the holder is at says what is on it (DiskAt): the sources are only *)
(* asked when neither file nor stamp is left, so that a stamp that is       *)
(* merely touched belongs to the file.  That the holder is alone carries    *)
(* over from LockFile, whose steps are the only ones taken with the lock    *)
(* file here.                                                               *)

\* What the holder of the lock finds on the disk where it is
DiskAt(p) ==
  /\ pc[p] \in Sources => localfile = "none" /\ stamp = "none"
  /\ pc[p] \in {"early", "late"} => stamp = "none"
  /\ pc[p] = "final" => \/ localfile = "none" \/ stamp = "none"
                        \/ localfile = wants[p] /\ stamp = wants[p]
  /\ pc[p] = "fetched" => localfile = wants[p]

\* The lock is always asked for exclusively, where a job begins.
AsksForLock(p) ==
  /\ how[p] = Exclusive
  /\ lpc[p] \in {"open", "flock", "stat"} => pc[p] \in {"verify", "clean", "unpack"}

FetchInv ==
  /\ LockInv
  /\ FetchTypeOK
  /\ StampTrue
  /\ \A p \in Procs : AsksForLock(p) /\ (Holds(p) => DiskAt(p))

-----------------------------------------------------------------------------

(* Here the lock has one holder (lockfile, with no argument but its name).  *)
LEMMA OneHolder ==
  ASSUME FetchInv, NEW p \in Procs, NEW q \in Procs, Holds(p), Holds(q)
  PROVE  p = q
  BY InvExcludes DEF FetchInv, AsksForLock, Holds, MutualExclusion, Exclusive

(* What the fetcher and a death do to the lock file is among what can       *)
(* happen to one: so the invariant of LockFile holds here.                  *)
LEMMA LockStepsOnly == FetchNext => [LockNext]_lockvars
<1> SUFFICES ASSUME NEW p \in Procs, FetchStep(p) \/ Dies(p) PROVE LockUse(p) \/ UNCHANGED lockvars
  BY DEF FetchNext, LockNext
<1>1. CASE Dies(p)
  BY <1>1 DEF Dies, LockUse
<1>2. CASE FetchStep(p)
  BY <1>2 DEF FetchStep, Begin, DownloadStep, BeginUnpack, Unpack, NothingToUnpack, Clean,
              Unlocks, LockUse, Ways
<1> QED BY <1>1, <1>2

-----------------------------------------------------------------------------
(* The operations on the file and its stamp                                 *)

(* verify_donestamp() leaves a true stamp, and the file the recipe wants or *)
(* none.                                                                    *)
LEMMA VerifyKeepsTruth ==
  ASSUME FetchInv, NEW p \in Procs, VerifyDonestamp(p)
  PROVE  /\ StampTrue'
         /\ localfile' \in Contents /\ stamp' \in Versions \cup {"torn", "none"} /\ fresh' \in BOOLEAN
         /\ Verified(p) => localfile' = wants[p] /\ stamp' = wants[p]
         /\ ~Verified(p) => localfile' = "none" /\ stamp' = "none"
<1> USE FetchAssumption DEF FetchInv, FetchTypeOK, Contents, StampTrue, Verified, Believed,
                            Precomputed, disk
<1>1. CASE Verified(p)
  BY <1>1 DEF VerifyDonestamp, WriteStamp
<1>2. CASE ~Verified(p)
  BY <1>2 DEF VerifyDonestamp, NoFileLeft
<1> QED BY <1>1, <1>2

(* update_stamp() does so too where there was no stamp, or a true one.      *)
LEMMA UpdateKeepsTruth ==
  ASSUME FetchInv, NEW p \in Procs, UpdateStamp(p), localfile # "none",
         stamp = "none" \/ (localfile = wants[p] /\ stamp = wants[p])
  PROVE  /\ StampTrue'
         /\ localfile' \in Contents /\ stamp' \in Versions \cup {"torn", "none"} /\ fresh' \in BOOLEAN
         /\ ~StampRefused(p) => localfile' = wants[p]
         /\ StampRefused(p) => localfile' = "none" /\ stamp' = "none"
  BY FetchAssumption DEF FetchInv, FetchTypeOK, Contents, StampTrue, UpdateStamp, StampRefused,
                         WriteStamp, NoFileLeft

(* A download into an empty place: no stamp speaks for what it brings.      *)
LEMMA DownloadKeepsTruth ==
  ASSUME FetchInv, NEW p \in Procs, NEW s \in Sources, Download(p, s), stamp = "none"
  PROVE  /\ StampTrue'
         /\ localfile' \in Contents /\ stamp' = "none" /\ fresh' \in BOOLEAN
         /\ done'[p] \in BOOLEAN /\ done' \in [Procs -> BOOLEAN]
         /\ ~done'[p] => localfile' = "none"
  BY FetchAssumption DEF FetchInv, FetchTypeOK, Contents, StampTrue, Download, Sets, Offers

-----------------------------------------------------------------------------
(* The steps                                                                *)

\* What a step of p has to show of the fetcher's own variables.
KeepsDisk(p) ==
  /\ FetchTypeOK' /\ StampTrue'
  /\ lpc'[p] \in {"open", "flock", "stat"} => pc'[p] \in {"verify", "clean", "unpack"}
  /\ Holds(p)' => DiskAt(p)'

(* One step of download() leaves the disk as its next step expects it       *)
(* (Fetch.download).                                                        *)
LEMMA DownloadStepKeeps ==
  ASSUME FetchInv, NEW p \in Procs, DownloadStep(p)
  PROVE  KeepsDisk(p)
<1> USE FetchAssumption DEF Sources, Downloading
<1>1. Holds(p) /\ DiskAt(p) /\ UNCHANGED <<lockvars, setting, unpacked, deaths>>
  BY DEF DownloadStep, FetchInv
<1>2. /\ FetchTypeOK /\ lpc' = lpc /\ wants' = wants /\ job' = job /\ offers' = offers
      /\ unpacked' = unpacked /\ deaths' = deaths /\ Holds(p)' /\ lpc'[p] = "held"
  BY <1>1 DEF lockvars, setting, FetchInv, Holds
<1>3. ASSUME pc' = [pc EXCEPT ![p] = pc'[p]],
             pc'[p] \in (Downloading \cup Leaving) \ {"verify"},
             done' \in [Procs -> BOOLEAN],
             StampTrue', localfile' \in Contents,
             stamp' \in Versions \cup {"torn", "none"}, fresh' \in BOOLEAN,
             DiskAt(p)'
      PROVE  KeepsDisk(p)
  BY <1>2, <1>3 DEF KeepsDisk, FetchTypeOK, Leaving
<1>4. pc \in [Procs -> Downloading \cup Leaving \cup {"start", "unpack", "missing", "clean", "end"}]
      /\ done \in [Procs -> BOOLEAN] /\ wants[p] \in Versions
  BY <1>2 DEF FetchTypeOK
<1>5. /\ StampTrue /\ localfile \in Contents
      /\ stamp \in Versions \cup {"torn", "none"} /\ fresh \in BOOLEAN
  BY DEF FetchInv, FetchTypeOK
<1>6. Verified(p) \in BOOLEAN /\ StampRefused(p) \in BOOLEAN
  BY DEF Verified, StampRefused
<1> USE DEF Goes, Sets
<1>a. CASE Verify(p)
  BY <1>a, <1>3, <1>4, <1>2, <1>6, VerifyKeepsTruth DEF Verify, DiskAt
<1>b. CASE Premirror(p)
  <2>1. stamp = "none" /\ localfile = "none" /\ Download(p, "premirror")
    BY <1>b, <1>1 DEF Premirror, TryMirrorUrl, DiskAt
  <2> QED BY <2>1, <1>b, <1>3, <1>4, <1>2, DownloadKeepsTruth DEF Premirror, DiskAt
<1>c. CASE EarlyUpdate(p)
  <2>1. stamp = "none" /\ UpdateStamp(p) /\ done' \in [Procs -> BOOLEAN]
        /\ pc' = [pc EXCEPT ![p] = "again"]
    BY <1>c, <1>1, <1>4, <1>6 DEF EarlyUpdate, DiskAt
  <2>2. CASE localfile = "none"
    <3>1. StampRefused(p)
      BY <2>1, <2>2, <1>4 DEF StampRefused
    <3>2. localfile' = "none" /\ stamp' = "none" /\ fresh' = FALSE
      BY <2>1, <3>1 DEF UpdateStamp, NoFileLeft, StampRefused
    <3> QED BY <3>2, <2>1, <1>3, <1>4 DEF DiskAt, StampTrue, Contents
  <2>3. CASE localfile # "none"
    BY <2>1, <2>3, <1>3, <1>4, UpdateKeepsTruth DEF DiskAt
  <2> QED BY <2>2, <2>3
<1>d. CASE VerifyAgain(p)
  BY <1>d, <1>3, <1>4, <1>2, <1>6, VerifyKeepsTruth DEF VerifyAgain, DiskAt
<1>e. CASE Upstream(p)
  <2>1. stamp = "none" /\ localfile = "none" /\ Download(p, "upstream")
    BY <1>e, <1>1 DEF Upstream, DiskAt
  <2> QED BY <2>1, <1>e, <1>3, <1>4, <1>2, DownloadKeepsTruth DEF Upstream, DiskAt
<1>f. CASE NoNetwork(p)
  BY <1>f, <1>3, <1>4, <1>5, <1>2 DEF NoNetwork, DiskAt, disk, StampTrue, Leaving
<1>g. CASE LateUpdate(p)
  <2>1. stamp = "none" /\ UpdateStamp(p) /\ done' \in [Procs -> BOOLEAN]
        /\ pc' = [pc EXCEPT ![p] = IF StampRefused(p) THEN "mirror" ELSE "final"]
    BY <1>g, <1>1, <1>4, <1>6 DEF LateUpdate, DiskAt
  <2>2. CASE StampRefused(p)
    <3>1. localfile' = "none" /\ stamp' = "none" /\ fresh' = FALSE
      BY <2>1, <2>2 DEF UpdateStamp, NoFileLeft, StampRefused
    <3> QED BY <3>1, <2>1, <2>2, <1>3, <1>4 DEF DiskAt, StampTrue, Contents
  <2>3. CASE ~StampRefused(p)
    <3>1. localfile = wants[p]
      BY <2>1, <2>3 DEF StampRefused
    <3>2. localfile' = wants[p] /\ stamp' = wants[p] /\ fresh' \in BOOLEAN
      BY <2>1, <2>3, <3>1 DEF UpdateStamp, WriteStamp
    <3> QED BY <3>2, <2>1, <2>3, <1>2, <1>3, <1>4 DEF DiskAt, StampTrue, Contents
  <2> QED BY <2>2, <2>3
<1>h. CASE Mirror(p)
  <2>1. stamp = "none" /\ localfile = "none" /\ Download(p, "mirror")
    BY <1>h, <1>1 DEF Mirror, TryMirrorUrl, DiskAt
  <2> QED BY <2>1, <1>h, <1>3, <1>4, <1>2, DownloadKeepsTruth DEF Mirror, DiskAt
<1>i. CASE FinalUpdate(p)
  <2>1. CASE ~done[p] \/ localfile = "none"
    BY <2>1, <1>i, <1>3, <1>4, <1>5, <1>2 DEF FinalUpdate, DiskAt, disk, StampTrue, Leaving
  <2>2. CASE ~(~done[p] \/ localfile = "none")
    <3>1. UpdateStamp(p) /\ localfile # "none" /\ done' = done
          /\ pc' = [pc EXCEPT ![p] = IF StampRefused(p) THEN "unfetched" ELSE "fetched"]
      BY <2>2, <1>i DEF FinalUpdate
    <3>2. stamp = "none" \/ (localfile = wants[p] /\ stamp = wants[p])
      BY <2>2, <1>i, <1>1 DEF FinalUpdate, DiskAt
    <3> QED BY <3>1, <3>2, <1>2, <1>3, <1>4, <1>6, UpdateKeepsTruth DEF DiskAt, Leaving
  <2> QED BY <2>1, <2>2
<1> QED
  BY <1>a, <1>b, <1>c, <1>d, <1>e, <1>f, <1>g, <1>h, <1>i DEF DownloadStep

(* So do unpack(), clean() and what is done on the way to the lock and back.*)
LEMMA OtherStepKeeps ==
  ASSUME FetchInv, NEW p \in Procs, FetchStep(p), ~DownloadStep(p)
  PROVE  KeepsDisk(p)
<1> USE FetchAssumption DEF FetchInv, FetchTypeOK, KeepsDisk, DiskAt, AsksForLock, Holds, StampTrue,
                            Goes, Sources, Downloading, Leaving, Contents, disk, setting
<1>1. lpc \in [Procs -> {"none", "open", "flock", "stat", "held", "failed", "promote",
                         "unlink", "close"}]
  BY DEF LockInv, LockTypeOK
<1>a. CASE Begin(p)
  BY <1>a, <1>1 DEF Begin, CallsLockfile
<1>b. CASE BeginUnpack(p)
  BY <1>b, <1>1 DEF BeginUnpack, CallsLockfile
<1>c. CASE Unpack(p)
  BY <1>c, <1>1 DEF Unpack, lockvars
<1>d. CASE NothingToUnpack(p)
  BY <1>d, <1>1 DEF NothingToUnpack, LetGo, Leaves
<1>e. CASE Clean(p)
  BY <1>e, <1>1 DEF Clean, NoFileLeft, lockvars
<1>f. CASE Unlocks(p)
  BY <1>f, <1>1 DEF Unlocks, CallsUnlockfile, fetchvars
<1>g. CASE LockStep(p) /\ UNCHANGED fetchvars
  BY <1>g, <1>1 DEF LockStep, OpenFile, Flock, CompareInodes, TurnedDown, Promote, UnlinkFile,
                    CloseFile, LetGo, Leaves, fetchvars
<1> QED BY <1>a, <1>b, <1>c, <1>d, <1>e, <1>f, <1>g DEF FetchStep

(* A death leaves a true stamp or one that cannot be read.                  *)
LEMMA DeathKeeps ==
  ASSUME FetchInv, NEW p \in Procs, Dies(p)
  PROVE  KeepsDisk(p)
<1> USE FetchAssumption DEF FetchInv, FetchTypeOK, DiskAt, StampTrue, Goes, Sets,
                            Sources, Downloading, Leaving, Contents
<1>1. /\ localfile' \in Contents /\ stamp' \in Versions \cup {"torn", "none"}
      /\ fresh' \in BOOLEAN /\ StampTrue'
  <2>1. CASE UNCHANGED disk
    BY <2>1 DEF disk
  <2>2. CASE WriteStamp("torn")
    BY <2>2 DEF WriteStamp
  <2>3. CASE localfile' = "none" /\ UNCHANGED <<stamp, fresh>>
    BY <2>3
  <2>4. CASE /\ Holds(p) /\ pc[p] \in Sources
             /\ localfile' = "part" /\ fresh' \in {FALSE, stamp # "none"} /\ UNCHANGED stamp
    BY <2>4
  <2> QED BY <2>1, <2>2, <2>3, <2>4 DEF Dies, Halfway
<1>2. lpc'[p] = "none"
  BY DEF Dies, LetGo, Leaves, LockInv, LockTypeOK
<1>3. deaths' \in 0..MaxDeaths /\ UNCHANGED <<job, wants, offers, unpacked>>
  BY DEF Dies, setting
<1> QED BY <1>1, <1>2, <1>3 DEF Dies, KeepsDisk, Holds

-----------------------------------------------------------------------------

(* One who does not hold the lock leaves the disk alone, dying included, so *)
(* that what the holder relies on stays as it is.                           *)
LEMMA OthersKeepOff ==
  ASSUME FetchInv, NEW p \in Procs, FetchStep(p) \/ Dies(p), NEW q \in Procs, q # p
  PROVE  /\ lpc'[q] = lpc[q] /\ how'[q] = how[q] /\ pc'[q] = pc[q] /\ wants' = wants
         /\ Holds(q) => UNCHANGED disk
<1> USE DEF Goes, setting
<1>0. Holds(q) => ~Holds(p)
  BY OneHolder
<1>1. lpc'[q] = lpc[q] /\ how'[q] = how[q]
  <2>1. LockUse(p) \/ UNCHANGED lockvars
    <3>1. CASE Dies(p)
      BY <3>1 DEF Dies, LockUse
    <3>2. CASE FetchStep(p)
      BY <3>2 DEF FetchStep, Begin, DownloadStep, BeginUnpack, Unpack, NothingToUnpack, Clean,
                  Unlocks, LockUse, Ways
    <3> QED BY <3>1, <3>2
  <2> QED
    BY <2>1 DEF FetchInv, LockInv, LockTypeOK, LockUse, LockStep, CallsLockfile, OpenFile, Flock,
                CompareInodes, TurnedDown, Promote, UnlinkFile, CloseFile, LetGo, Leaves,
                WithoutLock, CallsUnlockfile, lockvars
<1>2. pc'[q] = pc[q] /\ wants' = wants
  BY DEF FetchInv, FetchTypeOK, FetchStep, Begin, DownloadStep, BeginUnpack, Unpack,
         NothingToUnpack, Clean, Unlocks, Verify, Premirror, EarlyUpdate, VerifyAgain, Upstream,
         NoNetwork, LateUpdate, Mirror, FinalUpdate, Dies, fetchvars
<1>3. Holds(q) => UNCHANGED disk
  <2>1. CASE Dies(p)
    BY <2>1, <1>0 DEF Dies, Halfway
  <2>2. CASE FetchStep(p)
    BY <2>2, <1>0 DEF FetchStep, Begin, DownloadStep, BeginUnpack, Unpack, NothingToUnpack, Clean,
                      Unlocks, fetchvars, disk
  <2> QED BY <2>1, <2>2
<1> QED BY <1>1, <1>2, <1>3

(* The lock is asked for in no other way than exclusively.                  *)
LEMMA AskedExclusively ==
  ASSUME FetchInv, NEW p \in Procs, FetchStep(p) \/ Dies(p)
  PROVE  how'[p] = Exclusive
<1>1. how \in [Procs -> Ways] /\ how[p] = Exclusive
  BY DEF FetchInv, LockInv, LockTypeOK, AsksForLock
<1>2. CASE Dies(p)
  BY <1>1, <1>2 DEF Dies, LetGo, Leaves
<1>3. CASE FetchStep(p)
  BY <1>1, <1>3 DEF FetchStep, Begin, DownloadStep, BeginUnpack, Unpack, NothingToUnpack, Clean,
              Unlocks, LockStep, CallsLockfile, OpenFile, Flock, CompareInodes, Promote,
              UnlinkFile, CloseFile, LetGo, Leaves, CallsUnlockfile, lockvars
<1> QED BY <1>2, <1>3

LEMMA FetchInvInit == LockInit /\ FetchInit => FetchInv
  BY LockInvInit, FetchAssumption
  DEF FetchInv, FetchInit, FetchTypeOK, AsksForLock, Holds, LockInit, Contents

(* Every step keeps the invariant (all of Fetch.download, unpack and clean).*)
LEMMA FetchInvStep == FetchInv /\ [FetchNext]_allfetch => FetchInv'
<1> SUFFICES ASSUME FetchInv, [FetchNext]_allfetch PROVE FetchInv'
  OBVIOUS
<1>1. CASE UNCHANGED allfetch
  <2>1. LockInv'
    BY <1>1, LockInvStep DEF FetchInv, allfetch
  <2> QED BY <2>1, <1>1 DEF allfetch, lockvars, fetchvars, FetchInv, FetchTypeOK, StampTrue,
                            AsksForLock, Holds, DiskAt
<1>2. CASE FetchNext
  <2>1. LockInv'
    BY <1>2, LockStepsOnly, LockInvStep DEF FetchInv
  <2>2. PICK p \in Procs : FetchStep(p) \/ Dies(p)
    BY <1>2 DEF FetchNext
  <2>3. KeepsDisk(p)
    BY <2>2, DownloadStepKeeps, OtherStepKeeps, DeathKeeps
  <2>4. ASSUME NEW q \in Procs PROVE AsksForLock(q)' /\ (Holds(q)' => DiskAt(q)')
    <3>1. CASE q = p
      BY <3>1, <2>2, <2>3, AskedExclusively DEF KeepsDisk, AsksForLock
    <3>2. CASE q # p
      BY <3>2, <2>2, OthersKeepOff DEF FetchInv, AsksForLock, Holds, DiskAt, disk
    <3> QED BY <3>1, <3>2
  <2> QED BY <2>1, <2>3, <2>4 DEF FetchInv, KeepsDisk
<1> QED BY <1>1, <1>2

LEMMA FetchInvAlways == FetchSpec => []FetchInv
  BY FetchInvInit, FetchInvStep, PTL DEF FetchSpec

(* When download() returns, the file is the one whose checksums the recipe  *)
(* has, whatever the sources serve, other recipes want under the name, or   *)
(* processes that died left (Fetch.download, verify_donestamp).             *)
THEOREM FetchedRight == FetchSpec => []FetchedIsRight
<1>1. FetchInv => FetchedIsRight
  BY DEF FetchInv, FetchedIsRight, DiskAt
<1> QED BY <1>1, FetchInvAlways, PTL

(* A stamp that would be taken for the file's checksums never lies, though  *)
(* it is touched without a look at the file (update_stamp).                 *)
THEOREM StampsTrue == FetchSpec => []StampTrue
<1>1. FetchInv => StampTrue
  BY DEF FetchInv
<1> QED BY <1>1, FetchInvAlways, PTL

-----------------------------------------------------------------------------
(* Recipes that agree on the checksums                                      *)

\* What was fetched stays.
AgreedAt(p) ==
  /\ pc[p] \in {"fetched", "unpack", "unpacked"} => localfile = wants[p]
  /\ unpacked[p] \in {"none", wants[p]}
  /\ pc[p] # "missing"

HasAJob(p) ==
  /\ job[p] = "none" => pc[p] = "end" /\ lpc[p] = "none"
  /\ job[p] = "fetch" => pc[p] \notin {"clean", "cleaned"}

AgreedInv == FetchInv /\ \A p \in Procs : HasAJob(p) /\ (Agreed => AgreedAt(p))

(* What a job does it was begun for.                                        *)
LEMMA JobsKept ==
  ASSUME AgreedInv, NEW p \in Procs, FetchStep(p) \/ Dies(p)
  PROVE  /\ UNCHANGED <<job, wants>> /\ job[p] # "none"
         /\ \A q \in Procs : HasAJob(q)'
<1>1. UNCHANGED <<job, wants>>
  BY DEF FetchStep, Begin, DownloadStep, BeginUnpack, Unpack, NothingToUnpack, Clean, Unlocks,
         Dies, fetchvars, setting
<1>2. job[p] # "none"
  BY DEF AgreedInv, HasAJob, FetchStep, Begin, DownloadStep, BeginUnpack, Unpack, NothingToUnpack,
         Clean, Unlocks, Leaving, Dies, Holds, LockStep, OpenFile, Flock, CompareInodes, Promote,
         UnlinkFile, CloseFile, CallsUnlockfile
<1>3. ASSUME NEW q \in Procs, q # p PROVE HasAJob(q)'
  BY <1>1, <1>3, OthersKeepOff DEF AgreedInv, HasAJob
<1>4. job[p] = "fetch" => pc'[p] \notin {"clean", "cleaned"}
  <2> USE DEF AgreedInv, FetchInv, FetchTypeOK, HasAJob, Goes
  <2>1. CASE Dies(p)
    BY <2>1 DEF Dies
  <2>2. CASE Begin(p)
    BY <2>2 DEF Begin
  <2>3. CASE DownloadStep(p)
    BY <2>3 DEF DownloadStep, Verify, Premirror, EarlyUpdate, VerifyAgain, Upstream, NoNetwork,
                LateUpdate, Mirror, FinalUpdate
  <2>4. CASE FetchStep(p) /\ ~Begin(p) /\ ~DownloadStep(p)
    BY <2>4 DEF FetchStep, BeginUnpack, Unpack, NothingToUnpack, Clean, Unlocks, fetchvars
  <2> QED BY <2>1, <2>2, <2>3, <2>4
<1> QED BY <1>1, <1>2, <1>3, <1>4 DEF HasAJob

(* A file that is what the holder wants is not touched (verify_donestamp,   *)
(* update_stamp).                                                           *)
LEMMA RightFileStays ==
  ASSUME FetchInv, NEW p \in Procs, FetchStep(p) \/ Dies(p), localfile = wants[p],
         job[p] = "fetch", HasAJob(p)
  PROVE  localfile' = wants[p]
<1> USE FetchAssumption DEF Sources
<1>1. Verified(p) /\ ~StampRefused(p) /\ localfile \in Versions
  BY DEF FetchInv, FetchTypeOK, StampTrue, Verified, Believed, Precomputed, StampRefused
<1>2. ASSUME VerifyDonestamp(p) \/ UpdateStamp(p) PROVE localfile' = localfile
  BY <1>1, <1>2 DEF VerifyDonestamp, UpdateStamp, WriteStamp, disk
<1>3. Holds(p) => pc[p] \notin Sources
  BY <1>1 DEF FetchInv, DiskAt
<1>4. pc[p] # "clean"
  BY DEF HasAJob
<1>5. CASE Dies(p)
  BY <1>5, <1>1, <1>3, <1>4 DEF Dies, Halfway, WriteStamp, disk
<1>6. CASE DownloadStep(p)
  BY <1>6, <1>2, <1>3 DEF DownloadStep, Verify, Premirror, EarlyUpdate, VerifyAgain, Upstream,
     NoNetwork, LateUpdate, Mirror, FinalUpdate, disk
<1>7. CASE FetchStep(p) /\ ~DownloadStep(p)
  BY <1>7, <1>4 DEF FetchStep, Begin, BeginUnpack, Unpack, NothingToUnpack, Clean, Unlocks,
     fetchvars, disk
<1> QED BY <1>5, <1>6, <1>7

LEMMA AgreedInvStep == AgreedInv /\ [FetchNext]_allfetch => AgreedInv'
<1> SUFFICES ASSUME AgreedInv, [FetchNext]_allfetch PROVE AgreedInv'
  OBVIOUS
<1>1. FetchInv /\ FetchInv'
  BY FetchInvStep DEF AgreedInv
<1>2. CASE UNCHANGED allfetch
  BY <1>1, <1>2 DEF AgreedInv, HasAJob, AgreedAt, Agreed, Fetchers, allfetch, fetchvars, lockvars
<1>3. CASE FetchNext
  <2>1. PICK p \in Procs : FetchStep(p) \/ Dies(p)
    BY <1>3 DEF FetchNext
  <2>2. UNCHANGED <<job, wants>> /\ job[p] # "none" /\ \A q \in Procs : HasAJob(q)'
    BY <2>1, JobsKept
  <2>3. ASSUME Agreed', NEW q \in Procs PROVE AgreedAt(q)'
    <3>1. /\ Agreed /\ job[p] = "fetch" /\ HasAJob(p) /\ HasAJob(q)
          /\ AgreedAt(p) /\ AgreedAt(q)
      BY <2>2, <2>3 DEF Agreed, Fetchers, AgreedInv
    <3>2. localfile = wants[p] => localfile' = wants[p]
      BY <2>1, <3>1, <1>1, RightFileStays
    <3>3. CASE q # p
      <4>1. pc'[q] = pc[q]
        BY <2>1, <3>3, <1>1, OthersKeepOff
      <4>2. unpacked'[q] = unpacked[q]
        BY <2>1, <3>3, <1>1 DEF FetchInv, FetchTypeOK, FetchStep, Begin, DownloadStep, BeginUnpack,
           Unpack, NothingToUnpack, Clean, Unlocks, Dies, fetchvars
      <4>3. job[q] # "none" => wants[q] = wants[p]
        BY <3>1, <2>2 DEF Agreed, Fetchers
      <4> QED BY <4>1, <4>2, <4>3, <3>1, <3>2, <2>2 DEF AgreedAt, HasAJob
    <3>4. CASE q = p
      <4> USE FetchAssumption DEF Goes, AgreedAt, FetchInv, FetchTypeOK
      <4>1. CASE DownloadStep(p)
        <5>1. pc'[p] \in Downloading \cup {"fetched", "unfetched"} /\ unpacked' = unpacked
              /\ Holds(p)' /\ DiskAt(p)'
          BY <4>1, <1>1, DownloadStepKeeps DEF DownloadStep, Verify, Premirror, EarlyUpdate, VerifyAgain, Upstream,
             NoNetwork, LateUpdate, Mirror, FinalUpdate, Downloading, KeepsDisk, Holds, lockvars
        <5> QED BY <5>1, <3>1, <3>4, <2>2 DEF Downloading, DiskAt
      <4>2. CASE Dies(p)
        BY <4>2, <3>1, <3>2, <3>4, <2>2, <1>1 DEF Dies
      <4>3. CASE Begin(p)
        BY <4>3, <3>1, <3>4, <2>2, <1>1 DEF Begin
      <4>4. CASE BeginUnpack(p) \/ Unpack(p)
        BY <4>4, <3>1, <3>4, <2>2, <1>1 DEF BeginUnpack, Unpack, disk
      <4>5. CASE NothingToUnpack(p)
        BY <4>5, <3>1, <1>1 DEF NothingToUnpack
      <4>6. CASE Clean(p)
        BY <4>6, <3>1 DEF Clean, HasAJob
      <4>7. CASE UNCHANGED fetchvars
        BY <4>7, <3>1, <3>4, <2>2 DEF fetchvars
      <4> QED BY <2>1, <4>1, <4>2, <4>3, <4>4, <4>5, <4>6, <4>7 DEF FetchStep, Unlocks
    <3> QED BY <3>3, <3>4
  <2> QED BY <1>1, <2>2, <2>3 DEF AgreedInv
<1> QED BY <1>2, <1>3

(* A recipe unpacks what it fetched, though other recipes fetch the file    *)
(* too and any of them may die, when they agree on its checksums            *)
(* (Fetch.unpack, which looks at no checksum).                              *)
THEOREM UnpackedRight == FetchSpec => []UnpackedIsRight
<1>1. LockInit /\ FetchInit => AgreedInv
  BY FetchInvInit, FetchAssumption
  DEF AgreedInv, FetchInit, LockInit, HasAJob, AgreedAt
<1>2. AgreedInv => UnpackedIsRight
  BY DEF AgreedInv, AgreedAt, UnpackedIsRight
<1> QED BY <1>1, <1>2, AgreedInvStep, PTL DEF FetchSpec

(* All of it together: what a fetch returns, what its stamp says and what   *)
(* is unpacked is what the recipe wants (fetch2, download and unpack).      *)
THEOREM FetchKeepsItsWord == FetchSpec => []FetchSound
<1>1. FetchInv => FetchTypeOK
  BY DEF FetchInv
<1> QED BY <1>1, FetchInvAlways, StampsTrue, FetchedRight, UnpackedRight, PTL DEF FetchSound

-----------------------------------------------------------------------------
(* A fetch whose upstream has the file                                      *)

\* Where the holder is says how much is known of the file, when upstream has it.
OnTheWay(p) ==
  offers["upstream"] = wants[p] =>
    /\ pc[p] # "unfetched"
    /\ Holds(p) =>
         /\ pc[p] # "mirror"
         /\ pc[p] = "again" => localfile = IF done[p] THEN wants[p] ELSE "none"
         /\ pc[p] = "late"  => localfile = wants[p]
         /\ pc[p] = "final" => done[p] /\ localfile = wants[p]

UpstreamInv == FetchInv /\ \A p \in Procs : OnTheWay(p)

(* What is done on the way to the lock, in unpack() and clean(), and a      *)
(* death, leave no fetch where its outcome would be decided.                *)
LEMMA OtherStepsOnTheWay ==
  ASSUME UpstreamInv, NEW p \in Procs, FetchStep(p) \/ Dies(p), ~DownloadStep(p)
  PROVE  OnTheWay(p)'
<1> USE DEF UpstreamInv, FetchInv, FetchTypeOK, OnTheWay, Goes, Leaving, Holds
<1>1. lpc \in [Procs -> {"none", "open", "flock", "stat", "held", "failed", "promote",
                         "unlink", "close"}]
  BY DEF LockInv, LockTypeOK
<1>2. UNCHANGED <<wants, offers>>
  BY DEF FetchStep, Begin, BeginUnpack, Unpack, NothingToUnpack, Clean, Unlocks, Dies, fetchvars, setting
<1>3. CASE Dies(p)
  BY <1>1, <1>2, <1>3 DEF Dies, LetGo, Leaves
<1>4. CASE Begin(p) \/ BeginUnpack(p) \/ Unpack(p) \/ NothingToUnpack(p) \/ Clean(p)
  BY <1>2, <1>4 DEF Begin, BeginUnpack, Unpack, NothingToUnpack, Clean
<1>5. CASE Unlocks(p)
  BY <1>2, <1>5 DEF Unlocks, fetchvars
<1>6. CASE LockStep(p) /\ UNCHANGED fetchvars
  <2>1. AsksForLock(p) /\ UNCHANGED <<pc, done, localfile>>
    BY <1>6 DEF fetchvars
  <2>2. lpc'[p] = "held" => pc[p] \in {"verify", "clean", "unpack"} \/ lpc[p] = "held"
    BY <1>6, <1>1, <2>1 DEF AsksForLock, LockStep, OpenFile, Flock, CompareInodes, TurnedDown, Promote,
       UnlinkFile, CloseFile, LetGo, Leaves
  <2> QED BY <1>2, <2>1, <2>2
<1> QED BY <1>3, <1>4, <1>5, <1>6 DEF FetchStep

(* download() asks upstream when no other file was the right one, takes     *)
(* what it serves, and goes to no mirror after that (Fetch.download).       *)
LEMMA DownloadStepsOnTheWay ==
  ASSUME UpstreamInv, NEW p \in Procs, DownloadStep(p)
  PROVE  OnTheWay(p)'
<1> USE FetchAssumption DEF Goes, Sets, Sources
<1>1. SUFFICES ASSUME offers["upstream"] = wants[p]
               PROVE  /\ pc'[p] # "unfetched" /\ pc'[p] # "mirror"
                      /\ pc'[p] = "again" => localfile' = IF done'[p] THEN wants[p] ELSE "none"
                      /\ pc'[p] = "late"  => localfile' = wants[p]
                      /\ pc'[p] = "final" => done'[p] /\ localfile' = wants[p]
  BY DEF DownloadStep, OnTheWay, setting
<1>2. FetchInv /\ Holds(p) /\ DiskAt(p) /\ OnTheWay(p)
  BY DEF UpstreamInv, FetchInv, DownloadStep
<1>3. /\ pc \in [Procs -> Downloading \cup Leaving \cup {"start", "unpack", "missing", "clean", "end"}]
      /\ done \in [Procs -> BOOLEAN] /\ wants[p] \in Versions /\ offers \in Offers
  BY <1>2 DEF FetchInv, FetchTypeOK
<1>4. VerifyDonestamp(p) => localfile' = IF Verified(p) THEN wants[p] ELSE "none"
  BY <1>2, VerifyKeepsTruth
<1>5. Verified(p) \in BOOLEAN /\ StampRefused(p) \in BOOLEAN
  BY DEF Verified, StampRefused
<1>a. CASE Verify(p)
  BY <1>a, <1>3, <1>4, <1>5 DEF Verify
<1>b. CASE Premirror(p)
  BY <1>b, <1>3 DEF Premirror, TryMirrorUrl, Download
<1>c. CASE EarlyUpdate(p)
  BY <1>c, <1>2, <1>3, <1>5 DEF EarlyUpdate, DiskAt, UpdateStamp, StampRefused, WriteStamp, NoFileLeft
<1>d. CASE VerifyAgain(p)
  <2>1. done[p] => localfile = wants[p]
    BY <1>d, <1>1, <1>2 DEF VerifyAgain, OnTheWay
  <2>2. Verified(p) <=> done[p]
    BY <1>d, <1>1, <1>2, <1>3 DEF VerifyAgain, OnTheWay, Verified, Believed, Precomputed, FetchInv, StampTrue
  <2> QED BY <1>d, <2>1, <2>2, <1>3, <1>4 DEF VerifyAgain
<1>e. CASE Upstream(p)
  BY <1>e, <1>1, <1>3 DEF Upstream, Download
<1>f. CASE NoNetwork(p)
  <2>1. pc[p] # "mirror" /\ offers["upstream"] \in Versions
    BY <1>1, <1>2, <1>3 DEF OnTheWay
  <2>2. offers["premirror"] # "refused" /\ offers["upstream"] # "refused"
    BY <2>1, <1>3 DEF Offers
  <2> QED BY <1>f, <2>1, <2>2 DEF NoNetwork
<1>g. CASE LateUpdate(p)
  BY <1>g, <1>1, <1>2, <1>3, <1>5 DEF LateUpdate, DiskAt, OnTheWay, UpdateStamp, StampRefused, WriteStamp
<1>h. CASE Mirror(p)
  BY <1>h, <1>1, <1>2 DEF Mirror, OnTheWay
<1>i. CASE FinalUpdate(p)
  <2>1. done[p] /\ localfile = wants[p]
    BY <1>i, <1>1, <1>2 DEF FinalUpdate, OnTheWay
  <2> QED BY <1>i, <2>1, <1>3 DEF FinalUpdate, StampRefused
<1> QED
  BY <1>a, <1>b, <1>c, <1>d, <1>e, <1>f, <1>g, <1>h, <1>i DEF DownloadStep

LEMMA UpstreamInvStep == UpstreamInv /\ [FetchNext]_allfetch => UpstreamInv'
<1> SUFFICES ASSUME UpstreamInv, [FetchNext]_allfetch PROVE UpstreamInv'
  OBVIOUS
<1>1. FetchInv /\ FetchInv'
  BY FetchInvStep DEF UpstreamInv
<1>2. CASE UNCHANGED allfetch
  BY <1>1, <1>2 DEF UpstreamInv, OnTheWay, Holds, allfetch, fetchvars, lockvars
<1>3. CASE FetchNext
  <2>1. PICK p \in Procs : FetchStep(p) \/ Dies(p)
    BY <1>3 DEF FetchNext
  <2>2. ASSUME NEW q \in Procs PROVE OnTheWay(q)'
    <3>1. CASE q = p
      BY <3>1, <2>1, DownloadStepsOnTheWay, OtherStepsOnTheWay
    <3>2. CASE q # p
      <4>1. offers' = offers /\ done'[q] = done[q]
        BY <1>1, <2>1, <3>2 DEF FetchInv, FetchTypeOK, FetchStep, Begin, DownloadStep, BeginUnpack,
           Unpack, NothingToUnpack, Clean, Unlocks, Verify, Premirror, EarlyUpdate, VerifyAgain,
           Upstream, NoNetwork, LateUpdate, Mirror, FinalUpdate, Download, TryMirrorUrl, Sets, Dies,
           fetchvars, setting
      <4> QED BY <4>1, <1>1, <2>1, <3>2, OthersKeepOff DEF UpstreamInv, OnTheWay, Holds, disk
    <3> QED BY <3>1, <3>2
  <2> QED BY <1>1, <2>2 DEF UpstreamInv
<1> QED BY <1>2, <1>3

(* A fetch does not fail when upstream has the file and the network may be  *)
(* used, whatever the premirror serves, DL_DIR held, other recipes fetch    *)
(* under the name, or a process that died left (Fetch.download).            *)
THEOREM UpstreamIsEnough == FetchSpec => []UpstreamSuffices
<1>1. LockInit /\ FetchInit => UpstreamInv
  BY FetchInvInit DEF UpstreamInv, OnTheWay, FetchInit, LockInit, Holds
<1>2. UpstreamInv => UpstreamSuffices
  BY DEF UpstreamInv, OnTheWay, UpstreamSuffices
<1> QED BY <1>1, <1>2, UpstreamInvStep, PTL DEF FetchSpec

-----------------------------------------------------------------------------
(* The parsing.  A parser writes its file with the lock shared and the      *)
(* server removes the files with the lock for itself, so that it never      *)
(* finds one half written (Writing); that this holds of the lock carries    *)
(* over from LockFile.                                                      *)

\* A file of finds is written under the lock.
Writing(p) == ppc[p] = "write" => Holds(p) /\ extras[p] = "torn"

ParseInv ==
  /\ LockInv
  /\ ppc \in [Parsers -> {"parse", "flush", "save", "write", "saved"}]
  /\ extras \in [Parsers -> {"none", "torn", "written"}]
  /\ finds \in [Parsers -> SUBSET Recipes]
  /\ jobs \in [Parsers -> SUBSET Recipes]
  /\ how[Server] = Exclusive
  /\ \A p \in Parsers : Writing(p)
  /\ NothingLost

-----------------------------------------------------------------------------

(* Parsers and server do nothing to the lock file but what can happen to    *)
(* one (save_extras, save_merge).                                           *)
LEMMA ParseLockSteps ==
  ASSUME ParseNext
  PROVE  [LockNext]_lockvars /\ (how[Server] = Exclusive /\ LockTypeOK => how'[Server] = Exclusive)
<1> USE RecipeParsingAssumption
<1>1. CASE \E p \in Parsers : ParserStep(p) \/ Feed(p)
  BY <1>1 DEF ParserStep, Feed, SeesQuit, Parse, NoJobs, Flushed, OpenExtras, WriteExtras,
     CallsLockfile, CallsUnlockfile, LockNext, LockUse, Ways, lockvars, LockTypeOK
<1>2. CASE ServerStep \/ \E kind \in MayStop : Stop(kind)
  BY <1>2 DEF ServerStep, Receive, AllParsed, Stop, Drain, Silence, Join, Merge, Over,
     CallsLockfile, CallsUnlockfile, LockNext, LockUse, Ways, lockvars, LockTypeOK
<1>3. ASSUME NEW p \in Procs, InLock(p)
      PROVE  LockUse(p) /\ (how[Server] = Exclusive /\ LockTypeOK => how'[Server] = Exclusive)
  BY <1>3 DEF InLock, LockUse, LockStep, OpenFile, Flock, CompareInodes, Promote, UnlinkFile,
     CloseFile, LetGo, Leaves, LockTypeOK
<1> QED BY <1>1, <1>2, <1>3 DEF ParseNext, ParsersGoOn, LockNext

(* The lock is not lost by what others do, nor by what its holder does in   *)
(* lockfile() and unlockfile() (it is let go of by a call).                 *)
LEMMA HeldStaysHeld ==
  ASSUME LockTypeOK, NEW p \in Procs, LockStep(p), NEW q \in Procs, Holds(q)
  PROVE  Holds(q)'
  BY DEF LockTypeOK, Holds, LockStep, OpenFile, Flock, CompareInodes, TurnedDown, Promote, UnlinkFile,
         CloseFile, LetGo, Leaves

(* When the server merges, no parser is writing.                            *)
LEMMA NobodyWrites ==
  ASSUME ParseInv, Holds(Server), NEW p \in Parsers
  PROVE  ppc[p] # "write"
  BY RecipeParsingAssumption, InvExcludes DEF ParseInv, Writing, MutualExclusion, Holds, Exclusive

(* A parser's step: its finds do not change any more once it has ended, and *)
(* what it writes it writes whole (save_extras).                            *)
LEMMA ParserKeeps ==
  ASSUME ParseInv, NEW p \in Parsers, ParserStep(p) \/ Feed(p)
  PROVE  /\ ppc' \in [Parsers -> {"parse", "flush", "save", "write", "saved"}]
         /\ extras' \in [Parsers -> {"none", "torn", "written"}]
         /\ finds' \in [Parsers -> SUBSET Recipes]
         /\ jobs' \in [Parsers -> SUBSET Recipes]
         /\ \A q \in Parsers : Writing(q)'
         /\ NothingLost'
<1> USE RecipeParsingAssumption DEF ParseInv, Writing, NothingLost, PGoes, Holds, servervars, lockvars
<1>0. lpc \in [Procs -> {"none", "open", "flock", "stat", "held", "failed", "promote",
                         "unlink", "close"}]
  BY DEF LockInv, LockTypeOK
<1>1. CASE SeesQuit(p) \/ NoJobs(p)
  BY <1>0, <1>1 DEF SeesQuit, NoJobs
<1>2. CASE Parse(p)
  BY <1>0, <1>2 DEF Parse
<1>3. CASE Flushed(p)
  BY <1>0, <1>3 DEF Flushed, CallsLockfile
<1>4. CASE OpenExtras(p)
  BY <1>0, <1>4 DEF OpenExtras
<1>5. CASE WriteExtras(p)
  BY <1>0, <1>5 DEF WriteExtras, CallsUnlockfile
<1>6. CASE Feed(p)
  BY <1>0, <1>6 DEF Feed
<1> QED BY <1>1, <1>2, <1>3, <1>4, <1>5, <1>6 DEF ParserStep

(* The server's step: what it removes it has merged (save_merge).           *)
LEMMA ServerKeeps ==
  ASSUME ParseInv, ServerStep \/ \E kind \in MayStop : Stop(kind)
  PROVE  /\ UNCHANGED <<ppc, finds, jobs>>
         /\ extras' \in [Parsers -> {"none", "torn", "written"}]
         /\ \A q \in Parsers : Writing(q)'
         /\ NothingLost'
<1> USE RecipeParsingAssumption DEF ParseInv, Writing, NothingLost, Holds, parservars, lockvars
<1>0. lpc \in [Procs -> {"none", "open", "flock", "stat", "held", "failed", "promote",
                         "unlink", "close"}]
  BY DEF LockInv, LockTypeOK
<1>1. CASE Merge
  <2>1. \A q \in Parsers : ppc[q] # "write"
    BY <1>1, NobodyWrites DEF Merge
  <2> QED BY <1>0, <1>1, <2>1 DEF Merge, CallsUnlockfile
<1>2. CASE Join
  BY <1>0, <1>2 DEF Join, CallsLockfile
<1>3. CASE Receive \/ AllParsed \/ Drain \/ Silence \/ Over \/ \E kind \in MayStop : Stop(kind)
  BY <1>3 DEF Receive, AllParsed, Drain, Silence, Over, Stop, Shutdown, servervars
<1> QED BY <1>1, <1>2, <1>3 DEF ServerStep

LEMMA ParseInvInit == LockInit /\ ParseInit => ParseInv
  BY LockInvInit, RecipeParsingAssumption
  DEF ParseInv, ParseInit, LockInit, Writing, NothingLost

LEMMA ParseInvStep == ParseInv /\ [ParseNext]_allparse => ParseInv'
<1> SUFFICES ASSUME ParseInv, [ParseNext]_allparse PROVE ParseInv'
  OBVIOUS
<1>1. CASE UNCHANGED allparse
  <2>1. LockInv'
    BY <1>1, LockInvStep DEF ParseInv, allparse
  <2> QED BY <1>1, <2>1 DEF allparse, parsevars, lockvars, ParseInv, Writing, NothingLost, Holds
<1>2. CASE ParseNext
  <2>1. LockInv' /\ how'[Server] = Exclusive
    BY <1>2, ParseLockSteps, LockInvStep DEF ParseInv, LockInv
  <2>2. CASE \E p \in Parsers : ParserStep(p) \/ Feed(p)
    BY <2>1, <2>2, ParserKeeps DEF ParseInv
  <2>3. CASE ServerStep \/ \E kind \in MayStop : Stop(kind)
    BY <2>1, <2>3, ServerKeeps DEF ParseInv
  <2>4. ASSUME NEW p \in Procs, InLock(p) PROVE ParseInv'
    BY <2>1, <2>4, HeldStaysHeld, RecipeParsingAssumption
    DEF InLock, parsevars, ParseInv, LockInv, Writing, NothingLost
  <2> QED BY <1>2, <2>2, <2>3, <2>4, RecipeParsingAssumption DEF ParseNext, ParsersGoOn
<1> QED BY <1>1, <1>2

(* What a parser saved is in the cache file or waits in its own file,       *)
(* though after a forced shutdown nobody waits for the parsers              *)
(* (save_extras, save_merge, CookerParser.shutdown).                        *)
THEOREM FindsKept == ParseSpec => []NothingLost
<1>1. ParseInv => NothingLost
  BY DEF ParseInv
<1>2. ParseSpec => []ParseInv
  BY ParseInvInit, ParseInvStep, PTL DEF ParseSpec
<1> QED BY <1>1, <1>2, PTL

-----------------------------------------------------------------------------
(* When all was parsed                                                      *)

AllFinds == UNION {finds[p] : p \in Parsers}

\* A result is that of a recipe that was found to parse, or is broken.
ResultsKnown ==
  /\ \A p \in Parsers : buffer[p] \subseteq AllFinds \cup broken
  /\ \A i \in 1..Len(pipe) : pipe[i] \in AllFinds \cup broken
  /\ added \subseteq AllFinds
  /\ added \cap broken = {}

\* How far the server is with a parser that came to its end
EndReached ==
  /\ why = "end" => added = Recipes
  /\ why = "no" <=> spc = "parse"
  /\ spc \in {"merge", "merged", "over"} /\ why = "end" => \A p \in Parsers : ppc[p] = "saved"
  /\ spc \in {"merged", "over"} /\ why = "end" => AllFinds \subseteq cachefile

MergeInv ==
  /\ ParseInv
  /\ buffer \in [Parsers -> SUBSET Recipes] /\ pipe \in Seq(Recipes)
  /\ added \subseteq Recipes /\ cachefile \subseteq Recipes /\ broken \subseteq Recipes
  /\ ResultsKnown
  /\ EndReached

(* The finds only grow, and only while their parser parses (Parser.realrun).*)
LEMMA FindsGrow ==
  ASSUME MergeInv, NEW p \in Parsers, ParserStep(p) \/ Feed(p)
  PROVE  /\ AllFinds \subseteq AllFinds'
         /\ ppc[p] = "saved" => AllFinds' = AllFinds /\ ppc' = ppc
<1>1. finds \in [Parsers -> SUBSET Recipes]
  BY DEF MergeInv, ParseInv
<1>2. CASE Parse(p)
  BY <1>1, <1>2 DEF Parse, AllFinds
<1>3. CASE ~Parse(p)
  BY <1>1, <1>3 DEF AllFinds, ParserStep, Feed, SeesQuit, NoJobs, Flushed, OpenExtras, WriteExtras
<1> QED BY <1>2, <1>3

LEMMA ParserResults ==
  ASSUME MergeInv, NEW p \in Parsers, ParserStep(p) \/ Feed(p)
  PROVE  /\ buffer' \in [Parsers -> SUBSET Recipes] /\ pipe' \in Seq(Recipes)
         /\ ResultsKnown' /\ UNCHANGED <<servervars, broken>>
<1> USE DEF MergeInv, ResultsKnown
<1>1. AllFinds \subseteq AllFinds'
  BY FindsGrow
<1>2. /\ finds \in [Parsers -> SUBSET Recipes] /\ jobs \in [Parsers -> SUBSET Recipes]
  BY DEF ParseInv
<1>3. CASE Parse(p)
  <2>1. PICK r \in jobs[p] :
          /\ buffer' = [buffer EXCEPT ![p] = @ \cup {r}]
          /\ finds' = [finds EXCEPT ![p] = @ \cup ({r} \ broken)]
          /\ UNCHANGED <<servervars, broken, pipe>>
    BY <1>3 DEF Parse
  <2>2. r \in AllFinds' \cup broken
    BY <2>1, <1>2 DEF AllFinds
  <2> QED BY <1>1, <1>2, <2>1, <2>2 DEF servervars
<1>4. CASE Feed(p)
  <2>1. PICK r \in buffer[p] :
          /\ buffer' = [buffer EXCEPT ![p] = @ \ {r}]
          /\ pipe' = Append(pipe, r)
          /\ UNCHANGED <<servervars, broken, finds>>
    BY <1>4 DEF Feed, parservars
  <2>2. r \in Recipes /\ r \in AllFinds \cup broken
    BY <2>1
  <2> QED BY <1>1, <2>1, <2>2 DEF servervars
<1>5. CASE ParserStep(p) /\ ~Parse(p)
  BY <1>1, <1>5 DEF ParserStep, SeesQuit, NoJobs, Flushed, OpenExtras, WriteExtras, servervars
<1> QED BY <1>3, <1>4, <1>5

LEMMA ServerResults ==
  ASSUME MergeInv, ServerStep \/ \E kind \in MayStop : Stop(kind)
  PROVE  /\ buffer' = buffer /\ pipe' \in Seq(Recipes) /\ broken' = broken
         /\ added' \subseteq Recipes /\ cachefile' \subseteq Recipes
         /\ ResultsKnown' /\ EndReached'
<1> USE RecipeParsingAssumption DEF MergeInv, ResultsKnown, EndReached, parservars, servervars, Shutdown
<1>0. finds \in [Parsers -> SUBSET Recipes]
  BY DEF ParseInv
<1>1. CASE Receive
  <2>1. pipe # <<>> /\ pipe' = Tail(pipe) /\ spc = "parse" /\ why = "no"
        /\ UNCHANGED <<buffer, finds, ppc, broken, cachefile>>
    BY <1>1 DEF Receive
  <2>2. Head(pipe) = pipe[1] /\ 1 \in 1..Len(pipe) /\ Head(pipe) \in Recipes
    BY <2>1
  <2>3. pipe' \in Seq(Recipes) /\ \A i \in 1..Len(pipe') : pipe'[i] \in AllFinds \cup broken
    BY <2>1
  <2>4. AllFinds' = AllFinds
    BY <2>1 DEF AllFinds
  <2>5. CASE Head(pipe) \in broken
    BY <1>1, <2>1, <2>3, <2>4, <2>5 DEF Receive
  <2>6. CASE Head(pipe) \notin broken
    BY <1>1, <2>1, <2>2, <2>3, <2>4, <2>6 DEF Receive
  <2> QED BY <2>5, <2>6
<1>2. CASE AllParsed
  <2>1. added = Recipes
    BY <1>2, FS_Subset, FS_CardinalityType DEF AllParsed, Toparse
  <2> QED BY <1>2, <2>1 DEF AllParsed, AllFinds
<1>3. CASE Drain
  BY <1>3 DEF Drain, AllFinds
<1>4. CASE Join
  BY <1>4 DEF Join, Joined, Forced, Exited, AllFinds
<1>5. CASE Merge
  <2>1. AllFinds' = AllFinds /\ cachefile' \subseteq Recipes /\ cachefile \subseteq cachefile'
    BY <1>5, <1>0 DEF Merge, AllFinds
  <2>2. ASSUME why = "end" PROVE AllFinds \subseteq cachefile'
    <3>1. ASSUME NEW p \in Parsers PROVE finds[p] \subseteq cachefile'
      <4>1. finds[p] \subseteq cachefile \/ extras[p] = "written"
        BY <1>5, <2>2 DEF Merge, ParseInv, NothingLost
      <4> QED BY <1>5, <4>1 DEF Merge
    <3> QED BY <3>1 DEF AllFinds
  <2> QED BY <1>5, <2>1, <2>2 DEF Merge
<1>6. CASE Silence \/ Over \/ \E kind \in MayStop : Stop(kind)
  BY <1>6 DEF Silence, Over, Stop, AllFinds
<1> QED BY <1>1, <1>2, <1>3, <1>4, <1>5, <1>6 DEF ServerStep

LEMMA MergeInvStep == MergeInv /\ [ParseNext]_allparse => MergeInv'
<1> SUFFICES ASSUME MergeInv, [ParseNext]_allparse PROVE MergeInv'
  OBVIOUS
<1>1. ParseInv'
  BY ParseInvStep DEF MergeInv
<1>2. CASE UNCHANGED parsevars
  BY <1>1, <1>2 DEF MergeInv, ResultsKnown, EndReached, AllFinds, parsevars
<1>3. ASSUME NEW p \in Parsers, ParserStep(p) \/ Feed(p) PROVE MergeInv'
  <2>1. /\ buffer' \in [Parsers -> SUBSET Recipes] /\ pipe' \in Seq(Recipes)
        /\ ResultsKnown' /\ UNCHANGED <<servervars, broken>>
    BY <1>3, ParserResults
  <2>2. EndReached'
    BY <2>1, <1>3, FindsGrow DEF MergeInv, EndReached, servervars
  <2> QED BY <1>1, <2>1, <2>2 DEF MergeInv, servervars
<1>4. CASE ServerStep \/ \E kind \in MayStop : Stop(kind)
  BY <1>1, <1>4, ServerResults DEF MergeInv
<1> QED BY <1>2, <1>3, <1>4 DEF ParseNext, ParsersGoOn, InLock, allparse

LEMMA MergeInvInit == LockInit /\ ParseInit => MergeInv
<1> SUFFICES ASSUME LockInit, ParseInit PROVE MergeInv
  OBVIOUS
<1>1. AllFinds = {}
  BY DEF ParseInit, AllFinds
<1> QED BY <1>1, ParseInvInit DEF MergeInv, ResultsKnown, EndReached, ParseInit

LEMMA MergeInvAlways == ParseSpec => []MergeInv
  BY MergeInvInit, MergeInvStep, PTL DEF ParseSpec

(* When all was parsed, all that was found is in the cache file, and every  *)
(* recipe is known and parses (CookerParser.shutdown, updateCache).         *)
THEOREM FindsMerged == ParseSpec => []AllMerged
<1>1. MergeInv => AllMerged
  BY DEF MergeInv, ResultsKnown, EndReached, AllMerged
<1> QED BY <1>1, MergeInvAlways, PTL

-----------------------------------------------------------------------------
(* The bounds of the pipe and the queue of quits, and all of it together    *)

QueuesOK ==
  /\ Len(pipe) \in 0..PipeRoom /\ quits \in 0..Cardinality(Parsers)
  /\ spc \in {"parse", "drain", "join", "merge", "merged", "over"}
  /\ why \in {"no", "end", "error", "soft", "hard"}

(* No more results wait in the pipe than it holds, and no more Nones are    *)
(* taken from parser_quit than were put there (Parser.realrun, shutdown).   *)
LEMMA QueuesOKStep == MergeInv /\ QueuesOK /\ [ParseNext]_allparse => QueuesOK'
<1> SUFFICES ASSUME MergeInv, QueuesOK, [ParseNext]_allparse PROVE QueuesOK'
  OBVIOUS
<1> USE RecipeParsingAssumption DEF QueuesOK, servervars
<1>1. pipe \in Seq(Recipes) /\ Cardinality(Parsers) \in Nat
  BY FS_CardinalityType DEF MergeInv
<1>2. CASE UNCHANGED parsevars
  BY <1>2 DEF parsevars
<1>3. ASSUME NEW p \in Parsers, ParserStep(p) \/ Feed(p) PROVE QueuesOK'
  <2>1. CASE SeesQuit(p)
    BY <2>1, <1>1 DEF SeesQuit
  <2>2. CASE Feed(p)
    <3>1. PICK r \in buffer[p] : pipe' = Append(pipe, r)
      BY <2>2 DEF Feed
    <3>2. r \in Recipes
      BY <3>1 DEF MergeInv
    <3>3. Len(pipe') = Len(pipe) + 1
      BY <3>1, <3>2, <1>1
    <3> QED BY <2>2, <3>3, <1>1 DEF Feed
  <2>3. CASE ParserStep(p) /\ ~SeesQuit(p)
    BY <2>3 DEF ParserStep, Parse, NoJobs, Flushed, OpenExtras, WriteExtras
  <2> QED BY <1>3, <2>1, <2>2, <2>3
<1>4. ASSUME pipe # <<>>, pipe' = Tail(pipe) PROVE Len(pipe') \in 0..PipeRoom
  BY <1>1, <1>4
<1>5. CASE Receive
  BY <1>5, <1>4, <1>1 DEF Receive, Shutdown
<1>6. CASE Drain
  BY <1>6, <1>4 DEF Drain
<1>7. CASE AllParsed \/ \E kind \in MayStop : Stop(kind)
  BY <1>7, <1>1 DEF AllParsed, Stop, Shutdown
<1>8. CASE Silence \/ Join \/ Merge \/ Over
  BY <1>8 DEF Silence, Join, Merge, Over
<1> QED
  BY <1>2, <1>3, <1>5, <1>6, <1>7, <1>8 DEF ParseNext, ParsersGoOn, InLock, ServerStep, allparse

(* All that is promised of the finds: none is lost, and all are merged when *)
(* the parsing came to its end (save_extras, save_merge, updateCache).      *)
THEOREM FindsKeptAndMerged == ParseSpec => []FindsSound
<1>1. LockInit /\ ParseInit => QueuesOK
  BY RecipeParsingAssumption, FS_CardinalityType DEF ParseInit, QueuesOK
<1>2. ParseSpec => []QueuesOK
  BY <1>1, MergeInvAlways, QueuesOKStep, PTL DEF ParseSpec
<1>3. MergeInv /\ QueuesOK => ParseTypeOK
  BY DEF MergeInv, ParseInv, QueuesOK, ParseTypeOK
<1> QED BY <1>2, <1>3, MergeInvAlways, FindsKept, FindsMerged, PTL DEF FindsSound
=============================================================================
