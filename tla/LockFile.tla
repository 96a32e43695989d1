------------------------------ MODULE LockFile ------------------------------
(***************************************************************************)
(* LockFile: a file used as a lock (lockfile and unlockfile in              *)
(* lib/bb/utils.py).                                                        *)
(*                                                                          *)
(* Who holds the lock removes the file before letting go of it, so that the *)
(* name may come to stand for another inode between a process's open() and  *)
(* its flock(), and after it.  A process goes through open(), flock() and   *)
(* the comparison of the inodes one step at a time.  The kernel drops the   *)
(* lock of a process that dies; the file stays.                             *)
(***************************************************************************)
EXTENDS Integers

CONSTANTS
  Procs,
  Inodes,
  NoInode

ASSUME LockFileAssumption == NoInode \notin Inodes

VARIABLES
  name,            \* the inode the name of the lock file stands for
  fd,              \* fd[p]: the inode p has open
  flock,           \* flock[p]: "none", or p's flock on it, "shared" or "exclusive"
  lpc,             \* "none", in lockfile() "open", "flock", "stat" and, when it
                   \* returned, "held" or "failed", in unlockfile() "promote",
                   \* "unlink" and "close"
  how              \* how lockfile() was called: shared, retry and block

lockvars == <<name, fd, flock, lpc, how>>

\* The ways it is called
Exclusive   == [shared |-> FALSE, retry |-> TRUE, block |-> FALSE]
Shared      == [shared |-> TRUE, retry |-> TRUE, block |-> FALSE]
TryIt       == [shared |-> FALSE, retry |-> FALSE, block |-> FALSE]
WaitOnce    == [shared |-> FALSE, retry |-> FALSE, block |-> TRUE]
Ways        == {Exclusive, Shared, TryIt, WaitOnce}

Holds(p)       == lpc[p] = "held"
NonBlocking(h) == ~h.retry /\ ~h.block
Kind(p)        == IF how[p].shared THEN "shared" ELSE "exclusive"

\* flock() grants p a lock of this kind.
Compatible(p, kind) ==
  \A q \in Procs \ {p} :
    fd[q] = fd[p] /\ flock[q] # "none" => kind = "shared" /\ flock[q] = "shared"

\* An inode is used again when it has neither a name nor anyone who has it open.
FreeInodes == {i \in Inodes : i # name /\ \A q \in Procs : fd[q] # i}

-----------------------------------------------------------------------------
(* lockfile()                                                               *)

CallsLockfile(p, h) ==
  /\ lpc[p] = "none"
  /\ lpc' = [lpc EXCEPT ![p] = "open"] /\ how' = [how EXCEPT ![p] = h]
  /\ UNCHANGED <<name, fd, flock>>

\* open(name, 'a+') creates the file if there is none.
OpenFile(p) ==
  /\ lpc[p] = "open"
  /\ IF name = NoInode
     THEN \E i \in FreeInodes : name' = i /\ fd' = [fd EXCEPT ![p] = i]
     ELSE UNCHANGED name /\ fd' = [fd EXCEPT ![p] = name]
  /\ lpc' = [lpc EXCEPT ![p] = "flock"]
  /\ UNCHANGED <<flock, how>>

\* lf.close(), and another round or None
TurnedDown(p) ==
  /\ fd' = [fd EXCEPT ![p] = NoInode] /\ flock' = [flock EXCEPT ![p] = "none"]
  /\ lpc' = [lpc EXCEPT ![p] = IF how[p].retry THEN "open" ELSE "failed"]

Flock(p) ==
  /\ lpc[p] = "flock"
  /\ \/ /\ Compatible(p, Kind(p))
        /\ flock' = [flock EXCEPT ![p] = Kind(p)]
        /\ lpc' = [lpc EXCEPT ![p] = "stat"]
        /\ UNCHANGED fd
     \/ /\ ~Compatible(p, Kind(p)) /\ NonBlocking(how[p])
        /\ TurnedDown(p)
  /\ UNCHANGED <<name, how>>

\* Is the file that was locked still the one on disk?
\* Mutant: the inodes are not compared.
Mutant_StillThere(p) == name # NoInode
StillThere(p) == name = fd[p]

CompareInodes(p) ==
  /\ lpc[p] = "stat"
  /\ IF StillThere(p)
     THEN lpc' = [lpc EXCEPT ![p] = "held"] /\ UNCHANGED <<fd, flock>>
     ELSE TurnedDown(p)
  /\ UNCHANGED <<name, how>>

\* p has no part in it any more.
Leaves(p) == /\ lpc' = [lpc EXCEPT ![p] = "none"] /\ how' = [how EXCEPT ![p] = Exclusive]

\* The caller goes on without the lock.
WithoutLock(p) ==
  /\ lpc[p] = "failed"
  /\ Leaves(p)
  /\ UNCHANGED <<name, fd, flock>>

-----------------------------------------------------------------------------
(* unlockfile()                                                             *)

CallsUnlockfile(p) ==
  /\ lpc[p] = "held"
  /\ lpc' = [lpc EXCEPT ![p] = "promote"]
  /\ UNCHANGED <<name, fd, flock, how>>

(* flock() with LOCK_EX | LOCK_NB: a shared lock is lost if it cannot be    *)
(* made an exclusive one.                                                   *)
\* Mutant: a shared lock is not promoted before the file is removed.
Mutant_MayUnlink(p) == TRUE
MayUnlink(p) == Compatible(p, "exclusive")

Promote(p) ==
  /\ lpc[p] = "promote"
  /\ IF MayUnlink(p)
     THEN /\ flock' = [flock EXCEPT ![p] = "exclusive"]
          /\ lpc' = [lpc EXCEPT ![p] = "unlink"]
     ELSE /\ flock' = [flock EXCEPT ![p] = "none"]
          /\ lpc' = [lpc EXCEPT ![p] = "close"]
  /\ UNCHANGED <<name, fd, how>>

UnlinkFile(p) ==
  /\ lpc[p] = "unlink"
  /\ name' = NoInode
  /\ lpc' = [lpc EXCEPT ![p] = "close"]
  /\ UNCHANGED <<fd, flock, how>>

LetGo(p) ==
  /\ fd' = [fd EXCEPT ![p] = NoInode] /\ flock' = [flock EXCEPT ![p] = "none"]
  /\ Leaves(p)
  /\ UNCHANGED name

\* LOCK_UN and close()
CloseFile(p) == lpc[p] = "close" /\ LetGo(p)

-----------------------------------------------------------------------------

LockInit ==
  /\ name \in {NoInode} \cup Inodes     \* a file may have been left behind
  /\ fd = [p \in Procs |-> NoInode]
  /\ flock = [p \in Procs |-> "none"]
  /\ lpc = [p \in Procs |-> "none"]
  /\ how = [p \in Procs |-> Exclusive]

\* What a process does on its own in lockfile() and unlockfile()
LockStep(p) ==
  \/ OpenFile(p) \/ Flock(p) \/ CompareInodes(p)
  \/ Promote(p) \/ UnlinkFile(p) \/ CloseFile(p)

\* All that can happen to a lock file, whoever uses it, dying included
LockUse(p) ==
  \/ \E h \in Ways : CallsLockfile(p, h)
  \/ LockStep(p) \/ WithoutLock(p) \/ CallsUnlockfile(p) \/ LetGo(p)

LockNext == \E p \in Procs : LockUse(p)
LockSpec == LockInit /\ [][LockNext]_lockvars

LockTypeOK ==
  /\ name \in Inodes \cup {NoInode}
  /\ fd \in [Procs -> Inodes \cup {NoInode}]
  /\ flock \in [Procs -> {"none", "shared", "exclusive"}]
  /\ lpc \in [Procs -> {"none", "open", "flock", "stat", "held", "failed", "promote",
                        "unlink", "close"}]
  /\ how \in [Procs -> Ways]

(* Nobody shares the lock with one who has it for himself, whoever removes  *)
(* the file while others are between open() and the comparison of the       *)
(* inodes, and whoever dies (lockfile, unlockfile).                         *)
MutualExclusion ==
  \A p, q \in Procs :
    p # q /\ lpc[p] = "held" /\ lpc[q] = "held" => how[p].shared /\ how[q].shared

(* All that a lock file promises                                            *)
LockSound == LockTypeOK /\ MutualExclusion
=============================================================================
