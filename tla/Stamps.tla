------------------------------- MODULE Stamps -------------------------------
(***************************************************************************)
(* Stamp files: how BitBake remembers, from one build to the next, that a   *)
(* task has run (lib/bb/build.py), and when it trusts one                   *)
(* (RunQueue.check_stamp_task).                                             *)
(*                                                                          *)
(* A stamp file is named for the recipe's STAMP, the task and the task's    *)
(* unihash; StampBase[t] is the first two, which tasks of different recipes *)
(* (or of one recipe built for two multiconfigs) may have in common.        *)
(* st[b][h] is the age of the stamp of base b and hash h: Missing, Old (an  *)
(* earlier build left it) or Fresh (this build wrote it); ss[b][h] is the   *)
(* same for the _setscene variant.  Ages stand for the modification times   *)
(* that the code compares; two stamps of this build are of one age, because *)
(* a stamp is only looked at before its task has run, or when it is shared, *)
(* and then the stamps of what the task depends on are shared as well.      *)
(***************************************************************************)
EXTENDS RunQueueData

CONSTANTS
  StampBase,
  Hashes,      \* the unihashes a task may get
  Nostamp      \* tasks with the nostamp flag

Missing == 0
Old     == 1
Fresh   == 2

Bases      == {StampBase[t] : t \in Tasks}
StampState == [Bases -> [Hashes -> {Missing, Old, Fresh}]]

Age(st, hash, t) == st[StampBase[t]][hash[t]]

(* make_stamp(t): unlink whatever the clean mask matches, whichever its     *)
(* hash, and create the file.  The mask of a task matches the stamps of its *)
(* setscene variant too; the mask of a setscene variant only its own.       *)
MakeStamps(st, S, hash) ==
  [b \in Bases |->
     IF b \in {StampBase[t] : t \in S}
     THEN [h \in Hashes |->
             IF \E t \in S : StampBase[t] = b /\ hash[t] = h THEN Fresh ELSE Missing]
     ELSE st[b]]

CleanStamp(st, t) == [st EXCEPT ![StampBase[t]] = [h \in Hashes |-> Missing]]

(* May the stamp of t, of age t1, be trusted as far as dependency d goes?   *)
(* Always when the last thing done for d was to restore it from the cache;  *)
(* a dependency in another recipe is not looked at (BB_STAMP_POLICY is      *)
(* "perfile").                                                              *)
Restored(st, ss, hash, d) ==
  /\ Age(ss, hash, d) # Missing
  /\ Age(ss, hash, d) > Age(st, hash, d)

UpToDateWith(st, ss, hash, t, d) ==
  \/ Restored(st, ss, hash, d)
  \/ Fn[d] # Fn[t]
  \/ /\ Age(st, hash, d) # Missing
     /\ Age(st, hash, t) >= Age(st, hash, d)

(* check_stamp_task(t)                                                      *)
StampCurrent(st, ss, hash, t) ==
  /\ Age(st, hash, t) # Missing
  /\ t \notin Nostamp
  /\ \A d \in Depends[t] : UpToDateWith(st, ss, hash, t, d)

(* check_stamp_task(t, recurse = True): so are the stamps of the            *)
(* dependencies in the same recipe that count, and theirs in turn.  What    *)
(* the code found out of a dependency before it does not ask again          *)
(* (stampcache); here the stamps are asked every time.                      *)
StampCurrentRecursive(st, ss, hash, t) ==
  LET current[x \in Tasks] ==
        /\ StampCurrent(st, ss, hash, x)
        /\ \A d \in Depends[x] :
              Fn[d] = Fn[x] /\ ~Restored(st, ss, hash, d) => current[d]
  IN  current[t]

(* check_stamp_task(t, "..._setscene")                                      *)
SetsceneStampPresent(ss, hash, t) == Age(ss, hash, t) # Missing

=============================================================================
