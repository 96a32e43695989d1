SPECIFICATION Spec
CONSTANTS
  t1 = t1  t2 = t2
  Tasks = {t1, t2}
  Reporters = {t1}
  Room = 3
  RoomBack = 1
  MaxHashes = 1
  MayFinishNow = FALSE
  ServerMayDie = FALSE
  WorkerMayDie = FALSE
INVARIANTS
  ExitsNormally
CHECK_DEADLOCK FALSE
