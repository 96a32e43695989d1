SPECIFICATION Spec
CONSTANTS
  t1 = t1  t2 = t2
  Tasks = {t1, t2}
  Reporters = {t1}
  Room = 2
  RoomBack = 1
  MaxHashes = 2
  MayFinishNow = TRUE
  ServerMayDie = TRUE
  WorkerMayDie = TRUE
INVARIANTS
  WorkerSound HashesInOrder ExitCodesAreTrue
PROPERTIES
  Answered WorkerEnds
CHECK_DEADLOCK FALSE
