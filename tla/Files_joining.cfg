SPECIFICATION ParsingSpec
CONSTANTS
  p1 = p1  p2 = p2  p3 = p3
  v1 = v1  v2 = v2
  r1 = r1  r2 = r2
  Procs = {p1, p2, p3}
  Inodes = {i1, i2}
  NoInode = NoInode
  Versions = {v1, v2}
  MaxDeaths = 1
  Parsers = {p1, p2}
  Server = p3
  Recipes = {r1, r2}
  Jobs <- TheJobs
  PipeRoom = 1
  MayStop = {"soft", "hard"}
PROPERTIES
  SoftStopReturns
CHECK_DEADLOCK FALSE
