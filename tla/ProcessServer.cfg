SPECIFICATION Spec
CONSTANTS
  a = a  b = b  s1 = s1  s2 = s2
  Clients = {a, b}
  Servers = {s1, s2}
  NoServer = NoServer
  Remover = Remover
  Jobs <- TwoJobs
  Timeout = "none"
  Backlog = 2
  Retries = 2
  WaitRounds = 1
  MaxFaults = 1
INVARIANTS
  ServersSound CommandsKeptApart
PROPERTIES
  StopIsFinal AllEnd
CHECK_DEADLOCK FALSE
