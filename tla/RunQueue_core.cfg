SPECIFICATION Spec
CONSTANTS
  libC = libC  libP = libP  toolC = toolC  toolP = toolP
  appC = appC  appP = appP  image = image
  h1 = h1  h2 = h2
  Tasks <- TwinTasks
  Depends <- TwinDepends
  SortedSetscene <- TwinSetscene
  HardDeps <- NoHardDeps
  Targets = {image}
  Fn <- Recipe
  Pn <- TwinName
  Hashes = {h1}
  Nostamp = {image}
  NumberTasks = 2
  TaskName <- Name
  NumberThreads <- NoLimits
  StampBase <- SharedWork
  Noexec = {}
  DepValid = {libP, toolP}
  Enforced = {}
  SceneEnforced = FALSE
  Abort = FALSE
  ForceTargets = FALSE
  SkipSetscene = FALSE
  SetsceneOnly = FALSE
  DryRun = FALSE
  InitHash <- SameHash
  OldStamps = {}
  OldSetsceneStamps = {}
  Cached = {libP, toolP, appP}
  Reporters = {}
  MayFail = {libC, libP, toolC, appP}
  MayInterrupt = FALSE
  WorkerMayDie = FALSE
INVARIANTS
  ExecutionSound FailuresContained TwinsKeptApart
PROPERTIES
  HoldoffRespected
