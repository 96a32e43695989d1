SPECIFICATION FairSpec
CONSTANTS
  libC = libC  libP = libP  toolC = toolC  toolP = toolP
  appC = appC  appP = appP  image = image
  h1 = h1  h2 = h2
  Tasks <- ForkTasks
  Depends <- ForkDepends
  SortedSetscene <- ForkSetscene
  HardDeps <- NoHardDeps
  Targets = {image}
  Fn <- Recipe
  Pn <- Recipe
  Hashes = {h1}
  Nostamp = {image}
  NumberTasks = 2
  TaskName <- Name
  NumberThreads <- NoLimits
  StampBase <- OwnStamps
  Noexec = {}
  DepValid = {libP, toolP}
  Enforced = {libC}
  SceneEnforced = TRUE
  Abort = FALSE
  ForceTargets = FALSE
  SkipSetscene = FALSE
  SetsceneOnly = FALSE
  DryRun = FALSE
  InitHash <- SameHash
  OldStamps = {}
  OldSetsceneStamps = {}
  Cached = {libP, toolP, appP}
  Reporters = {}
  MayFail = {}
  MayInterrupt = FALSE
  WorkerMayDie = FALSE
PROPERTIES
  Terminates
