SPECIFICATION FairSpec
CONSTANTS
  libC = libC  libP = libP  toolC = toolC  toolP = toolP
  appC = appC  appP = appP  image = image
  h1 = h1  h2 = h2
  Tasks <- ForkTasks
  Depends <- ForkDepends
  SortedSetscene <- ForkSetscene
  HardDeps <- NoHardDeps
  Targets = {image, libP}
  Fn <- Recipe
  Pn <- Recipe
  Hashes = {h1}
  Nostamp = {image}
  NumberTasks = 2
  TaskName <- Name
  NumberThreads <- OnePackage
  StampBase <- OwnStamps
  Noexec = {toolC}
  DepValid = {libP, toolP}
  Enforced = {}
  SceneEnforced = FALSE
  Abort = TRUE
  ForceTargets = TRUE
  SkipSetscene = FALSE
  SetsceneOnly = FALSE
  DryRun = FALSE
  InitHash <- SameHash
  OldStamps <- OtherStamps
  OldSetsceneStamps = {}
  Cached = {libP, toolP, appP}
  Reporters = {}
  MayFail = {libC, libP, toolC, appP}
  MayInterrupt = TRUE
  WorkerMayDie = TRUE
INVARIANTS
  StampsTrusted CompleteMeansBuilt StopWaits LimitsKept
PROPERTIES
  Terminates
