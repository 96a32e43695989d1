SPECIFICATION Spec
CONSTANTS
  libC = libC  libP = libP  toolC = toolC  toolP = toolP
  appC = appC  appP = appP  image = image
  h1 = h1  h2 = h2
  Tasks <- MixedTasks
  Depends <- MixedDepends
  SortedSetscene <- MixedSetscene
  HardDeps <- ToolNeeded
  Targets = {image}
  Fn <- Recipe
  Pn <- Recipe
  Hashes = {h1, h2}
  Nostamp = {image}
  NumberTasks = 2
  TaskName <- Name
  NumberThreads <- NoLimits
  StampBase <- OwnStamps
  Noexec = {}
  DepValid = {libP, toolP}
  Enforced = {}
  SceneEnforced = FALSE
  Abort = FALSE
  ForceTargets = FALSE
  SkipSetscene = FALSE
  SetsceneOnly = FALSE
  DryRun = FALSE
  InitHash <- SameHash
  OldStamps = {}
  OldSetsceneStamps = {}
  Cached = {libP, toolP, appP}
  Reporters = {libP, toolP}
  MayFail = {libC, toolP}
  MayInterrupt = FALSE
  WorkerMayDie = TRUE
INVARIANTS
  InputsPresent OneProcessPerTask SceneQueueSound MigrationsSafe
PROPERTIES
  ImplementsTaskExecution
