SPECIFICATION Spec
CONSTANTS
  libC = libC  libP = libP  toolC = toolC  toolP = toolP
  appC = appC  appP = appP  image = image
  h1 = h1  h2 = h2
  Tasks <- ForkTasks
  Depends <- ForkDepends
  SortedSetscene <- ForkSetscene
  HardDeps <- NoHardDeps
  Targets = {image}
  Fn <- Recipe
  Pn <- Recipe
  Hashes = {h1}
  Nostamp = {image}
  NumberTasks = 2
  TaskName <- Name
  NumberThreads <- NoLimits
  StampBase <- TwinStamps
  Noexec = {}
  DepValid = {libP, toolP}
  Enforced = {libC, libP}
  SceneEnforced = TRUE
  Abort = TRUE
  ForceTargets = FALSE
  SkipSetscene = FALSE
  SetsceneOnly = FALSE
  DryRun = FALSE
  InitHash <- SameHash
  OldStamps <- OtherStamps
  OldSetsceneStamps = {}
  Cached = {libP, toolP, appP}
  Reporters = {}
  MayFail = {libP}
  MayInterrupt = FALSE
  WorkerMayDie = FALSE
INVARIANTS
  EnforcementKept
