\* Two attempts of the website: requests and workers die, module rows are deleted, attempts are requeued.
CONSTANTS
  Question <- TwoModulesAlike
  Limit <- Minute
  DeclaresTwoModules = FALSE
  MaxAttempts = 2
  IsMock = FALSE
  PracticeTest = FALSE
  Clients = {"web"}
  Pauses = "nowhere"
  Crashes = {"request", "worker"}
  PointerLosses = 1
  MaxCreates = 1
  MaxVersion = 5
  MaxJobs = 2
  MaxTime = 1
SPECIFICATION Spec
INVARIANTS OneActive GradedOnce
PROPERTIES ClocksNeverRestart VersionTracksChanges
CHECK_DEADLOCK FALSE
