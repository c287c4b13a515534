\* A save past the deadline hands in a single-module paper and queues nothing.
CONSTANTS
  Question <- OneModule
  Limit <- Minute
  DeclaresTwoModules = FALSE
  MaxAttempts = 1
  IsMock = FALSE
  PracticeTest = FALSE
  Clients = {"web"}
  Pauses = "nowhere"
  Crashes = {}
  PointerLosses = 0
  MaxCreates = 1
  MaxVersion = 4
  MaxJobs = 1
  MaxTime = 1
SPECIFICATION Spec
INVARIANTS ScoringIsQueued
CHECK_DEADLOCK FALSE
