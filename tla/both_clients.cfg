\* Website and Windows app on one attempt: pauses, deadlines, the untimed choice.
CONSTANTS
  Question <- TwoModules
  Limit <- Minute
  DeclaresTwoModules = FALSE
  MaxAttempts = 1
  IsMock = FALSE
  PracticeTest = TRUE
  Clients = {"web", "windows"}
  Pauses = "after start"
  Crashes = {}
  PointerLosses = 0
  MaxCreates = 1
  MaxVersion = 4
  MaxJobs = 1
  MaxTime = 2
SPECIFICATION FairSpec
INVARIANTS EngineConsistent RememberedMeansOver PauseCreditBounded ScoringIsQueued
PROPERTIES AnswersOnlyWhileSitting ImplementsLifecycle TimedChoiceSettled ScoringCompletes
CHECK_DEADLOCK FALSE
