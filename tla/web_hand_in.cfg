\* One tab: saves, submits, retries, lost answers.  Two devices that use the
\* same idempotency keys, with leave flushes, late service and the watchdog.
CONSTANTS
  Question <- TwoQuestions
  Limit <- Untimed
  DeclaresTwoModules = FALSE
  MaxAttempts = 1
  IsMock = TRUE
  PracticeTest = FALSE
  Clients = {"web"}
  Pauses = "nowhere"
  Crashes = {}
  PointerLosses = 0
  MaxCreates = 0
  MaxVersion = 4
  MaxJobs = 1
  MaxTime = 0
  Tabs = {t1, t2}
  Conditions <- CalmOrRough
  MaxInFlight = 2
  t1 = t1
  t2 = t2
SPECIFICATION WebSpec
INVARIANTS HandInKept SheetsHoldOwnQuestions ReplayAgrees
PROPERTIES Module2NotSkipped ServesExamServer
SYMMETRY Devices
CHECK_DEADLOCK FALSE
