\* Two attempts of a pupil: pauses, the sweep, lost messages, failed gradings and staff.
CONSTANTS
  Students = {pupil}
  Timeout = 1
  PausedTimeout = 2
  Window = 1
  MaxLife = 2
  Batch = 1
  MaxInflight = 3
  MaxAttempts = 2
  MaxSaves = 1
  MaxTime = 3
  MaxJobs = 1
  MaxLosses = 1
  pupil = pupil
SPECIFICATION FairSpec
INVARIANTS ElapsedIsWorked
PROPERTIES HandedInIsFinal SubmittedSettles
CHECK_DEADLOCK FALSE
