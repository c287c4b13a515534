\* A student with a seat in the room and a practice paper of the same mock.
CONSTANTS
  Students = {ann}
  Solos = 1
  Question <- BreakQuestions
  Limit <- UnitLimits
  Grace = 1
  ViolationLimit = 2
  Horizon = 2
  MaxKeys = 2
  MaxReports = 2
  MaxJobs = 1
  MaxLosses = 1
  Openings <- RoomOrPractice
  ann = ann
SPECIFICATION FairSpec
INVARIANTS TypeOK OneClock EndedRoomIsEmpty ChargedOnce
PROPERTIES AnswersInTime PapersMoveOn SittingsEnd
CHECK_DEADLOCK FALSE
