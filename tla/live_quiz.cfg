\* Two hosts, a player: starts, pauses, skips, ends, kicks, reconnections and the REST stop.
CONSTANTS
  Hosts = {board, phone}
  Players = {ann}
  Questions = 2
  Limit = 1
  ManualAdvance = TRUE
  AnswerChange = TRUE
  MaxCommands = 4
  MaxTime = 1
  board = board
  phone = phone
  ann = ann
  bob = bob
SPECIFICATION Spec
INVARIANTS TypeOK ScoreIsSum PodiumStands EveryQuestionGetsItsTime OpenHasTimer
SYMMETRY People
VIEW Live
CHECK_DEADLOCK FALSE
