\* A purchase and a cancellation of the same student wait for each other.
CONSTANTS
  Students = {pupil}
  Works = {}
  Lessons = 0
  Values = {0}
  Rate = 2
  MaxSeasons = 1
  MaxCoins = 2
  Requests = {t1, t2}
  Items = {notebook}
  Currency <- Notebook
  Prices = {1}
  MaxStock = 2
  MaxOrders = 2
  MaxEdits = 0
  t1 = t1
  t2 = t2
  pupil = pupil
  notebook = notebook
  pass = pass
  homework = homework
SPECIFICATION Spec
INVARIANTS NoDeadlock
SYMMETRY Slots
CHECK_DEADLOCK FALSE
