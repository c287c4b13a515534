\* Two requests buy and cancel while staff edit the shelf and the register.
CONSTANTS
  Students = {pupil}
  Works = {}
  Lessons = 2
  Values = {0}
  Rate = 2
  MaxSeasons = 1
  MaxCoins = 2
  Requests = {t1, t2}
  Items = {notebook, pass}
  Currency <- OneOfEach
  Prices = {1, 2}
  MaxStock = 1
  MaxOrders = 2
  MaxEdits = 1
  t1 = t1
  t2 = t2
  pupil = pupil
  notebook = notebook
  pass = pass
  homework = homework
SPECIFICATION Spec
INVARIANTS TypeOK StockKept CoinsKept StrikesKept
SYMMETRY Slots
CHECK_DEADLOCK FALSE
