\* Awards, corrections, conversions and a season reset; no shop.
CONSTANTS
  Students = {pupil}
  Works = {homework}
  Lessons = 2
  Values = {2, 3}
  Rate = 2
  MaxSeasons = 2
  MaxCoins = 2
  Requests = {}
  Items = {}
  Currency <- Nothing
  Prices = {}
  MaxStock = 0
  MaxOrders = 0
  MaxEdits = 0
  t1 = t1
  t2 = t2
  pupil = pupil
  notebook = notebook
  pass = pass
  homework = homework
SPECIFICATION Spec
INVARIANTS PointsPaidOnce
SYMMETRY Slots
CHECK_DEADLOCK FALSE
