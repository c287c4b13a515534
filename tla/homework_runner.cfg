\* Two devices pick, save, reload, leave and hand in; one request is lost or late.
CONSTANTS
  Devices = {phone, laptop}
  Questions = {1}
  Answers = {a, b}
  MaxSeq = 4
  MaxPicks = 3
  MaxFlights = 2
  MaxTroubles = 1
  phone = phone
  laptop = laptop
  a = a
  Blank = Blank
  b = b
SPECIFICATION Spec
INVARIANTS TypeOK NothingOmitted SavedOrOwed
SYMMETRY Alike
VIEW Live
CHECK_DEADLOCK FALSE
