\* A second device with an older counter: its newest pick is refused as stale.
CONSTANTS
  Devices = {phone, laptop}
  Questions = {1}
  Answers = {a, b}
  MaxSeq = 4
  MaxPicks = 3
  MaxFlights = 2
  MaxTroubles = 0
  phone = phone
  laptop = laptop
  a = a
  b = b
  Blank = Blank
SPECIFICATION Spec
INVARIANTS StaleIsObsolete
CHECK_DEADLOCK FALSE
