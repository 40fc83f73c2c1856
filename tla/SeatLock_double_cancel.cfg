SPECIFICATION Spec
CONSTANTS
  None = None
  Users = {u1, u2}
  Seats = {s1}
  Handlers = {h1, h2, h3}
  Reapers = {}
  TTL = 1
  UniqueSeat = FALSE
  OneRequestPerUser = FALSE
  MaxVersion = 4
  MaxAborts = 0
SYMMETRY Symmetry
PROPERTY CancelledByOwner
