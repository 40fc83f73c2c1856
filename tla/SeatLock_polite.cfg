SPECIFICATION Spec
CONSTANTS
  None = None
  Users = {u1, u2}
  Seats = {s1}
  Handlers = {h1, h2}
  Reapers = {r1}
  TTL = 2
  UniqueSeat = FALSE
  OneRequestPerUser = TRUE
  MaxVersion = 5
  MaxAborts = 2
SYMMETRY Symmetry
INVARIANT SoldHasBooking BookingBacked
PROPERTY CancelledByOwner
