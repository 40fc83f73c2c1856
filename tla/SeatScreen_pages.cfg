SPECIFICATION FairSpec
CONSTANTS
  None = None
  Seats = {s1, s2}
  Calls = {c1, c2}
  MaxBookings = 2
  MaxLosses = 1
INVARIANTS TypeOK TicketReal
PROPERTY ButtonsReturn
