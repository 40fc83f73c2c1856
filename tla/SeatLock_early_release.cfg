SPECIFICATION Spec
CONSTANTS
  None = None
  Users = {u1, u2}
  Seats = {s1}
  Handlers = {h1, h2}
  Reapers = {r1}
  TTL = 1
  UniqueSeat = TRUE
  OneRequestPerUser = TRUE
  MaxVersion = 2
  MaxAborts = 0
PROPERTY HoldLasts
