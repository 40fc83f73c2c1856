SPECIFICATION FairSpec
CONSTANTS
  None = None
  Users = {u1, u2}
  Seats = {s1}
  Handlers = {h1, h2}
  Reapers = {r1}
  TTL = 1
  UniqueSeat = TRUE
  OneRequestPerUser = FALSE
  MaxVersion = 3
  MaxAborts = 1
INVARIANTS TypeOK SnapshotFresh
PROPERTIES SaleSpec HoldEnds
