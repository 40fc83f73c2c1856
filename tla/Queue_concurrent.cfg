SPECIFICATION Spec
CONSTANTS
  None = None
  Users = {u1, u2, u3}
  Handlers = {h1, h2}
  Tickers = {t1}
  Limit = 2
  Requests = {"join", "leave"}
  OneRequestPerUser = FALSE
  MaxTickets = 2
  MaxAborts = 1
SYMMETRY Symmetry
INVARIANTS TypeOK NumbersDistinct ActiveLimit ExitOnRecord
PROPERTY InOrder
