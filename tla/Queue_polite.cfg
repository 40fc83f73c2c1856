SPECIFICATION UsersSpec
CONSTANTS
  None = None
  Users = {u1, u2}
  Handlers = {h1, h2}
  Tickers = {t1}
  Limit = 1
  Requests = {"join", "select", "complete"}
  OneRequestPerUser = TRUE
  MaxTickets = 3
  MaxAborts = 0
INVARIANT ExitRecorded
PROPERTIES RoomSpec EventuallyServed
