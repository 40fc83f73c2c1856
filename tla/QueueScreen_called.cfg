SPECIFICATION FairSpec
CONSTANTS
  None = None
  Users = {u1}
  Processes = {p1}
  MaxHooks = 2
  MaxTickets = 1
  MaxLosses = 0
CHECK_DEADLOCK FALSE
PROPERTY Called
