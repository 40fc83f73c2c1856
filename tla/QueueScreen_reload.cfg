SPECIFICATION PatientSpec
CONSTANTS
  None = None
  Users = {u1}
  Processes = {p1, p2}
  MaxHooks = 3
  MaxTickets = 2
  MaxLosses = 1
CHECK_DEADLOCK FALSE
INVARIANTS TypeOK NoFalseCall
PROPERTIES Reconnects Called
