SPECIFICATION Spec
CONSTANTS
  None = None
  Users = {u1}
  Handlers = {h1, h2}
  Life = 2
  TTL_SECONDS = 3
  Skew = 1
  Delay = 1
  MaxTime = 5
  MaxTokens = 2
CHECK_DEADLOCK FALSE
INVARIANTS TypeOK EndedStays FreshLogin
