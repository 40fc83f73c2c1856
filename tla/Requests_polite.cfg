SPECIFICATION Spec
CONSTANTS
  None = None
  Users = {u1, u2}
  Seats = {s1}
  Handlers = {h1, h2}
  Tickers = {t1}
  Limit = 2
  OneRequestPerUser = TRUE
  MaxSales = 2
SYMMETRY Symmetry
INVARIANTS TypeOK SessionNamesBooking
PROPERTIES SaleSpec SeatsInTurn CompletedBySale
