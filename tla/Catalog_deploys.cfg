SPECIFICATION FairSpec
CONSTANTS
  None = None
  Processes = {p1, p2}
  Browsers = {b1}
  Routes = {r1}
  Searches = {c1}
  BOOKABLE_DAYS = 2
  MaxDay = 1
INVARIANTS TypeOK OnOfferHasSeats
PROPERTY EmptyListGoes
