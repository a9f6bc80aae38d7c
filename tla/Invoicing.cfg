CONSTANTS
  Workers = {p1, p2}
  Wallets = {w1, w2}
  Serials = {s1}
  Periods = {march}
  None = none
  MaxRequests = 4
  MaxRestarts = 1
SPECIFICATION Spec
INVARIANTS AddressesDistinct BilledMeansInvoiced RepeatsBillNothing
CHECK_DEADLOCK FALSE
