SPECIFICATION Spec
CONSTANTS
  c1 = c1
  c2 = c2
  Code = {c1, c2}
  SLOTS = 2
  MAX_OPEN_ORDERS = 1
  Lot = 1
  MaxBought = 1
  MaxOpen = 2
  Env = {"resize", "crash", "timeout"}
INVARIANTS TypeOK OneOrderPerCode OpenWithinLimit
