SPECIFICATION Spec
CONSTANTS
  c1 = c1
  Code = {c1}
  SLOTS = 1
  MAX_OPEN_ORDERS = 1
  Lot = 2
  MaxBought = 3
  MaxOpen = 4
  Env = {"partial", "resize", "user", "switch", "crash", "reject", "timeout", "unlisted"}
INVARIANTS RecordedAtMostBought
PROPERTIES PartialFillKept
