SPECIFICATION FairSpec
CONSTANTS
  a = a
  NoPos = NoPos
  Code = {a}
  Lot = 1
  MaxHeld = 1
  MAX_HOLD_DAYS = 1
  Env = {"usersell", "odd", "refuse", "late", "unreconciled", "unreadable", "unnamed"}
  Faults = 1
PROPERTY SoldInTheEnd
