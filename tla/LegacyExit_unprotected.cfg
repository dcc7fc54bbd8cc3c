SPECIFICATION Spec
CONSTANTS
  a = a
  NoPos = NoPos
  Code = {a}
  Lot = 1
  MaxHeld = 1
  MAX_HOLD_DAYS = 1
  Env = {"user", "usersell"}
  Faults = 0
PROPERTY ProtectedUntilGone
