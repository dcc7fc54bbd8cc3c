SPECIFICATION Spec
CONSTANTS
  a = a
  NoPos = NoPos
  Code = {a}
  Lot = 1
  MaxHeld = 2
  MAX_HOLD_DAYS = 2
  Env = {"user", "odd", "refuse", "unreadable", "unnamed"}
  Faults = 0
INVARIANTS TypeOK AgeKept V8SharesKept
PROPERTY StopConfirmed
