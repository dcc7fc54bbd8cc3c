SPECIFICATION Spec
CONSTANTS
  c1 = c1
  Code = {c1}
  Price = {98, 120}
  Entry = {100}
  Atr = {5}
  Lot = 2
  MAX_HOLD_DAYS = 1
  ORDER_LEDGER_TTL = 0
  Env = {"user"}
  Faults = 1
  BadReplies = 1
  NoPos = NoPos
INVARIANTS ArmedAtNewHigh
PROPERTIES QuietWhileExiting
