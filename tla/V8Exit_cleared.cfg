SPECIFICATION Spec
CONSTANTS
  c1 = c1
  Code = {c1}
  Price = {98, 118, 120}
  Entry = {100}
  Atr = {5}
  Lot = 2
  MAX_HOLD_DAYS = 1
  ORDER_LEDGER_TTL = 2
  Env = {"company"}
  Faults = 0
  BadReplies = 0
  NoPos = NoPos

PROPERTY ClearedMeansNeverOwned
