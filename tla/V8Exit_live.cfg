SPECIFICATION FairSpec
CONSTANTS
  c1 = c1
  Code = {c1}
  Price = {98, 100, 120}
  Entry = {100}
  Atr = {5}
  Lot = 2
  MAX_HOLD_DAYS = 2
  ORDER_LEDGER_TTL = 2
  Env = {"company", "drop"}
  Faults = 0
  BadReplies = 0
  NoPos = NoPos

PROPERTY SoldOutInTheEnd
