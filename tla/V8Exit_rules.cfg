SPECIFICATION Spec
CONSTANTS
  c1 = c1
  Code = {c1}
  Price = {70, 98, 100, 118, 122}
  Entry = {100}
  Atr = {5}
  Lot = 2
  MAX_HOLD_DAYS = 2
  ORDER_LEDGER_TTL = 2
  Env = {"aftermarket", "rebuy", "halt", "partial", "drop", "reject", "ledger"}
  Faults = 0
  BadReplies = 0
  NoPos = NoPos
INVARIANTS TypeOK TakeProfitOnce OwnedWhileExiting
PROPERTIES TrailFiresAtNewHigh TrailConfirmed
