-------------------------------- MODULE V8Buy --------------------------------
(***************************************************************************)
(* The v8 buy job of auto_trading/kiwoom_v8_strategy.py: once a minute it  *)
(* lists the account and then the orders not yet filled, records the       *)
(* orders it finds filled, and brings the order book in line with today's  *)
(* candidates: it cancels, resizes and places limit orders.                *)
(*                                                                         *)
(* The job decides on the two listings it read, one after the other, at    *)
(* the start of the cycle.  The broker fills orders, the exit job sells    *)
(* and the user trades between any two of its steps.  The ledger helpers   *)
(* (_mark_ordered, release_ordered, ...) are single steps here, and find   *)
(* the ledger readable: V8Exit and LegacyExit model one that is not.       *)
(***************************************************************************)
EXTENDS Integers, FiniteSets

CONSTANTS
  Code,             \* the stock codes
  SLOTS,            \* how many codes may be held at once
  MAX_OPEN_ORDERS,  \* how many orders may be open at once
  Lot,              \* shares in one order
  MaxBought,        \* bound: shares of a code bought in a behaviour
  MaxOpen,          \* bound: shares of a code on order at once
  Env               \* which of EnvBehaviour the environment shows

EnvBehaviour ==
  {"partial",   \* an order may be filled in parts
   "resize",    \* the equity moves enough for orders to be resized
   "user",      \* the user buys, sells and cancels from the dashboard
   "switch",    \* the user turns the automatic orders off and on
   "crash",     \* a cycle may die of an exception or a restart
   "reject",    \* a cancellation may be refused
   "timeout",   \* a call about an order may time out, done or not done
   "unlisted"}  \* the listing of unfilled orders may fail, and comes back empty

Stage == {"idle", "listed", "detect", "drop", "resize", "again", "place", "mark"}

ASSUME BoundAssumption == /\ SLOTS \in Nat /\ MAX_OPEN_ORDERS \in Nat
                          /\ Lot \in Nat \ {0}
                          /\ MaxBought \in Nat /\ MaxOpen \in Nat
                          /\ Env \subseteq EnvBehaviour
ASSUME CodeAssumption == IsFiniteSet(Code) /\ Code # {}

VARIABLES
  \* the account, at the broker
  trading,  \* is_market_open
  held,     \* shares of each code in the account
  open,     \* shares of each code in v8 buy orders not yet filled
  \* the pending file
  waiting,  \* codes with a limit price waiting
  owned,    \* ordered
  filled,   \* filled_qty
  prevOpen, \* open_codes: what the last cycle left open
  sold,     \* codes sold today
  autobuy,  \* the switch, in a file of its own
  leaving,  \* codes the exit job has sold and not yet missed
  missed,   \* codes it found gone from the account and is about to give up
  \* the running cycle
  pc,
  hsnap,    \* the holdings it listed
  osnap,    \* the open orders it listed, as it corrects them
  prev,     \* prevOpen as it read it
  cands,    \* today's candidates
  todo,     \* the codes its current loop has not come to
  cur,      \* the code whose order it is placing
  slots, placed, newly,
  \* what the properties remember; no action reads it
  bought,   \* shares of each code filled from v8 orders
  given,    \* shares of each code the user bought
  recorded, \* shares of each code in the trade history as v8 purchases
  hurt      \* codes that a listing of the orders was wrong about, or that a
            \* cycle had seen held before it died, when the last one to end had
            \* left them an open order

market  == <<trading, held, open>>
ledger  == <<waiting, owned, filled, prevOpen>>
outside == <<sold, autobuy, leaving, missed>>
lists   == <<hsnap, osnap, prev, cands>>
counts  == <<slots, placed, newly>>
locals  == <<lists, todo, cur, counts>>
history == <<bought, given, recorded, hurt>>
vars    == <<market, ledger, outside, pc, locals, history>>

Smaller(a, b) == IF a < b THEN a ELSE b
Larger(a, b)  == IF a > b THEN a ELSE b

None  == [c \in Code |-> 0]
Of(f) == {c \in Code : f[c] > 0}     \* the codes of a listing

AnyCode == CHOOSE c \in Code : TRUE

Init ==
  /\ trading = TRUE /\ held = None /\ open = None
  /\ waiting \in SUBSET Code
  /\ owned = {} /\ filled = None /\ prevOpen = {}
  /\ sold = {} /\ autobuy = TRUE /\ leaving = {} /\ missed = {}
  /\ pc = "idle" /\ hsnap = None /\ osnap = None /\ prev = {} /\ cands = {}
  /\ todo = {} /\ cur = AnyCode /\ slots = 0 /\ placed = 0 /\ newly = {}
  /\ bought = None /\ given = None /\ recorded = None /\ hurt = {}

\* the locals of a cycle that is over, canonical so that they add no states
Forget ==
  /\ pc' = "idle" /\ hsnap' = None /\ osnap' = None /\ prev' = {} /\ cands' = {}
  /\ todo' = {} /\ cur' = AnyCode /\ slots' = 0 /\ placed' = 0 /\ newly' = {}

(***************************************************************************)
(* The cycle: what it reads.                                               *)
(***************************************************************************)
\* get_holdings_and_summary, which raises when the listing fails
ListHoldings ==
  /\ pc = "idle" /\ trading
  /\ hsnap' = held
  /\ pc' = "listed"
  /\ UNCHANGED <<market, ledger, outside, osnap, prev, cands, todo, cur, counts,
                 history>>

\* get_unfilled_orders, and the two reads of the pending file.  To do next: the
\* codes v8 ordered that are held and, says the listing, have no open order.
ListUnfilled(listing) ==
  /\ pc = "listed"
  /\ osnap' = listing
  /\ prev' = prevOpen
  /\ todo' = (Of(hsnap) \cap owned) \ Of(listing)
  /\ hurt' = hurt \cup {c \in Code : listing[c] # open[c]}
  /\ pc' = "detect"
  /\ UNCHANGED <<market, ledger, outside, hsnap, cands, cur, counts, bought, given,
                 recorded>>

\* the equity reads zero, or the second listing fails outright
GiveUp ==
  /\ pc = "listed"
  /\ Forget
  /\ UNCHANGED <<market, ledger, outside, history>>

\* the account call answers an error without a list: taken as no orders
ListNothing == "unlisted" \in Env /\ ListUnfilled(None)

(***************************************************************************)
(* Filled orders.                                                          *)
(***************************************************************************)
\* consume_limits, _take_fill_delta and _record_trade for one code.  A limit
\* below the purchase price stays waiting.
Detect(c) ==
  /\ pc = "detect" /\ c \in todo
  /\ waiting' \in {waiting, waiting \ {c}}
  /\ filled' = [filled EXCEPT ![c] = hsnap[c]]
  /\ LET delta == hsnap[c] - filled[c] IN
       recorded' = IF delta > 0 /\ c \in prev
                     THEN [recorded EXCEPT ![c] = @ + delta] ELSE recorded
  /\ todo' = todo \ {c}
  /\ UNCHANGED <<market, owned, prevOpen, outside, pc, lists, cur, counts,
                 bought, given, hurt>>

\* is_autobuy_enabled: every process reads the file of the switch
IsAutobuyEnabled == autobuy

StayOut_Unsaved ==                                               \* mutant
  /\ pc = "detect" /\ todo = {} /\ ~IsAutobuyEnabled
  /\ Forget
  /\ UNCHANGED <<market, ledger, outside, history>>

\* the switch is off: leave the orders as they are
StayOut ==
  /\ pc = "detect" /\ todo = {} /\ ~IsAutobuyEnabled
  /\ prevOpen' = Of(osnap)
  /\ Forget
  /\ UNCHANGED <<market, waiting, owned, filled, outside, history>>

(***************************************************************************)
(* Orders.                                                                 *)
(***************************************************************************)
Plan_OfAll(chosen) ==                                            \* mutant
  /\ pc = "detect" /\ todo = {} /\ IsAutobuyEnabled
  /\ cands' = chosen \ (Of(hsnap) \cup sold)
  /\ todo' = Of(osnap) \ cands'
  /\ pc' = "drop"
  /\ UNCHANGED <<market, ledger, outside, hsnap, osnap, prev, cur, counts, history>>

\* Today's candidates: waiting codes in reach of their limit and not barred,
\* not held and not sold today.  Orders of other codes that are not held go.
Plan(chosen) ==
  /\ pc = "detect" /\ todo = {} /\ IsAutobuyEnabled
  /\ cands' = chosen \ (Of(hsnap) \cup sold)
  /\ todo' = Of(osnap) \ (Of(hsnap) \cup cands')
  /\ pc' = "drop"
  /\ UNCHANGED <<market, ledger, outside, hsnap, osnap, prev, cur, counts, history>>

\* cancel_order: the listed quantity goes, as far as it is still there.
\* Nothing looks at the answer.
Cancelled_Later(c) == open' = open                               \* mutant
Cancelled_Filled(c) == open' = [open EXCEPT ![c] = @ - osnap[c]]  \* mutant
Cancelled(c) ==
  \/ open' = [open EXCEPT ![c] = Larger(0, @ - osnap[c])]
  \/ "reject" \in Env /\ open' = open

\* cancel_order raises: the loop goes on to the next order
CancelTimesOut(c) ==
  /\ "timeout" \in Env
  /\ pc \in {"drop", "resize"} /\ c \in todo
  /\ open' \in {open, [open EXCEPT ![c] = Larger(0, @ - osnap[c])]}
  /\ todo' = todo \ {c}
  /\ UNCHANGED <<trading, held, ledger, outside, pc, lists, cur, counts, history>>

\* A dropped candidate: cancel, then release_ordered.
Drop(c) ==
  /\ pc = "drop" /\ c \in todo
  /\ Cancelled(c)
  /\ osnap' = [osnap EXCEPT ![c] = 0]
  /\ owned' = owned \ {c}
  /\ filled' = [filled EXCEPT ![c] = 0]
  /\ todo' = todo \ {c}
  /\ UNCHANGED <<trading, held, waiting, prevOpen, outside, pc, hsnap, prev, cands,
                 cur, counts, history>>

Room == SLOTS - Cardinality(Of(hsnap))

NoRoom ==
  /\ pc = "drop" /\ todo = {} /\ Room <= 0
  /\ prevOpen' = Of(osnap)
  /\ Forget
  /\ UNCHANGED <<market, waiting, owned, filled, outside, history>>

\* The orders whose quantity is too far from what the equity asks for now.
Review(off) ==
  /\ pc = "drop" /\ todo = {} /\ Room > 0
  /\ off = {} \/ "resize" \in Env
  /\ todo' = off \cap cands \cap Of(osnap)
  /\ pc' = "resize"
  /\ UNCHANGED <<market, ledger, outside, lists, cur, counts, history>>

\* Resizing: cancel, and order again whatever the cancellation answered ...
ResizeCancel(c) ==
  /\ pc = "resize" /\ c \in todo
  /\ Cancelled(c)
  /\ todo' = todo \ {c} /\ cur' = c
  /\ pc' = "again"
  /\ UNCHANGED <<trading, held, ledger, outside, lists, counts, history>>

ResizeOrder == \/ open' = open
               \/ open[cur] + Lot <= MaxOpen /\ open' = [open EXCEPT ![cur] = @ + Lot]

\* ... and count the order as open whatever the new one answered.
ResizeBuy ==
  /\ pc = "again"
  /\ ResizeOrder
  /\ owned' = owned \cup {cur}
  /\ osnap' = [osnap EXCEPT ![cur] = Lot]
  /\ pc' = "resize"
  /\ UNCHANGED <<trading, held, waiting, filled, prevOpen, outside, hsnap, prev,
                 cands, todo, cur, counts, history>>

BuyTimesOut ==
  /\ "timeout" \in Env /\ pc = "again"
  /\ ResizeOrder
  /\ pc' = "resize"
  /\ UNCHANGED <<trading, held, ledger, outside, lists, todo, cur, counts, history>>

\* How many orders there may be: the limit, the free slots, the cash.
Count(money) ==
  /\ pc = "resize" /\ todo = {}
  /\ slots' = Smaller(MAX_OPEN_ORDERS, Smaller(Room, money))
  /\ placed' = Cardinality(Of(osnap))
  /\ newly' = {}
  /\ todo' = cands \ Of(osnap)
  /\ pc' = "place"
  /\ UNCHANGED <<market, ledger, outside, lists, cur, history>>

\* buy_limit accepted: the order works at the broker at once
Place(c) ==
  /\ pc = "place" /\ c \in todo
  /\ placed < slots /\ open[c] + Lot <= MaxOpen
  /\ open' = [open EXCEPT ![c] = @ + Lot]
  /\ todo' = todo \ {c} /\ cur' = c
  /\ pc' = "mark"
  /\ UNCHANGED <<trading, held, ledger, outside, lists, counts, history>>

\* buy_limit refused, or too dear for one share
NotPlaced(c) ==
  /\ pc = "place" /\ c \in todo
  /\ placed < slots
  /\ todo' = todo \ {c}
  /\ UNCHANGED <<market, ledger, outside, pc, lists, cur, counts, history>>

Mark_Uncounted ==                                                \* mutant
  /\ pc = "mark"
  /\ owned' = owned \cup {cur}
  /\ newly' = newly \cup {cur}
  /\ pc' = "place"
  /\ UNCHANGED <<market, waiting, filled, prevOpen, outside, lists, todo, cur, slots,
                 placed, history>>

\* count the order and write down its ownership
Mark ==
  /\ pc = "mark"
  /\ owned' = owned \cup {cur}
  /\ placed' = placed + 1 /\ newly' = newly \cup {cur}
  /\ pc' = "place"
  /\ UNCHANGED <<market, waiting, filled, prevOpen, outside, lists, todo, cur, slots,
                 history>>

Done ==
  /\ pc = "place" /\ (todo = {} \/ placed >= slots)
  /\ prevOpen' = Of(osnap) \cup newly
  /\ Forget
  /\ UNCHANGED <<market, waiting, owned, filled, outside, history>>

\* an exception or a restart
Crash ==
  /\ "crash" \in Env /\ pc # "idle"
  /\ hurt' = hurt \cup (prevOpen \cap Of(hsnap))
  /\ Forget
  /\ UNCHANGED <<market, ledger, outside, bought, given, recorded>>

(***************************************************************************)
(* The broker, the exit job, the screening job and the user.               *)
(***************************************************************************)
Fill(c, n) ==
  /\ trading /\ n \in 1 .. open[c]
  /\ n = open[c] \/ "partial" \in Env
  /\ bought[c] + given[c] + n <= MaxBought
  /\ held' = [held EXCEPT ![c] = @ + n]
  /\ open' = [open EXCEPT ![c] = @ - n]
  /\ bought' = [bought EXCEPT ![c] = @ + n]
  /\ UNCHANGED <<trading, ledger, outside, pc, locals, given, recorded,
                 hurt>>

\* The exit job sells all of a code that is v8's (filled at once).  A later
\* cycle of it lists the account without the code, and at its end gives up the
\* ownership; until then the code is left alone.
ExitSell(c) ==
  /\ trading /\ held[c] > 0 /\ c \in owned \ (leaving \cup missed)
  /\ held' = [held EXCEPT ![c] = 0]
  /\ sold' = sold \cup {c} /\ leaving' = leaving \cup {c}
  /\ UNCHANGED <<trading, open, ledger, autobuy, missed, pc, locals, history>>

ExitMiss(c) ==
  /\ trading /\ c \in leaving /\ held[c] = 0
  /\ leaving' = leaving \ {c} /\ missed' = missed \cup {c}
  /\ UNCHANGED <<market, ledger, sold, autobuy, pc, locals, history>>

ExitRelease(c) ==
  /\ trading /\ c \in missed
  /\ owned' = owned \ {c} /\ filled' = [filled EXCEPT ![c] = 0]
  /\ missed' = missed \ {c}
  /\ UNCHANGED <<market, waiting, prevOpen, sold, autobuy, leaving, pc, locals,
                 history>>

\* What is not filled expires.  No cycle is running: the last one begins
\* before the session ends, and the session closes minutes later.
Close ==
  /\ trading /\ pc = "idle" /\ missed = {}
  /\ trading' = FALSE /\ open' = None
  /\ UNCHANGED <<held, ledger, outside, pc, locals, history>>

\* run_v8_screen: new limits, expired limits, and the entries older than
\* ORDER_LEDGER_TTL, held or not, which leave their filled_qty behind.  Ages are
\* counted in V8Exit; here any of the entries may be that old.
Screen(limits, old) ==
  /\ ~trading
  /\ waiting' = limits
  /\ owned' = owned \ old
  /\ UNCHANGED <<market, filled, prevOpen, outside, pc, locals, history>>

Morning ==
  /\ ~trading
  /\ trading' = TRUE /\ sold' = {}
  /\ UNCHANGED <<held, open, ledger, autobuy, leaving, missed, pc, locals, history>>

\* manual_buy, filled at once
UserBuy(c) ==
  /\ "user" \in Env /\ trading
  /\ bought[c] + given[c] + Lot <= MaxBought
  /\ held' = [held EXCEPT ![c] = @ + Lot]
  /\ given' = [given EXCEPT ![c] = @ + Lot]
  /\ UNCHANGED <<trading, open, ledger, outside, pc, locals, bought, recorded,
                 hurt>>

\* manual_sell, filled at once
UserSell(c, n) ==
  /\ "user" \in Env /\ trading
  /\ n \in 1 .. held[c]
  /\ held' = [held EXCEPT ![c] = @ - n]
  /\ UNCHANGED <<trading, open, ledger, outside, pc, locals, history>>

\* manual_cancel_order, manual_cancel_all_orders
UserCancel(codes) ==
  /\ "user" \in Env
  /\ open' = [c \in Code |-> IF c \in codes THEN 0 ELSE open[c]]
  /\ UNCHANGED <<trading, held, ledger, outside, pc, locals, history>>

\* set_autobuy_enabled
Switch ==
  /\ "switch" \in Env
  /\ autobuy' = ~autobuy
  /\ UNCHANGED <<market, ledger, sold, leaving, missed, pc, locals, history>>

(***************************************************************************)
(* The specification.                                                      *)
(***************************************************************************)
Reading == ListHoldings \/ ListUnfilled(open) \/ ListNothing \/ GiveUp

Ordering ==
  \/ \E chosen \in SUBSET waiting : Plan(chosen)
  \/ \E off \in SUBSET Code : Review(off)
  \/ \E c \in Code : Drop(c) \/ CancelTimesOut(c) \/ ResizeCancel(c) 
                    \/ Place(c) \/ NotPlaced(c)
  \/ NoRoom \/ ResizeBuy \/ BuyTimesOut \/ Mark \/ Done
  \/ \E money \in 0 .. MAX_OPEN_ORDERS : Count(money)

Cycle == Reading \/ (\E c \in Code : Detect(c)) \/ StayOut \/ Ordering \/ Crash

Others ==
  \/ Close \/ Morning \/ Switch
  \/ \E limits \in SUBSET Code, old \in SUBSET owned : Screen(limits, old)
  \/ \E codes \in SUBSET Code : UserCancel(codes)
  \/ \E c \in Code : \/ ExitSell(c) \/ ExitMiss(c) \/ ExitRelease(c)
                     \/ UserBuy(c)
                     \/ \E n \in 1 .. MaxBought : Fill(c, n) \/ UserSell(c, n)

Next == Cycle \/ Others

Spec == Init /\ [][Next]_vars

(***************************************************************************)
(* Properties.                                                             *)
(***************************************************************************)
TypeOK ==
  /\ trading \in BOOLEAN /\ autobuy \in BOOLEAN
  /\ held \in [Code -> Nat] /\ open \in [Code -> Nat]
  /\ waiting \subseteq Code /\ owned \subseteq Code /\ prevOpen \subseteq Code
  /\ sold \subseteq Code /\ leaving \subseteq Code /\ missed \subseteq Code
  /\ filled \in [Code -> Nat]
  /\ pc \in Stage
  /\ hsnap \in [Code -> Nat] /\ osnap \in [Code -> Nat]
  /\ prev \subseteq Code /\ cands \subseteq Code /\ todo \subseteq Code
  /\ cur \in Code
  /\ slots \in 0 .. MAX_OPEN_ORDERS /\ placed \in Nat /\ newly \subseteq Code
  /\ bought \in [Code -> Nat] /\ given \in [Code -> Nat] /\ recorded \in [Code -> Nat]
  /\ hurt \subseteq Code

\* The job never has two orders open for a code: not after a resize, not after
\* a cycle that died between an order and its bookkeeping.
OneOrderPerCode == \A c \in Code : open[c] <= Lot

\* MAX_OPEN_ORDERS bounds the codes with an open order, counting the orders a
\* dead cycle left and those that resizing put back.
OpenWithinLimit == Cardinality(Of(open)) <= MAX_OPEN_ORDERS

\* _take_fill_delta: the trade history never shows more shares of a code than
\* were bought, however often the account is listed and whoever bought, sold or
\* cancelled, through orders with an unknown outcome and through cycles that
\* die.  It says nothing of a code once a listing was wrong about it, or once a
\* cycle died after it may have recorded the code (hurt).
RecordedAtMostBought ==
  \A c \in Code \ hurt : recorded[c] <= bought[c] + given[c]

\* "the rest of a partial fill is kept": whatever failed before, the job cancels
\* no order of a code it saw in the account.
PartialFillKept ==
  [][(pc \in {"drop", "resize"}) /\ todo' # todo =>
       \A c \in Of(hsnap) : open'[c] = open[c]]_vars

=============================================================================
