------------------------------- MODULE V8Exit -------------------------------
(***************************************************************************)
(* The v8 exit job of auto_trading/kiwoom_v8_exit.py: the positions it     *)
(* keeps in its state file, the 30 second cycle that evaluates them        *)
(* against one listing of the account and sells, and the end of day job.   *)
(* Around it are the parts it talks to: the broker's account and order     *)
(* book, the v8 buy job that marks ownership, and the user.                *)
(*                                                                         *)
(* One cycle is many steps: other actors move between any two orders, and  *)
(* the position state reaches the file only when the cycle ends.  Dates    *)
(* are kept relative to today (an age in business days, a watch begun      *)
(* "today" or "earlier"), so that no bound on the calendar is needed.      *)
(***************************************************************************)
EXTENDS Integers, FiniteSets

CONSTANTS
  Code,           \* the stock codes
  Price,          \* the prices a quote or a daily high may show
  Entry,          \* the average prices a purchase may have
  Atr,            \* the 14 day average true ranges a chart may show
  Lot,            \* shares in one purchase
  MAX_HOLD_DAYS,  \* age at which a position is sold whatever its price
  ORDER_LEDGER_TTL, \* age, in days, beyond which a ledger entry is deleted
  Env,            \* which of EnvBehaviour the environment shows
  Faults,         \* how many cycles may die before they save
  BadReplies,     \* how many listings may come back empty by mistake
  NoPos           \* "this code is not in the state file"

EnvBehaviour ==
  {"user",        \* the user buys and sells from the dashboard
   "aftermarket", \* the 16:00-20:00 session, where sales are limit orders
   "halt",        \* a market order may be left unfilled at the close
   "rebuy",       \* a code may be bought again before its old position is
                  \* cleared from the state file
   "partial",     \* a purchase may be filled in parts
   "drop",        \* the buy job cancels orders of codes it no longer wants
   "reject",      \* the cancellation of a purchase may be refused
   "ledger",      \* the ledger may be unreadable, and is then taken for empty
   "company"}     \* the account always holds some other stock as well, so that
                  \* only a failed listing is empty

Slot  == {"open", "regular", "closed", "after"}
Stage == {"idle", "listed", "blank", "scan", "stop", "trail", "tp", "hold"}
Watch == {"none", "today", "earlier"}

Position ==
  [entry : Nat, atr : Nat, peak : Nat, shares0 : Nat, trail_armed : BOOLEAN,
   last_fire_peak : Nat,          \* 0 stands for None
   tp_done : BOOLEAN, age : Nat, last_price : Nat,
   pending_exit : BOOLEAN, watch : Watch]

ASSUME PriceAssumption == /\ Price \subseteq Nat \ {0}
                          /\ Entry \subseteq Nat \ {0}
                          /\ Atr \subseteq Nat \ {0}
ASSUME BoundAssumption == /\ Lot \in Nat \ {0}
                          /\ MAX_HOLD_DAYS \in Nat \ {0}
                          /\ ORDER_LEDGER_TTL \in Nat
                          /\ Faults \in Nat
                          /\ BadReplies \in Nat
                          /\ Env \subseteq EnvBehaviour
ASSUME CodeAssumption == Code # {}
ASSUME NoPosAssumption == NoPos \notin Position

VARIABLES
  \* the account and the order book, at the broker
  slot,     \* the part of the trading day
  held,     \* shares of each code in the account
  work,     \* shares of each code in accepted v8 sell orders not yet filled
  openBuy,  \* shares of each code in v8 buy orders not yet filled
  \* files shared with the other jobs
  owned,    \* codes v8 marked as ordered (v8_owned_codes)
  marked,   \* days since each of them was first marked, 0 for the others;
            \* bounded: beyond ORDER_LEDGER_TTL all ages are one
  sold,     \* codes v8 sold today (sold_today_codes)
  manual,   \* codes protected as bought by the user (manual_owned_codes)
  file,     \* the state file: the position of each code, or NoPos
  \* a local of the buy job
  dropping, \* codes its listing of this cycle showed on order and not held
  \* locals of the running cycle
  pc,       \* what the cycle does next
  st,       \* its copy of the state file
  snap,     \* the listing it read: shares of each code
  live,     \* codes of the listing that are v8's to manage
  todo,     \* those of live it has not looked at yet
  cur,      \* the code it is looking at
  px,       \* the price it saw
  left,     \* shares it believes are left to sell
  faults, badReplies,
  \* what a property needs to remember; no action reads it
  seen,     \* per code: the last two quotes below the trailing line today,
            \* the peak of the last trailing order, take profits sent
  lost      \* codes whose ledger entry went, other than by the exit job, with
            \* shares in the account or on order

broker == <<slot, held, work, openBuy>>
ledger == <<owned, marked, lost, dropping>>
shared == <<ledger, sold, manual, file>>
locals == <<st, snap, live, todo, cur, px, left>>
bounds == <<faults, badReplies>>
vars   == <<broker, shared, pc, locals, bounds, seen>>

(***************************************************************************)
(* The arithmetic of the rules, in whole prices.                           *)
(***************************************************************************)
ATR_MULT == 3

Trading(s) == s # "closed"                    \* is_market_open
Larger(a, b)  == IF a > b THEN a ELSE b
Smaller(a, b) == IF a < b THEN a ELSE b

\* max(1, int(round(n / 2))) : Python rounds a half to the even neighbour
Half(n) == Larger(1, IF n % 4 = 3 THEN (n + 1) \div 2 ELSE n \div 2)

BelowStop(p, x)  == x <= p.peak - ATR_MULT * p.atr
BelowTrail(p, x) == p.trail_armed /\ 1000 * x <= 985 * p.peak
AtTarget_Again(p, x) == 100 * x >= 120 * p.entry                 \* mutant
AtTarget(p, x)   == ~p.tp_done /\ 100 * x >= 120 * p.entry
Anomaly(p, x)    == 100 * x <= 65 * p.last_price

\* _init_pos
InitPos(e, a, qty) ==
  [entry |-> e, atr |-> a, peak |-> e, shares0 |-> qty, trail_armed |-> TRUE,
   last_fire_peak |-> 0, tp_done |-> FALSE, age |-> 0, last_price |-> e,
   pending_exit |-> FALSE, watch |-> "none"]

\* the position a listing of qty shares at average price e leaves in st:
\* a new one, one whose first purchase grew, or the one there is
Registered(p, e, a, qty) ==
  IF p = NoPos THEN InitPos(e, a, qty)
  ELSE IF qty > p.shares0 /\ ~p.tp_done /\ p.trail_armed
       THEN [p EXCEPT !.shares0 = qty, !.entry = e]
       ELSE p

\* a watch counts only on the day it began
Watching_Overnight(p) == p.watch # "none"                        \* mutant
Watching(p) == p.watch = "today"

Expired_Armed(p) == p.trail_armed /\ p.age >= MAX_HOLD_DAYS       \* mutant
Expired(p) == p.age >= MAX_HOLD_DAYS

\* last_price and peak after a quote that passed the checks
Quoted(p, x) == [p EXCEPT !.last_price = x, !.peak = Larger(p.peak, x)]

\* what an accepted order leaves of a position; "last" when it was for all
\* the shares that were left
Leaving(p)     == [p EXCEPT !.pending_exit = TRUE]
Fired(p, last) == [p EXCEPT !.trail_armed = FALSE, !.last_fire_peak = p.peak,
                            !.watch = "none", !.pending_exit = last]
Taken(p, last) == [p EXCEPT !.tp_done = TRUE, !.pending_exit = last]
Watched(p, w)  == [p EXCEPT !.watch = w]

Sellable(c) == held[c] - work[c]

\* the codes of the listing the cycle will manage, if the ledger shows "mine"
Managed(mine) == {c \in Code : snap[c] > 0 /\ c \notin manual /\ c \in mine}

\* those of them it will look at: not the ones whose exit is not confirmed yet
Pending(p) == p # NoPos /\ p.pending_exit
Unfinished_All(managed) == managed                               \* mutant
Unfinished(managed) == {c \in managed : ~Pending(file[c])}

NoListing == [c \in Code |-> 0]
NoState   == [c \in Code |-> NoPos]

\* _load_pending: whether the ledger can be read; {} is returned when it cannot
Readable == {TRUE} \cup (IF "ledger" \in Env THEN {FALSE} ELSE {})
Entries(readable) == IF readable THEN owned ELSE {}

\* The ledger is stored with the entries "kept": the others are gone, and with
\* them v8's claim to what is held or on order of those codes.
Keep(kept) ==
  /\ owned' = kept
  /\ marked' = [c \in Code |-> IF c \in kept \cap owned THEN marked[c] ELSE 0]
  /\ lost' = lost \cup {c \in owned \ kept : held[c] > 0 \/ openBuy'[c] > 0}

Unread == {"idle", "listed", "blank"}    \* the cycle has not read the files

Unseen == [before |-> FALSE, now |-> FALSE, fired |-> 0, takes |-> 0]

Noted(s, below)    == [s EXCEPT !.before = s.now, !.now = below]
NotedFire(s, peak) == [s EXCEPT !.fired = peak]
NotedTake(s)       == [s EXCEPT !.takes = s.takes + 1]

Init ==
  /\ slot = "open" /\ held = NoListing /\ work = NoListing /\ openBuy = NoListing
  /\ owned = {} /\ marked = NoListing /\ lost = {} /\ dropping = {}
  /\ sold = {} /\ manual = {} /\ file = NoState
  /\ pc = "idle" /\ st = NoState /\ snap = NoListing /\ live = {} /\ todo = {}
  /\ cur = CHOOSE c \in Code : TRUE
  /\ px = 0 /\ left = 0
  /\ faults = 0 /\ badReplies = 0
  /\ seen = [c \in Code |-> Unseen]

\* the locals of a cycle that is over, canonical so that they add no states
Forget ==
  /\ pc' = "idle" /\ st' = NoState /\ snap' = NoListing /\ live' = {} /\ todo' = {}
  /\ cur' = CHOOSE c \in Code : TRUE
  /\ px' = 0 /\ left' = 0

(***************************************************************************)
(* The cycle.                                                              *)
(***************************************************************************)
\* get_holdings
List ==
  /\ pc = "idle" /\ Trading(slot)
  /\ snap' = held
  /\ pc' = IF "company" \notin Env /\ held = NoListing THEN "blank" ELSE "listed"
  /\ UNCHANGED <<broker, shared, st, live, todo, cur, px, left, bounds, seen>>

\* get_holdings answers an API error with an empty list
ListEmpty ==
  /\ pc = "idle" /\ Trading(slot)
  /\ badReplies < BadReplies
  /\ badReplies' = badReplies + 1
  /\ snap' = NoListing
  /\ pc' = "blank"
  /\ UNCHANGED <<broker, shared, st, live, todo, cur, px, left, faults, seen>>

\* An empty listing is taken at its word only when no position is waiting for
\* anything but the confirmation of its exit.
AllPending == \A c \in Code : file[c] # NoPos => Pending(file[c])

\* Read the state file, the ownership ledger and the user's codes.
ReadFiles ==
  /\ pc = "listed" \/ (pc = "blank" /\ AllPending)
  /\ st' = file
  /\ \E readable \in Readable :
       /\ live' = Managed(Entries(readable))
       /\ todo' = Unfinished(Managed(Entries(readable)))
  /\ pc' = "scan"
  /\ UNCHANGED <<broker, shared, snap, cur, px, left, bounds, seen>>

GiveUp ==
  /\ pc = "blank" /\ ~AllPending
  /\ Forget
  /\ UNCHANGED <<broker, shared, bounds, seen>>

\* Register the next code and drop it for this cycle: no price, the previous
\* close still quoted in the first minutes, or a fall too deep to be one.
Skip(c, e, a, x) ==
  /\ pc = "scan" /\ c \in todo
  /\ LET p == Registered(st[c], e, a, snap[c]) IN
       /\ x = 0 \/ slot = "open" \/ Anomaly(p, x)
       /\ st' = [st EXCEPT ![c] = p]
  /\ todo' = todo \ {c}
  /\ UNCHANGED <<broker, shared, pc, snap, live, cur, px, left, bounds, seen>>

\* Register the next code, take its quote and go through the rules.
Observe(c, e, a, x) ==
  /\ pc = "scan" /\ c \in todo
  /\ x \in Price
  /\ LET p == Registered(st[c], e, a, snap[c]) IN
       /\ ~Anomaly(p, x)
       /\ st' = [st EXCEPT ![c] = Quoted(p, x)]
       /\ seen' = [seen EXCEPT ![c] = Noted(@, BelowTrail(Quoted(p, x), x))]
  /\ todo' = todo \ {c}
  /\ cur' = c /\ px' = x /\ left' = snap[c]
  /\ pc' = "stop"
  /\ UNCHANGED <<broker, shared, snap, live, bounds>>

\* An accepted order for n shares of the code looked at: it works at the
\* broker and the code may not be bought again today.  mark_sold stores the
\* whole ledger as it read it.
Accepted(n) ==
  /\ n <= Sellable(cur)
  /\ work' = [work EXCEPT ![cur] = @ + n]
  /\ UNCHANGED <<slot, held, openBuy, dropping, manual, file>>
  /\ \E readable \in Readable :
       /\ Keep(Entries(readable))
       /\ sold' = (IF readable THEN sold ELSE {}) \cup {cur}

ExitAll_ReleaseAtOnce ==                                         \* mutant
  /\ left <= Sellable(cur)
  /\ work' = [work EXCEPT ![cur] = @ + left]
  /\ sold' = sold \cup {cur}
  /\ owned' = owned \ {cur} /\ marked' = [marked EXCEPT ![cur] = 0]
  /\ st' = [st EXCEPT ![cur] = Leaving(@)]
  /\ pc' = "scan"
  /\ UNCHANGED <<slot, held, openBuy, lost, dropping, manual, file,
                 snap, live, todo, cur, px, left, bounds, seen>>

\* A full exit: everything left goes, and the position waits for the shares
\* to disappear from the account before ownership is given up.
ExitAll ==
  /\ Accepted(left)
  /\ st' = [st EXCEPT ![cur] = Leaving(@)]
  /\ pc' = "scan"
  /\ UNCHANGED <<snap, live, todo, cur, px, left, bounds, seen>>

\* go on to a stage, changing nothing else
Goto(stage) ==
  /\ pc' = stage
  /\ UNCHANGED <<broker, shared, locals, bounds, seen>>

StopHit  == pc = "stop" /\ BelowStop(st[cur], px)

StopExit    == StopHit /\ ExitAll
StopRefused == StopHit /\ Goto("scan")
NoStop      == pc = "stop" /\ ~BelowStop(st[cur], px) /\ Goto("trail")

TrailHit == pc = "trail" /\ BelowTrail(st[cur], px)

\* the first sighting of the day starts the watch
TrailWatch ==
  /\ TrailHit
  /\ ~Watching(st[cur])
  /\ st' = [st EXCEPT ![cur] = Watched(@, "today")]
  /\ pc' = "tp"
  /\ UNCHANGED <<broker, shared, snap, live, todo, cur, px, left, bounds, seen>>

\* not yet TRAIL_CONFIRM_SECONDS, or the order was refused
TrailWait == TrailHit /\ Watching(st[cur]) /\ Goto("tp")

TrailFire_GoOn ==                                                \* mutant
  /\ TrailHit
  /\ Watching(st[cur])
  /\ LET n == Smaller(Half(st[cur].shares0), left) IN
       /\ Accepted(n)
       /\ left' = left - n
       /\ st' = [st EXCEPT ![cur] = Fired(@, FALSE)]
  /\ pc' = "tp"
  /\ seen' = [seen EXCEPT ![cur] = NotedFire(@, st[cur].peak)]
  /\ UNCHANGED <<snap, live, todo, cur, px, bounds>>

\* confirmed: half of the first quantity goes and the line is disarmed
TrailFire ==
  /\ TrailHit
  /\ Watching(st[cur])
  /\ LET n == Smaller(Half(st[cur].shares0), left) IN
       /\ Accepted(n)
       /\ left' = left - n
       /\ st' = [st EXCEPT ![cur] = Fired(@, left = n)]
       /\ pc' = IF left = n THEN "scan" ELSE "tp"
  /\ seen' = [seen EXCEPT ![cur] = NotedFire(@, st[cur].peak)]
  /\ UNCHANGED <<snap, live, todo, cur, px, bounds>>

\* above the line again, or not armed: a watch that was on is over
NoTrail ==
  /\ pc = "trail" /\ ~BelowTrail(st[cur], px)
  /\ st' = [st EXCEPT ![cur] = Watched(@, "none")]
  /\ pc' = "tp"
  /\ UNCHANGED <<broker, shared, snap, live, todo, cur, px, left, bounds, seen>>

TakeProfit ==
  /\ pc = "tp" /\ AtTarget(st[cur], px)
  /\ LET n == Smaller(Half(st[cur].shares0), left) IN
       /\ Accepted(n)
       /\ left' = left - n
       /\ st' = [st EXCEPT ![cur] = Taken(@, left = n)]
       /\ pc' = IF left = n THEN "scan" ELSE "hold"
  /\ seen' = [seen EXCEPT ![cur] = NotedTake(@)]
  /\ UNCHANGED <<snap, live, todo, cur, px, bounds>>

\* not at the target, or the order was refused
NoTakeProfit == pc = "tp" /\ Goto("hold")

HoldExit == pc = "hold" /\ Expired(st[cur]) /\ ExitAll
NoHoldExit == pc = "hold" /\ Goto("scan")

\* Clear the codes the listing no longer shows, giving up the ownership of
\* those whose exit that confirms, and save.  release_ordered stores nothing
\* when it finds no entry, so an unreadable ledger keeps the entry.
Finish ==
  /\ pc = "scan" /\ todo = {}
  /\ \E readable \in Readable :
       LET gone == IF readable THEN {c \in Code \ live : Pending(st[c])} ELSE {} IN
         /\ owned' = owned \ gone
         /\ marked' = [c \in Code |-> IF c \in gone THEN 0 ELSE marked[c]]
  /\ file' = [c \in Code |-> IF c \in live THEN st[c] ELSE NoPos]
  /\ seen' = [c \in Code |-> IF c \in live THEN seen[c] ELSE Unseen]
  /\ Forget
  /\ UNCHANGED <<broker, lost, dropping, sold, manual, bounds>>

\* an exception or a restart: whatever the cycle learned is not saved
Crash ==
  /\ pc # "idle"
  /\ faults < Faults
  /\ faults' = faults + 1
  /\ Forget
  /\ UNCHANGED <<broker, shared, badReplies, seen>>

EndOfDay_SamePeak(p, hi) ==                                      \* mutant
  IF p = NoPos \/ hi = 0 THEN p
  ELSE LET top == Larger(p.peak, hi) IN
       [p EXCEPT !.peak = top,
                 !.trail_armed = IF p.last_fire_peak # 0 /\ top >= p.last_fire_peak
                                 THEN TRUE ELSE @]

\* run_v8_eod for one position; a high of 0 stands for a missing chart
EndOfDay(p, hi) ==
  IF p = NoPos \/ hi = 0 THEN p
  ELSE LET top == Larger(p.peak, hi) IN
       [p EXCEPT !.peak = top,
                 !.trail_armed = IF p.last_fire_peak # 0 /\ top > p.last_fire_peak
                                 THEN TRUE ELSE @]

Eod(high) ==
  /\ slot = "closed" /\ pc = "idle"
  /\ file' = [c \in Code |-> EndOfDay(file[c], high[c])]
  /\ UNCHANGED <<broker, ledger, sold, manual, pc, locals, bounds, seen>>

(***************************************************************************)
(* The broker and the clock.                                               *)
(***************************************************************************)
SellFill(c, n) ==
  /\ Trading(slot) /\ n \in 1 .. work[c]
  /\ held' = [held EXCEPT ![c] = @ - n]
  /\ work' = [work EXCEPT ![c] = @ - n]
  /\ UNCHANGED <<slot, openBuy, shared, pc, locals, bounds, seen>>

BuyFill(c, n) ==
  /\ Trading(slot) /\ n \in 1 .. openBuy[c]
  /\ "partial" \in Env \/ n = openBuy[c]
  /\ held' = [held EXCEPT ![c] = @ + n]
  /\ openBuy' = [openBuy EXCEPT ![c] = @ - n]
  /\ UNCHANGED <<slot, work, shared, pc, locals, bounds, seen>>

\* A session is over: what it left unfilled expires.  No cycle is running: the
\* last one begins before 15:20, or 20:00, and the session closes minutes later.
Expire == work' = NoListing /\ openBuy' = NoListing

\* a cycle of the buy job does not outlive the session either
NextSlot ==
  /\ \/ slot = "open" /\ slot' = "regular" /\ UNCHANGED <<work, openBuy>>
     \/ /\ slot = "regular" /\ slot' = "closed" /\ pc = "idle"
        /\ "halt" \in Env \/ work = NoListing
        /\ Expire
     \/ /\ "aftermarket" \in Env
        /\ slot = "closed" /\ slot' = "after" /\ UNCHANGED <<work, openBuy>>
  /\ dropping' = {}
  /\ UNCHANGED <<held, owned, marked, lost, sold, manual, file, pc, locals, bounds,
                 seen>>

\* every date in the file is one day further back
Aged(p) ==
  IF p = NoPos THEN p
  ELSE [p EXCEPT !.age = Smaller(@ + 1, MAX_HOLD_DAYS),
                 !.watch = IF @ = "today" THEN "earlier" ELSE @]

NextDay ==
  /\ slot = IF "aftermarket" \in Env THEN "after" ELSE "closed"
  /\ pc = "idle"
  /\ slot' = "open" /\ Expire
  /\ sold' = {} /\ dropping' = {}
  /\ marked' = [c \in Code |-> IF c \in owned THEN Smaller(marked[c] + 1, ORDER_LEDGER_TTL + 1)
                                            ELSE 0]
  /\ file' = [c \in Code |-> Aged(file[c])]
  /\ seen' = [c \in Code |-> [seen[c] EXCEPT !.before = FALSE, !.now = FALSE]]
  /\ UNCHANGED <<held, owned, lost, manual, pc, locals, bounds>>

(***************************************************************************)
(* The v8 buy job and the user, as this job meets them.                    *)
(***************************************************************************)
\* An order, and _mark_ordered: a code that has an entry keeps the date of it.
BuyOrder(c) ==
  /\ Trading(slot)
  /\ held[c] = 0 /\ openBuy[c] = 0 /\ c \notin sold \cup dropping
  /\ "rebuy" \in Env \/ file[c] = NoPos
  /\ openBuy' = [openBuy EXCEPT ![c] = Lot]
  /\ \E readable \in Readable :
       /\ owned' = Entries(readable) \cup {c}
       /\ marked' = [d \in Code |-> IF d \in Entries(readable) THEN marked[d] ELSE 0]
       /\ lost' = (lost \cup {d \in owned \ Entries(readable) :
                                 held[d] > 0 \/ openBuy[d] > 0}) \ {c}
       /\ sold' = IF readable THEN sold ELSE {}
  /\ UNCHANGED <<slot, held, work, dropping, manual, file, pc, locals, bounds, seen>>

\* The buy job lists the account and its orders ...
BuyList ==
  /\ "drop" \in Env /\ Trading(slot)
  /\ dropping' = {c \in Code : held[c] = 0 /\ openBuy[c] > 0}
  /\ UNCHANGED <<broker, owned, marked, lost, sold, manual, file, pc, locals, bounds,
                 seen>>

\* ... and drops an order whose code is no longer a candidate: it cancels what is
\* left of it, whatever was filled since, and releases the code without looking
\* at the answer.
BuyCancel(c) ==
  /\ c \in dropping
  /\ dropping' = dropping \ {c}
  /\ \/ openBuy' = [openBuy EXCEPT ![c] = 0]
     \/ "reject" \in Env /\ UNCHANGED openBuy
  /\ \E readable \in Readable : Keep(IF readable THEN owned \ {c} ELSE owned)
  /\ UNCHANGED <<slot, held, work, sold, manual, file, pc, locals, bounds, seen>>

\* The ledger's part of run_v8_screen, after the close: entries first marked more
\* than ORDER_LEDGER_TTL days ago go, without a look at the account or at the
\* positions.
Screened ==
  /\ slot = "closed" /\ pc = "idle"
  /\ openBuy' = openBuy
  /\ \E readable \in Readable :
       /\ Keep({c \in Entries(readable) : marked[c] <= ORDER_LEDGER_TTL})
       /\ sold' = IF readable THEN sold ELSE {}
  /\ UNCHANGED <<slot, held, work, dropping, manual, file, pc, locals, bounds, seen>>

\* manual_buy, filled at once: protected unless v8 tracks the code.  Bounded:
\* the account never has more than 2 * Lot shares of a code.
UserBuy(c) ==
  /\ "user" \in Env /\ Trading(slot)
  /\ held[c] + openBuy[c] <= Lot
  /\ held' = [held EXCEPT ![c] = @ + Lot]
  /\ manual' = IF file[c] = NoPos THEN manual \cup {c} ELSE manual
  /\ UNCHANGED <<slot, work, openBuy, ledger, sold, file, pc, locals, bounds, seen>>

\* manual_sell, filled at once: the protection goes with the last share
UserSell(c, n) ==
  /\ "user" \in Env /\ Trading(slot)
  /\ n \in 1 .. Sellable(c)
  /\ held' = [held EXCEPT ![c] = @ - n]
  /\ manual' = IF n = held[c] THEN manual \ {c} ELSE manual
  /\ UNCHANGED <<slot, work, openBuy, ledger, sold, file, pc, locals, bounds, seen>>

\* manual_cancel_order, manual_cancel_all_orders: the order goes, the files of
\* v8 stay as they are
UserCancel(c) ==
  /\ "user" \in Env
  /\ \/ work[c] > 0 /\ work' = [work EXCEPT ![c] = 0] /\ UNCHANGED openBuy
     \/ openBuy[c] > 0 /\ openBuy' = [openBuy EXCEPT ![c] = 0] /\ UNCHANGED work
  /\ UNCHANGED <<slot, held, shared, pc, locals, bounds, seen>>

(***************************************************************************)
(* The specification.                                                      *)
(***************************************************************************)
Look == \E c \in Code, e \in Entry, a \in Atr :
          \/ \E x \in Price : Observe(c, e, a, x)
          \/ \E x \in Price \cup {0} : Skip(c, e, a, x)

Rules == \/ StopExit \/ StopRefused \/ NoStop
         \/ TrailWatch \/ TrailWait \/ TrailFire \/ NoTrail
         \/ TakeProfit \/ NoTakeProfit
         \/ HoldExit \/ NoHoldExit

Cycle == List \/ ListEmpty \/ ReadFiles \/ GiveUp \/ Look \/ Rules \/ Finish \/ Crash

Broker == \/ NextSlot \/ NextDay
          \/ \E c \in Code, n \in 1 .. 2 * Lot : SellFill(c, n) \/ BuyFill(c, n)

Others == \/ BuyList \/ Screened
          \/ \E c \in Code :
               \/ BuyOrder(c) \/ BuyCancel(c) \/ UserBuy(c) \/ UserCancel(c)
               \/ \E n \in 1 .. 2 * Lot : UserSell(c, n)

Next == \/ Cycle
        \/ \E high \in [Code -> Price \cup {0}] : Eod(high)
        \/ Broker \/ Others

Spec == Init /\ [][Next]_vars

(***************************************************************************)
(* Properties.                                                             *)
(***************************************************************************)
TypeOK ==
  /\ slot \in Slot /\ pc \in Stage
  /\ held \in [Code -> Nat] /\ work \in [Code -> Nat] /\ openBuy \in [Code -> Nat]
  /\ owned \subseteq Code /\ sold \subseteq Code /\ manual \subseteq Code
  /\ marked \in [Code -> 0 .. ORDER_LEDGER_TTL + 1]
  /\ lost \subseteq Code /\ dropping \subseteq Code
  /\ file \in [Code -> Position \cup {NoPos}]
  /\ st \in [Code -> Position \cup {NoPos}]
  /\ snap \in [Code -> Nat]
  /\ live \subseteq Code /\ todo \subseteq live
  /\ cur \in Code /\ px \in Nat /\ left \in Nat
  /\ pc \notin Unread \cup {"scan"} => st[cur] # NoPos /\ left > 0
  /\ faults \in Nat /\ badReplies \in Nat
  /\ seen \in [Code -> [before : BOOLEAN, now : BOOLEAN, fired : Nat, takes : Nat]]

\* A trailing line that has fired is armed again only above the peak it fired
\* at: run_v8_eod re-arms on a strictly higher peak, and nothing that happens
\* to the file or to a cycle's copy in between loses that.
HighSinceFire(p) ==
  p # NoPos => /\ p.last_fire_peak = 0 => p.trail_armed
               /\ p.trail_armed => p.peak > p.last_fire_peak

ArmedAtNewHigh ==
  \A c \in Code : HighSinceFire(file[c]) /\ HighSinceFire(st[c])

\* A trailing order goes out only for a peak above that of every trailing
\* order sent for this holding before, whatever the file says of them.
TrailFiresAtNewHigh ==
  [][pc = "trail" /\ work'[cur] > work[cur] => st[cur].peak > seen[cur].fired]_vars

\* TRAIL_CONFIRM_SECONDS: a trailing order follows two quotes of the same day,
\* one after the other, both under the line.  A single bad tick, or a watch
\* left over from yesterday, sells nothing.
TrailConfirmed ==
  [][pc = "trail" /\ work'[cur] > work[cur] => seen[cur].before /\ seen[cur].now]_vars

\* The +20% target sells half of a position once, from its registration to the
\* day it is cleared.
TakeProfitOnce == \A c \in Code : seen[c].takes <= 1

\* Once a full exit has been saved nothing more is ordered for the code until
\* the account no longer shows it.
QuietWhileExiting ==
  [][\A c \in Code : work'[c] > work[c] =>
        ~Pending(file[c])]_vars

\* The exit job keeps the ownership of a code as long as the state file says its
\* exit waits for confirmation and shares are held: the legacy exit must not sell
\* them too (the incident of 2026-09-14).  It is taken away behind the exit job's
\* back in three ways, and these alone: run_v8_screen deletes an entry by its age,
\* held or not; the buy job drops an order that was filled after its listing, or
\* that the broker would not cancel; a job stores a ledger it could not read.
OwnedWhileExiting ==
  \A c \in Code : Pending(file[c]) /\ held[c] > 0 => c \in owned \cup lost

\* "that release_ordered was not called means ownership was never taken": a
\* position cleared without an exit is not of an owned code.
ClearedMeansNeverOwned ==
  [][pc = "scan" /\ pc' = "idle" /\ todo = {} /\ faults' = faults =>
       \A c \in Code \ live :
         st[c] # NoPos /\ ~Pending(st[c]) => c \notin owned']_vars

(***************************************************************************)
(* Liveness.  The jobs are run again and again by the scheduler, quotes    *)
(* are good and orders accepted infinitely often, the clock goes on, and   *)
(* the broker fills what it can.  Nothing is asked of the user.            *)
(***************************************************************************)
Fairness ==
  /\ SF_vars(NextSlot) /\ SF_vars(NextDay)
  /\ SF_vars(List) /\ WF_vars(ReadFiles) /\ WF_vars(Finish) /\ WF_vars(Rules)
  /\ \A c \in Code :
       /\ SF_vars(\E e \in Entry, a \in Atr, x \in Price : Observe(c, e, a, x))
       /\ SF_vars(cur = c /\ (StopExit \/ HoldExit))
       /\ SF_vars(\E n \in 1 .. 2 * Lot : SellFill(c, n))

FairSpec == Spec /\ Fairness

\* Rule 4 of the module, "the longest holding: all that is left": shares with
\* a position in the file are sold out sooner or later, unless the ledger has lost
\* the code: the shares are then the legacy exit's.
SoldOutInTheEnd ==
  \A c \in Code : file[c] # NoPos /\ held[c] > 0 ~> held[c] = 0 \/ c \in lost
=============================================================================
