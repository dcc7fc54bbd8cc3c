------------------------------ MODULE FireBuy ------------------------------
(***************************************************************************)
(* The purchases of the mock account: run_mock.py, of which one instance   *)
(* may run, and run_fire_buy_cycle of kiwoom_fire_strategy_mock.py, which  *)
(* buys the reserved candidates in the closing auction, shares the day's   *)
(* budget out among them and notes each purchase in its state file.        *)
(* A cycle is the job of 15:21, or --run by hand when that one is over.    *)
(***************************************************************************)
EXTENDS Integers, Sequences, FiniteSets

CONSTANTS
  FcCode,
  FcInstance,          \* processes of run_mock.py
  BUY_SLOTS,           \* purchases per day, and POS_CAP_DIVISOR
  MAX_TOTAL_HOLDINGS,
  COOLDOWN_DAYS,
  FcPercent,           \* CASH_DEPLOY_RATIO, in percent
  FcCash, FcPrice,     \* amounts of ord_alow_amt, and prices, that occur
  FcDays, FcFaults     \* bounds: days, cycles that die

ASSUME FcAssumption ==
  /\ IsFiniteSet(FcCode) /\ BUY_SLOTS \in Nat \ {0} /\ MAX_TOTAL_HOLDINGS \in Nat
  /\ COOLDOWN_DAYS \in Nat \ {0} /\ FcPercent \in 0..100
  /\ FcCash \subseteq Nat /\ FcPrice \subseteq Nat \ {0} /\ FcDays \in Nat /\ FcFaults \in Nat

VARIABLES
  fcRunning,     \* the instances that hold, or think they hold, the lock
  fcOpen,        \* is_closing_auction_open
  fcHeld,        \* codes in the account
  fcOrdered,     \* codes on order until the auction ends
  fcCash,        \* ord_alow_amt
  fcManual,      \* codes the user bought
  fcLast,        \* the state file: days since the last purchase of a code
  fcDaily,       \* and the purchases of today
  fcCycle,       \* the cycle of an instance
  fcDay, fcFault,
  fcSince, fcBought  \* days since the last order, shares ordered; no action reads them

fcAccount == <<fcHeld, fcOrdered, fcCash, fcManual>>
fcFile    == <<fcLast, fcDaily>>
fcClock   == <<fcOpen, fcDay>>
fcMemory  == <<fcSince, fcBought>>
FcVars    == <<fcRunning, fcAccount, fcFile, fcCycle, fcClock, fcFault, fcMemory>>

Least(S)  == CHOOSE n \in S : \A m \in S : n <= m
Resting   == [at |-> "idle", ranked |-> <<>>, before |-> {}, count |-> 0, limit |-> 0,
              deployed |-> 0, buys |-> 0, last |-> <<>>]
LongAgo   == [c \in FcCode |-> COOLDOWN_DAYS]

FcInit ==
  /\ fcRunning = {} /\ fcOpen = TRUE /\ fcOrdered = {} /\ fcManual = {}
  /\ fcHeld \in {h \in SUBSET FcCode : Cardinality(h) <= MAX_TOTAL_HOLDINGS}
  /\ fcCash \in FcCash
  /\ fcLast = LongAgo /\ fcDaily = 0
  /\ fcCycle = [i \in FcInstance |-> Resting]
  /\ fcDay = 0 /\ fcFault = 0
  /\ fcSince = LongAgo /\ fcBought = [c \in FcCode |-> 0]

(***************************************************************************)
(* acquire_single_instance: an OS lock, which ends with its process.       *)
(***************************************************************************)
StartMock_Unlocked(i) ==                                         \* mutant
  /\ i \notin fcRunning
  /\ fcRunning' = fcRunning \cup {i}
  /\ UNCHANGED <<fcAccount, fcFile, fcCycle, fcClock, fcFault, fcMemory>>
StartMock(i) ==
  /\ fcRunning = {}
  /\ fcRunning' = {i}
  /\ UNCHANGED <<fcAccount, fcFile, fcCycle, fcClock, fcFault, fcMemory>>

(***************************************************************************)
(* The cycle reads what it needs.  Money is in hundredths: limit is        *)
(* deploy_limit.  Candidates without a quote, or held at a profit above    *)
(* REBUY_PROFIT_CAP, drop out; the others are ranked by the quote.         *)
(***************************************************************************)
Rankings(S) == UNION {{s \in [1..n -> S \X FcPrice] :
                         \A k, l \in 1..n : s[k][1] = s[l][1] => k = l} : n \in 0..Cardinality(S)}

BeginFire(i) ==
  /\ i \in fcRunning /\ fcOpen /\ fcCycle[i].at = "idle"
  /\ fcDaily < BUY_SLOTS /\ fcCash * FcPercent > 0
  /\ \E s \in Rankings({c \in FcCode \ fcManual : fcLast[c] >= COOLDOWN_DAYS}) :
       fcCycle' = [fcCycle EXCEPT ![i] =
         [at |-> "choose", ranked |-> s, before |-> fcHeld, count |-> Cardinality(fcHeld),
          limit |-> fcCash * FcPercent, deployed |-> 0, buys |-> fcDaily, last |-> fcLast]]
  /\ UNCHANGED <<fcRunning, fcAccount, fcFile, fcClock, fcFault, fcMemory>>

\* shares of the next candidate: what is left of the budget, shared among the
\* candidates or the slots that are left, and no more than a slot's share of it
Quantity(y) ==
  LET left  == y.limit - y.deployed
      parts == Least({Len(y.ranked), BUY_SLOTS - y.buys})
      price == 100 * y.ranked[1][2] IN
  Least({left \div (parts * price), y.limit \div (BUY_SLOTS * price), left \div price})

FullUp(y) == y.ranked[1][1] \notin y.before /\ y.count >= MAX_TOTAL_HOLDINGS

\* no room, not one share affordable, or an order the broker refuses
PassOver(i) ==
  LET y == fcCycle[i] IN
  /\ y.at = "choose" /\ y.ranked # <<>> /\ y.buys < BUY_SLOTS
  /\ fcCycle' = [fcCycle EXCEPT ![i].ranked = Tail(@)]
  /\ UNCHANGED <<fcRunning, fcAccount, fcFile, fcClock, fcFault, fcMemory>>

\* buy_market, accepted; the trade history and the position are noted at once
BuyFire(i) ==
  LET y == fcCycle[i]  c == y.ranked[1][1]  cost == Quantity(y) * y.ranked[1][2] IN
  /\ y.at = "choose" /\ y.ranked # <<>> /\ y.buys < BUY_SLOTS
  /\ ~FullUp(y) /\ Quantity(y) > 0 /\ cost <= fcCash
  /\ fcCash' = fcCash - cost
  /\ fcOrdered' = fcOrdered \cup {c}
  /\ fcBought' = [fcBought EXCEPT ![c] = @ + Quantity(y)]
  /\ fcSince' = [fcSince EXCEPT ![c] = 0]
  /\ fcCycle' = [fcCycle EXCEPT ![i].at = "note", ![i].deployed = @ + 100 * cost,
                                ![i].count = IF c \in y.before THEN @ ELSE @ + 1]
  /\ UNCHANGED <<fcRunning, fcHeld, fcManual, fcFile, fcClock, fcFault>>

\* _save_fire_state, after every purchase
Noted(y) == [y EXCEPT !.at = "choose", !.ranked = Tail(@), !.buys = @ + 1,
                      !.last[y.ranked[1][1]] = 0]
NotePurchase(i) ==
  LET y == Noted(fcCycle[i]) IN
  /\ fcCycle[i].at = "note"
  /\ fcCycle' = [fcCycle EXCEPT ![i] = y] /\ fcLast' = y.last /\ fcDaily' = y.buys
  /\ UNCHANGED <<fcRunning, fcAccount, fcClock, fcFault, fcMemory>>

EndFire(i) ==
  LET y == fcCycle[i] IN
  /\ y.at = "choose" /\ (y.ranked = <<>> \/ y.buys >= BUY_SLOTS)
  /\ fcCycle' = [fcCycle EXCEPT ![i] = Resting]
  /\ UNCHANGED <<fcRunning, fcAccount, fcFile, fcClock, fcFault, fcMemory>>

\* the process dies; while it writes, the state file is lost with it
DieFire(i) ==
  /\ i \in fcRunning /\ fcFault < FcFaults
  /\ fcFault' = fcFault + 1
  /\ fcRunning' = fcRunning \ {i}
  /\ fcCycle' = [fcCycle EXCEPT ![i] = Resting]
  /\ \/ UNCHANGED fcFile
     \/ fcCycle[i].at = "note" /\ fcLast' = LongAgo /\ fcDaily' = 0
  /\ UNCHANGED <<fcAccount, fcClock, fcMemory>>

(***************************************************************************)
(* The day.                                                                *)
(***************************************************************************)
\* orders are filled at 15:30, long after the cycle
AuctionEnds ==
  /\ fcOpen /\ \A i \in FcInstance : fcCycle[i].at = "idle"
  /\ fcOpen' = FALSE
  /\ \E f \in SUBSET fcOrdered : fcHeld' = fcHeld \cup f
  /\ fcOrdered' = {}
  /\ UNCHANGED <<fcRunning, fcCash, fcManual, fcFile, fcCycle, fcDay, fcFault, fcMemory>>

Older(a) == [c \in FcCode |-> Least({a[c] + 1, COOLDOWN_DAYS})]
\* sales and transfers, then the next closing auction
NextAuction ==
  /\ ~fcOpen /\ fcDay < FcDays
  /\ fcOpen' = TRUE /\ fcDay' = fcDay + 1
  /\ fcLast' = Older(fcLast) /\ fcSince' = Older(fcSince) /\ fcDaily' = 0
  /\ \E h \in SUBSET fcHeld : fcHeld' = h
  /\ fcCash' \in FcCash
  /\ \E m \in SUBSET FcCode : fcManual' = m
  /\ UNCHANGED <<fcRunning, fcOrdered, fcCycle, fcFault, fcBought>>

FcNext ==
  \/ AuctionEnds \/ NextAuction
  \/ \E i \in FcInstance :
       \/ StartMock(i) \/ BeginFire(i) \/ PassOver(i) \/ BuyFire(i) \/ NotePurchase(i)
       \/ EndFire(i) \/ DieFire(i)

FcSpec == FcInit /\ [][FcNext]_FcVars

(***************************************************************************)
(* Properties.                                                             *)
(***************************************************************************)
FcTypeOK ==
  /\ fcRunning \subseteq FcInstance /\ fcOpen \in BOOLEAN
  /\ fcHeld \subseteq FcCode /\ fcOrdered \subseteq FcCode /\ fcManual \subseteq FcCode
  /\ fcCash \in Nat /\ fcLast \in [FcCode -> 0..COOLDOWN_DAYS] /\ fcDaily \in 0..BUY_SLOTS
  /\ \A i \in FcInstance : fcCycle[i].at \in {"idle", "choose", "note"}
  /\ fcDay \in 0..FcDays /\ fcFault \in 0..FcFaults
  /\ fcSince \in [FcCode -> 0..COOLDOWN_DAYS] /\ fcBought \in [FcCode -> Nat]

\* "Two instances would buy the same code twice", and COOLDOWN_DAYS: as long as no
\* cycle has died, a code is not bought again within the cooldown, on the same day
\* or on the next, by this process or a second one.
CooldownKept ==
  [][\A c \in FcCode : fcSince[c] < COOLDOWN_DAYS /\ fcFault = 0 => fcBought'[c] = fcBought[c]]_FcVars

\* CASH_DEPLOY_RATIO and POS_CAP_DIVISOR: a cycle spends no more than its share of
\* the money it saw, and no more than one part in BUY_SLOTS of it on one code.
SpentWithinLimit ==
  [][\A i \in FcInstance : LET spent == fcCycle'[i].deployed - fcCycle[i].deployed IN
       spent > 0 => /\ fcCycle'[i].deployed <= fcCycle[i].limit
                    /\ spent * BUY_SLOTS <= fcCycle[i].limit]_FcVars

\* What kiwoom_fire_strategy keeps between two closing auctions: the codes it may not
\* buy again and the money it may spend.
FireRules == CooldownKept /\ SpentWithinLimit

=============================================================================
