------------------------------ MODULE Portfolio ------------------------------
(***************************************************************************)
(* The simulated accounts of auto_trading/backtest, which decide how much  *)
(* of the cash a day's candidates get.  A day settles what is due, takes   *)
(* a part of the cash as its limit, and walks through the candidates in    *)
(* their order.  A position is settled for certain on the day its exit was *)
(* computed for, the last day at the latest.                               *)
(*                                                                         *)
(* A budget is only ever divided by a price and rounded down, so the       *)
(* quantity is the smallest of the quantities of the bounds on the budget. *)
(* Limits are in tenths of a won, as the ratio is; costs are left out.     *)
(***************************************************************************)
EXTENDS Integers, Sequences, FiniteSets, SequencesExt

CONSTANTS
  PfCapital,
  PfRatio,      \* deploy_ratio in tenths
  PfSlots,
  PfCaps,       \* values of cap_divisor, 0 for none
  PfUnit,       \* cash for one slot of a study of slots, 0 for a fixed number
  PfRows,       \* lists of candidates [code, price, days, ret] a day may have; ret in tenths
  PfDays        \* bound

PfCooldown == 2   \* COOLDOWN_DAYS

ASSUME PfAssumption ==
  /\ {PfCapital, PfSlots, PfDays} \subseteq Nat \ {0} /\ PfRatio \in 1..10
  /\ PfCaps \subseteq Nat /\ PfUnit \in Nat

VARIABLES
  pfStudy,    \* which simulation, and its cap
  pfDay,
  pfCash, pfBasis,
  pfOpen,     \* positions [code, bought, exit, cost, proceeds]
  pfLast,     \* last_buy_idx, 0 for never
  pfToday,    \* limit and spending of the last day, for the properties
  pfGain      \* what was settled brought in, for the properties

PfVars == <<pfStudy, pfDay, pfCash, pfBasis, pfOpen, pfLast, pfToday, pfGain>>

PfCode == {r.code : r \in UNION {ToSet(rows) : rows \in PfRows}}

PfInit ==
  /\ pfStudy \in [rule : {"current", "A1", "A2", "old", "new", "slots"}, cap : PfCaps]
  /\ pfDay = 0 /\ pfCash = PfCapital /\ pfBasis = 0 /\ pfOpen = {}
  /\ pfLast = [c \in PfCode |-> 0]
  /\ pfToday = [limit |-> 0, spent |-> 0] /\ pfGain = 0

Lesser(a, b) == IF a < b THEN a ELSE b
Most(a, b)  == IF a > b THEN a ELSE b

SumOf(set, f(_)) == FoldLeft(LAMBDA sum, p : sum + f(p), 0, SetToSeq(set))

(***************************************************************************)
(* One day, for any way to choose the candidates, their quantities and the *)
(* number of slots.                                                        *)
(***************************************************************************)
Due_Later(p) == p.exit < pfDay + 1                               \* mutant
Due(p) == p.exit <= pfDay + 1

AfterSettling ==
  LET due == {p \in pfOpen : Due(p)} IN
  [cash  |-> pfCash + SumOf(due, LAMBDA p : p.proceeds),
   basis |-> pfBasis - SumOf(due, LAMBDA p : p.cost),
   open  |-> pfOpen \ due,
   gain  |-> pfGain + SumOf(due, LAMBDA p : p.proceeds - p.cost)]

Limit(cash) == Most(0, cash) * PfRatio

\* Quantity(limit, spent, k, bought) is what the budget of the k-th candidate pays for.
Traded(start, rows, slots, Quantity(_, _, _, _)) ==
  LET limit == Limit(start.cash)
      Walk(t, k) ==
        LET r == rows[k]
            qty == Lesser(Quantity(limit, t.spent, k, t.bought), (start.cash - t.spent) \div r.price)
            cost == qty * r.price
        IN IF t.bought = slots \/ qty <= 0 THEN t
           ELSE [t EXCEPT !.spent = @ + cost, !.bought = @ + 1,
                          !.open = @ \cup {[code |-> r.code, bought |-> pfDay + 1,
                                            exit |-> Lesser(pfDay + 1 + r.days, PfDays),
                                            cost |-> cost,
                                            proceeds |-> (cost * (10 + r.ret)) \div 10]}]
  IN FoldLeft(Walk, [spent |-> 0, bought |-> 0, open |-> {}], [k \in DOMAIN rows |-> k])

EndOfPfDay(start, t) ==
  /\ pfDay' = pfDay + 1
  /\ pfCash' = start.cash - t.spent /\ pfBasis' = start.basis + t.spent
  /\ pfOpen' = start.open \cup t.open /\ pfGain' = start.gain
  /\ pfToday' = [limit |-> Limit(start.cash), spent |-> t.spent]
  /\ pfLast' = [c \in PfCode |-> IF \E p \in t.open : p.code = c THEN pfDay + 1 ELSE pfLast[c]]
  /\ UNCHANGED pfStudy

\* what `tenths` of a won buy at a price
Pays(tenths, price) == tenths \div (10 * price)

(***************************************************************************)
(* fire_sizing_backtest.                                                   *)
(***************************************************************************)
\* The number of candidates that can be bought when each gets the same: lowered until it is
\* right, and where it goes in a circle the larger number.
A2Loop(prices, limit) ==
  LET Afford(n) == Lesser(Cardinality({k \in DOMAIN prices : 10 * n * prices[k] <= limit}), PfSlots)
      Round(s, i) ==
        LET n == Afford(s.n) IN
        IF s.done THEN s
        ELSE IF n \in {0, s.n} THEN [s EXCEPT !.done = TRUE]
        ELSE IF n \in s.seen THEN [s EXCEPT !.n = Most(@, n), !.done = TRUE]
        ELSE [s EXCEPT !.n = n, !.seen = @ \cup {s.n}]
  IN FoldLeft(Round, [n |-> Lesser(Len(prices), PfSlots), seen |-> {}, done |-> FALSE],
              [k \in 1..(PfSlots + 1) |-> k])

a2_denominator(prices, limit) ==
  IF prices = <<>> \/ limit = 0 THEN 1 ELSE Most(1, A2Loop(prices, limit).n)

Cooled_DayEarly(r) ==                                           \* mutant
  pfLast[r.code] = 0 \/ pfDay + 1 - pfLast[r.code] >= PfCooldown - 1
Cooled(r) == pfLast[r.code] = 0 \/ pfDay + 1 - pfLast[r.code] >= PfCooldown

Bounded(limit, spent, price, qty) ==
  Lesser(qty, Lesser(Pays(limit - 10 * spent, price),
                   IF pfStudy.cap = 0 THEN qty ELSE Pays(limit, pfStudy.cap * price)))

SizingDay(rows) ==
  LET start == AfterSettling
      live  == SelectSeq(rows, Cooled)
      equal == a2_denominator([k \in DOMAIN live |-> live[k].price], Limit(start.cash))
      Quantity(limit, spent, k, bought) ==
        LET price == live[k].price IN
        Bounded(limit, spent, price,
          CASE pfStudy.rule = "current" -> Pays(limit, PfSlots * price)
            [] pfStudy.rule = "A1"      -> Pays(limit - 10 * spent, (Len(live) - k + 1) * price)
            [] pfStudy.rule = "A2"      -> Pays(limit, equal * price))
  IN /\ pfStudy.rule \in {"current", "A1", "A2"} /\ pfDay < PfDays
     /\ EndOfPfDay(start, Traded(start, live, PfSlots, Quantity))

(***************************************************************************)
(* cash_ratio_test: the rest of the limit over the rest of the candidates  *)
(* ("old"), of which no more than the free slots count ("new").            *)
(***************************************************************************)
RatioDay(rows) ==
  LET start == AfterSettling
      Quantity(limit, spent, k, bought) ==
        LET price == rows[k].price
            left  == Len(rows) - k + 1
            among == IF pfStudy.rule = "old" THEN left ELSE Lesser(left, PfSlots - bought)
        IN Bounded(limit, spent, price, Pays(limit - 10 * spent, Most(1, among) * price))
  IN /\ pfStudy.rule \in {"old", "new"} /\ pfDay < PfDays
     /\ EndOfPfDay(start, Traded(start, rows, PfSlots, Quantity))

(***************************************************************************)
(* slot_sizing_test: equal parts, of a fixed number or of one that grows   *)
(* with the cash.                                                          *)
(***************************************************************************)
SlotDay(rows) ==
  LET start == AfterSettling
      slots == IF PfUnit = 0 THEN PfSlots ELSE Most(1, start.cash \div PfUnit)
      Quantity(limit, spent, k, bought) == Pays(limit, slots * rows[k].price)
  IN /\ pfStudy.rule = "slots" /\ pfDay < PfDays
     /\ EndOfPfDay(start, Traded(start, rows, slots, Quantity))

\* after the last day what is left is settled
Closing ==
  /\ pfDay = PfDays
  /\ LET start == AfterSettling IN
     /\ pfCash' = start.cash + SumOf(start.open, LAMBDA p : p.proceeds)
     /\ pfBasis' = start.basis - SumOf(start.open, LAMBDA p : p.cost)
     /\ pfGain' = start.gain + SumOf(start.open, LAMBDA p : p.proceeds - p.cost)
  /\ pfOpen' = {} /\ pfDay' = PfDays + 1
  /\ UNCHANGED <<pfStudy, pfLast, pfToday>>

PfNext == Closing \/ \E rows \in PfRows : SizingDay(rows) \/ RatioDay(rows) \/ SlotDay(rows)

PfSpec == PfInit /\ [][PfNext]_PfVars

(***************************************************************************)
(* What makes the numbers of the studies comparable.                       *)
(***************************************************************************)
\* No money comes from nowhere and none is lost between the days, whatever is bought and
\* settled in between: cash and cost basis together are the capital and what was earned.
BooksBalance ==
  /\ pfCash + pfBasis = PfCapital + pfGain
  /\ pfBasis = SumOf(pfOpen, LAMBDA p : p.cost)
  /\ pfCash >= 0

\* A day spends no more than its limit, so the part of the cash the ratio keeps back is
\* there in the evening, under every rule that shares the limit out.
BufferKept == 10 * pfToday.spent <= pfToday.limit

\* Nothing is held past the day its exit was computed for.
SettledInTime == \A p \in pfOpen : p.exit > pfDay \/ p.bought = pfDay

\* A code bought again is bought no earlier than the cooldown allows.
CooledDown ==
  pfStudy.rule \in {"current", "A1", "A2"} =>
    \A p, q \in pfOpen : p.code = q.code /\ p # q => p.bought - q.bought \notin 0..(PfCooldown - 1)

\* The search for the number of equal parts ends, however prices and limit lie.
EqualPartsFound ==
  \A rows \in PfRows : \A limit \in {10, 200, 400, pfCash * PfRatio} :
    rows # <<>> => A2Loop([k \in DOMAIN rows |-> rows[k].price], limit).done

AccountsRight == BooksBalance /\ BufferKept /\ SettledInTime /\ CooledDown /\ EqualPartsFound

=============================================================================
