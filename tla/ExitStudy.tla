------------------------------ MODULE ExitStudy ------------------------------
(***************************************************************************)
(* The simulated exits of auto_trading/backtest: what a purchase at the    *)
(* close of one day would have brought under a rule, from the daily bars   *)
(* that follow.  The rules of the live account were chosen by comparing    *)
(* these.                                                                  *)
(*                                                                         *)
(* A bar has the opening, highest, lowest and closing price, and a volume. *)
(* The first closes at Entry, which makes a half percent of it the unit of *)
(* price.                                                                  *)
(* A position is Whole parts: a simulation keeps what is left of it, what  *)
(* was sold and when.  TARGET_RATES is empty, so MockDay has no targets.   *)
(***************************************************************************)
EXTENDS Integers, Sequences, FiniteSets, SequencesExt

CONSTANTS
  EsBar,       \* bars a day may have
  EsDays,      \* bound: days of the record
  EsHold,      \* longest holding
  EsAtr,       \* average true range at the purchase
  CLUSTER_GAP  \* days without a signal between two clusters

Entry == 200
Whole == 384

ASSUME EsAssumption ==
  /\ \A b \in EsBar : b.l > 0 /\ {b.o, b.c} \subseteq b.l..b.h
  /\ {EsDays, EsHold, EsAtr, CLUSTER_GAP} \subseteq Nat \ {0}

STOP           == -12     \* STOP_LOSS_RATE and ARMED_GIVEBACK_STOP
TRAIL_ACTIVATE == 14
TRAIL_GAP      == 10
PROFIT_FLOOR   == 6
STALL_GAP      == 12
TAKE_PROFIT    == 240
ATR_MULT       == 3

VARIABLE esBars

EsVars == esBars

EsInit == esBars = <<[o |-> Entry, h |-> Entry, l |-> Entry, c |-> Entry, v |-> 1]>>

\* another day of the recorded past
EsNext == \E b \in EsBar : Len(esBars) < EsDays /\ esBars' = Append(esBars, b)

EsSpec == EsInit /\ [][EsNext]_EsVars

Bigger(x, y)  == IF x > y THEN x ELSE y
Smaller(x, y) == IF x < y THEN x ELSE y

(***************************************************************************)
(* Sales in parts.                                                         *)
(***************************************************************************)
EsBought == [left |-> Whole, sold |-> <<>>, day |-> 0, peak |-> Entry, fired |-> 0,
             armed |-> TRUE, took |-> FALSE, sales |-> 0]

SellPart(s, part, at) ==
  [s EXCEPT !.left = @ - part, !.sold = Append(@, [part |-> part, at |-> at, day |-> s.day])]

\* a level is sold at when the price falls to it; after an opening below it, at the opening
Touched_AtLevel(level, b) == level                               \* mutant
Touched(level, b) == Smaller(level, b.o)

\* Day follows day until all is sold; what is left at the end goes at the last close, which
\* is not a decision of the rule.
Simulated(Day(_, _), bars, hold) ==
  LET days == Smaller(hold, Len(bars))
      end  == FoldLeft(LAMBDA s, b : IF s.left = 0 THEN s ELSE Day([s EXCEPT !.day = @ + 1], b),
                       EsBought, SubSeq(bars, 1, days))
  IN [sold    |-> IF end.left = 0 THEN end.sold
                  ELSE Append(end.sold, [part |-> end.left, at |-> bars[days].c, day |-> days]),
      decided |-> end.left = 0]

\* fire_backtest_regen: a third at each trailing line, the rest at the floor, the stop or the
\* stall.  With sameDay the high of a day counts before its low, else from the next day on.
MockDay(s, b, sameDay) ==
  LET reached == b.h - Entry
      peak  == IF reached >= TRAIL_ACTIVATE THEN Bigger(s.peak, b.h) ELSE s.peak
      seen  == (IF sameDay THEN peak ELSE s.peak) - Entry
      line  == Entry + Bigger(seen - TRAIL_GAP, PROFIT_FLOOR)
      stop  == Entry + STOP
      stall == Entry + Bigger(s.fired - TRAIL_GAP, PROFIT_FLOOR) - STALL_GAP
      t     == [s EXCEPT !.peak = peak]
      part  == IF line = Entry + PROFIT_FLOOR \/ s.sales = 2 THEN s.left ELSE Whole \div 3
      trail == [SellPart(t, part, Touched(line, b)) EXCEPT !.sales = @ + 1, !.fired = seen]
      all(x, level) == SellPart(x, x.left, Touched(level, b))
  IN IF seen > s.fired /\ b.l <= line
     THEN IF trail.left > 0 /\ b.l <= stop THEN all(trail, stop) ELSE trail
     ELSE IF b.l <= stop THEN all(t, stop)
     ELSE IF s.fired # 0 /\ b.l <= stall THEN all(t, stall)
     ELSE t

MockExit(bars, hold, sameDay) ==
  Simulated(LAMBDA s, b : MockDay(s, b, sameDay), bars, hold)

\* exit_rule_swap_test: the rules of kiwoom_v8_exit, day by day
V8Day(s, b) ==
  LET peak == Bigger(s.peak, b.h)
      stop == peak - ATR_MULT * EsAtr
      line == (peak * 19) \div 20
      half(x) == Smaller(Whole \div 2, x.left)
      t == [s EXCEPT !.peak = peak]
      u == IF t.armed /\ b.l <= line
           THEN [SellPart(t, half(t), Touched(line, b)) EXCEPT !.armed = FALSE, !.fired = peak]
           ELSE t
      v == IF u.left > 0 /\ ~u.took /\ b.h >= TAKE_PROFIT
           THEN [SellPart(u, half(u), Bigger(TAKE_PROFIT, b.o)) EXCEPT !.took = TRUE]
           ELSE u
  IN IF b.l <= stop THEN SellPart(t, t.left, Touched(stop, b))
     ELSE [v EXCEPT !.armed = @ \/ peak > v.fired]

V8RuleExit(bars, hold) == Simulated(V8Day, bars, hold)

\* exit_chandelier_test: halves of what is left at the target and at the trailing line, all of
\* it at a floor and, with `stopped`, at a distance below the peak
ChandelierDay(s, b, arm, floor, stopped) ==
  LET half(x) == x.left \div 2
      peak == Bigger(s.peak, b.h)
      line == (peak * 19) \div 20
      stop == peak - ATR_MULT * EsAtr
      t == IF ~s.took /\ b.h >= TAKE_PROFIT
           THEN [SellPart(s, half(s), TAKE_PROFIT) EXCEPT !.took = TRUE, !.peak = peak]
           ELSE [s EXCEPT !.peak = peak]
      u == IF peak >= arm /\ peak > t.fired /\ b.l <= line
           THEN [SellPart(t, half(t), Touched(line, b)) EXCEPT !.fired = peak] ELSE t
  IN IF b.l <= floor THEN SellPart(u, u.left, Touched(floor, b))
     ELSE IF stopped /\ b.l <= stop THEN SellPart(u, u.left, Touched(stop, b))
     ELSE u

NoFloor == 0

ChandelierExit(bars, hold, arm, stopped) ==
  Simulated(LAMBDA s, b : ChandelierDay(s, b, arm, NoFloor, stopped), bars, hold)

\* exit_hardfloor_armthreshold_test: a floor for codes whose stop would be wider than it
HardFloorExit(bars, hold, limit) ==
  LET floor == IF ATR_MULT * EsAtr > Entry - limit THEN limit ELSE NoFloor
  IN Simulated(LAMBDA s, b : ChandelierDay(s, b, Entry, floor, TRUE), bars, hold)

(***************************************************************************)
(* One sale: at the stop, whose price is taken for certain, or at the end. *)
(***************************************************************************)
Fell(b, entry, stop) == 200 * (b.l - entry) <= stop * entry

\* the first of the `days` days after day i whose bar satisfies Hit, or 0
FirstDay(Hit(_), bars, i, days) ==
  LET hits == {k \in 1..days : i + k <= Len(bars) /\ Hit(bars[i + k])}
  IN IF hits = {} THEN 0 ELSE CHOOSE k \in hits : \A j \in hits : k <= j

Sale(why, at, day) == [why |-> why, at |-> at, day |-> day]

\* exit_rule_swap_test.real_rule_exit: the stop on any day, else the last close
RealRuleExit(bars, i, hold) ==
  LET stop == FirstDay(LAMBDA b : Fell(b, bars[i].c, STOP), bars, i, hold)
      last == Smaller(hold, Len(bars) - i)
  IN IF stop # 0 THEN Sale("stop", STOP, stop) ELSE Sale("end", bars[i + last].c, last)

\* exit_scalp_creative_search.sim_slip: any stop, and the price slips below it
SlipExit(bars, i, hold, stop, slip) ==
  LET k    == FirstDay(LAMBDA b : Fell(b, bars[i].c, stop), bars, i, hold)
      last == Smaller(hold, Len(bars) - i)
  IN IF k # 0 THEN Sale("stop", stop - slip, k) ELSE Sale("end", bars[i + last].c, last)

\* strategy_matrix.exit_b: out at the opening of the last day, whose low does not count then
MorningExit_WholeDay(bars, i, hold) ==                           \* mutant
  LET stop == FirstDay(LAMBDA b : Fell(b, bars[i].c, STOP), bars, i, hold)
  IN IF stop # 0 THEN Sale("stop", STOP, stop) ELSE Sale("end", bars[i + hold].o, hold)
MorningExit(bars, i, hold) ==
  LET stop == FirstDay(LAMBDA b : Fell(b, bars[i].c, STOP), bars, i, hold - 1)
  IN IF stop # 0 THEN Sale("stop", STOP, stop) ELSE Sale("end", bars[i + hold].o, hold)

\* exit_open_vs_close.run: one search for the stop serves four ends, `close` and `morning` of
\* the last day and of the day before
FourWays(bars, i, hold) ==
  LET stop == FirstDay(LAMBDA b : Fell(b, bars[i].c, STOP), bars, i, hold)
      End(before, at, day) ==
        IF stop # 0 /\ stop <= before THEN Sale("stop", STOP, stop) ELSE Sale("end", at, day)
  IN [close        |-> End(hold, bars[i + hold].c, hold),
      morning      |-> End(hold - 1, bars[i + hold].o, hold),
      closeBefore  |-> End(hold - 1, bars[i + hold - 1].c, hold - 1),
      morningBefore |-> End(hold - 2, bars[i + hold - 1].o, hold - 1)]

\* exit_validation_3y.run_plain: a stop and a target, touched in the day, where the stop is
\* looked at first, or judged by the close
PlainExit(bars, i, hold, inDay) ==
  LET entry == bars[i].c
      Low(b)  == IF inDay THEN Fell(b, entry, STOP) ELSE 200 * (b.c - entry) <= STOP * entry
      High(b) == 10 * (IF inDay THEN b.h ELSE b.c) >= 12 * entry
      k    == FirstDay(LAMBDA b : Low(b) \/ High(b), bars, i, hold)
      last == Smaller(hold, Len(bars) - i)
  IN IF k = 0 THEN Sale("end", bars[i + last].c, last)
     ELSE Sale(IF Low(bars[i + k]) THEN "stop" ELSE "take",
               IF ~inDay THEN bars[i + k].c ELSE IF Low(bars[i + k]) THEN STOP ELSE 40, k)

\* spike_reentry_test.sim_spike: out at a rise of `spike` percent, in again at the close when
\* that is `rebuy` percent below the sale.  `legs` are what each stay in the market brings.
SpikeExit(bars, i, hold, spike, rebuy) ==
  LET Day(s, b) ==
        IF s.out THEN s
        ELSE IF Fell(b, s.basis, STOP)
        THEN [s EXCEPT !.out = TRUE, !.legs = Append(@, [from |-> s.basis, why |-> "stop"])]
        ELSE IF 100 * b.h >= s.basis * (100 + spike)
        THEN LET back == 10000 * b.c <= s.basis * (100 + spike) * (100 - rebuy)
             IN [s EXCEPT !.out = ~back, !.basis = IF back THEN b.c ELSE @,
                          !.legs = Append(@, [from |-> s.basis, why |-> "spike"])]
        ELSE s
      end == FoldLeft(Day, [basis |-> bars[i].c, out |-> FALSE, legs |-> <<>>],
                      SubSeq(bars, i + 1, Smaller(i + hold, Len(bars))))
  IN IF end.out THEN end.legs ELSE Append(end.legs, [from |-> end.basis, why |-> "end"])

(***************************************************************************)
(* Which days are bought at.                                               *)
(***************************************************************************)
\* fire_window_sweep: signals in the order of their days start a cluster when the signal
\* before them is more than `gap` days back
FirstsOfClusters_Or(hits, gap) ==                                \* mutant
  {i \in hits : \A j \in hits : j < i => i - j >= gap}
FirstsOfClusters(hits, gap) ==
  {i \in hits : \A j \in hits : j < i /\ (\A m \in hits : m <= j \/ m >= i) => i - j > gap}

ClusterExits(bars, hits, gap, hold) ==
  [i \in {j \in FirstsOfClusters(hits, gap) : j < Len(bars)} |-> RealRuleExit(bars, i, hold)]

\* track_compare.exits
TrackExits(bars, hits, hold) == ClusterExits(bars, hits, CLUSTER_GAP, hold)

\* strategy_matrix.signal_days: the signals of the last CLUSTER_GAP + 1 days
SignalDays(hits, i) == Cardinality(hits \cap (i - CLUSTER_GAP)..i)

(***************************************************************************)
(* What the studies may be trusted with.                                   *)
(***************************************************************************)
After == Tail(esBars)

\* every result the runs of the studies ask for
InParts ==
  {MockExit(After, EsHold, d) : d \in BOOLEAN} \cup
  {V8RuleExit(After, EsHold), HardFloorExit(After, EsHold, Entry + STOP)} \cup
  {ChandelierExit(After, EsHold, arm, s) : arm \in {Entry, Entry + TRAIL_ACTIVATE}, s \in BOOLEAN}

\* The rules that sell in parts sell every part once, and at no price above what the day of
\* the sale reached; those of kiwoom_v8_exit and of the mock account not below its low
\* either, whatever gaps there are between the days.
SoldAsTheMarketWas ==
  Len(esBars) > 1 =>
    \A r \in InParts :
      /\ FoldLeft(LAMBDA sum, t : sum + t.part, 0, r.sold) = Whole
      /\ \A t \in ToSet(r.sold) :
           /\ t.part > 0 /\ t.at <= After[t.day].h
           /\ t.at >= After[t.day].l \/ t.at = TAKE_PROFIT

\* Without the chandelier no rule of the proposal ever sells the last of a position (the
\* third result in the header of exit_chandelier_test).
NoWayOut ==
  Len(esBars) > 1 => ~ChandelierExit(After, EsHold, Entry, FALSE).decided

\* The studies that end a stay in the market agree where they overlap: a stop is one in all
\* of them unless it comes on a day that only the later ends see.
EndsAgree ==
  Len(esBars) > EsHold =>
    LET four == FourWays(esBars, 1, EsHold) IN
    /\ four.close = RealRuleExit(esBars, 1, EsHold)
    /\ four.morning = MorningExit(esBars, 1, EsHold)
    /\ four.closeBefore = RealRuleExit(esBars, 1, EsHold - 1)
    /\ EsHold > 2 => four.morningBefore = MorningExit(esBars, 1, EsHold - 1)
    /\ SlipExit(esBars, 1, EsHold, STOP, 0) = four.close
    /\ LET plain == PlainExit(esBars, 1, EsHold, TRUE) IN
       plain.why # "take" => plain = four.close

\* Each stay after the first is entered below the price the one before it was left at.
BoughtBackLower ==
  Len(esBars) > 1 =>
    LET legs == SpikeExit(esBars, 1, EsHold, 5, 2) IN
    \A k \in 1..(Len(legs) - 1) :
      legs[k].why = "spike" /\ 100 * legs[k + 1].from < 105 * legs[k].from

\* Two ways to say "the first day of a cluster", the walk over the signals and the rolling
\* count, choose the same purchases.
SamePurchases ==
  \A hits \in SUBSET DOMAIN esBars :
    /\ FirstsOfClusters(hits, CLUSTER_GAP) = {i \in hits : SignalDays(hits, i) = 1}
    /\ DOMAIN TrackExits(esBars, hits, EsHold) = {i \in hits : SignalDays(hits, i) = 1} \ {Len(esBars)}

\* What the simulated exits of auto_trading/backtest have in common.
ExitsRight ==
  SoldAsTheMarketWas /\ NoWayOut /\ EndsAgree /\ BoughtBackLower /\ SamePurchases

=============================================================================
