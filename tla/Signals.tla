------------------------------- MODULE Signals -------------------------------
(***************************************************************************)
(* The purchases the studies of auto_trading/backtest simulate: on which   *)
(* recorded days a code would have been bought.  Nearly every study builds *)
(* them itself, and a rule of the live account is chosen by comparing      *)
(* studies, so they must mean the same days by the same words, and none    *)
(* may decide a day with what the market showed only later.                *)
(*                                                                         *)
(* s is the record of one code, a sequence of bars with a volume v, and h  *)
(* the records of all codes.  Averages are compared as sums, returns in    *)
(* thousandths; windows and limits are constants.                          *)
(***************************************************************************)
EXTENDS ExitStudy

CONSTANTS
  Short, Long, Box,    \* days of the averages and of the range before a signal: 5, 20, 10
  MIN_CLOSE, TRADING_VALUE,
  REL_LO, REL_HI,      \* the band of relative strength of the live scanner
  Look, Base,          \* days of the decline and of the base under a breakout
  SgHold,              \* days of a holding
  SgSplit,             \* the first day of the test period
  SgWeek,              \* trading days between two weekends
  SgPeers              \* records another code may have

OVERHEAT_MULT == 5
CLOSE_POS_MIN == 60
LIMIT_CHG == 28

ASSUME SgAssumption ==
  /\ {Short, Long, Box, Look, Base, SgHold, SgSplit, SgWeek} \subseteq Nat \ {0}
  /\ Short < Long /\ SgPeers # {}

(***************************************************************************)
(* One day of a record.                                                    *)
(***************************************************************************)
Window(i, n) == (i - n + 1)..i
TotalOf(f(_), days) == MapThenSumSet(f, days)
SumC(s, i, n) == TotalOf(LAMBDA j : s[j].c, Window(i, n))
Turnover(s, i) == s[i].v * s[i].c

Sub(s, n) == SubSeq(s, 1, n)

Rose(s, i, percent) == i > 1 /\ 100 * s[i].c >= (100 + percent) * s[i - 1].c

\* where the close lies between the low and the high of the day
ClosedAt(s, i, percent) ==
  s[i].h > s[i].l => 100 * (s[i].c - s[i].l) >= percent * (s[i].h - s[i].l)

Falling(s, i) ==
  /\ Long * SumC(s, i, Short) < Short * SumC(s, i, Long)
  /\ 100 * SumC(s, i, Short) < 97 * SumC(s, i - 1, Short)

\* the closes of the days before it lie within 6 percent
Narrow(s, i) ==
  i > Box /\ LET closes == {s[j].c : j \in Window(i - 1, Box)}
             IN 100 * Max(closes) < 106 * Min(closes)

Overheated(s, i, mult) ==
  i > Short /\ LET past == TotalOf(LAMBDA j : Turnover(s, j), Window(i - 1, Short))
               IN past > 0 /\ Short * Turnover(s, i) >= mult * past

\* the column "base" of track_compare.prep
Gates_Narrow(s, i) ==                                            \* mutant
  /\ i >= Long /\ s[i].c >= MIN_CLOSE /\ Turnover(s, i) >= TRADING_VALUE
  /\ ~Falling(s, i)
  /\ Narrow(s, i) /\ ~Overheated(s, i, OVERHEAT_MULT)
Gates(s, i) ==
  /\ i >= Long /\ s[i].c >= MIN_CLOSE /\ Turnover(s, i) >= TRADING_VALUE
  /\ ~Falling(s, i)
  /\ Narrow(s, i) \/ ~Overheated(s, i, OVERHEAT_MULT)

Hit(s, i, percent) == Rose(s, i, percent) /\ Gates(s, i)
Hits(s, percent) == {i \in DOMAIN s : Hit(s, i, percent)}

\* strategy_matrix.prep drops the days without a trade, which other studies keep: their
\* prices are 0
TradedDays(s) == SelectSeq(s, LAMBDA b : b.o > 0 /\ b.l > 0)

(***************************************************************************)
(* The first day of a cluster, bought at its close.                        *)
(***************************************************************************)
FirstHits(s, hits) ==
  {i \in FirstsOfClusters(hits, CLUSTER_GAP) : i < Len(s) /\ ClosedAt(s, i, CLOSE_POS_MIN)}

\* entry_threshold_test.scan_one
ThresholdTrades(s, percent) ==
  [i \in FirstHits(s, Hits(s, percent)) |-> RealRuleExit(s, i, SgHold)]

\* spike_reentry_test.build_signals
SpikeSignals(s) == FirstHits(s, Hits(s, 3))

\* max_hold_sweep.build: the same days for every length of the holding
HoldTrades_AnyPrice(s, holds) ==                                 \* mutant
  LET longest == Max(holds)
      days == {i \in FirstHits(s, Hits(s, 3)) : i + longest <= Len(s)}
  IN [n \in holds |-> [i \in days |-> MorningExit(s, i, n)]]
HoldTrades(s, holds) ==
  LET longest == Max(holds)
      days == {i \in FirstHits(s, Hits(s, 3)) :
                 /\ i + longest <= Len(s)
                 /\ \A k \in 1..longest : s[i + k].o > 0 /\ s[i + k].c > 0}
  IN [n \in holds |-> [i \in days |-> MorningExit(s, i, n)]]

\* strategy_matrix.build: the day a window holds one signal (S) or two or three (F)
MatrixDays(s, hits, least, most, filtered) ==
  {i \in hits : SignalDays(hits, i) \in least..most /\ (filtered => ClosedAt(s, i, CLOSE_POS_MIN))}

\* cagr_estimate.build
CagrTrades_Any(s) ==                                             \* mutant
  [i \in {j \in MatrixDays(s, Hits(s, 3), 1, 2, TRUE) : j + SgHold <= Len(s)} |-> MorningExit(s, i, SgHold)]
CagrTrades(s) ==
  [i \in {j \in MatrixDays(s, Hits(s, 3), 1, 1, TRUE) : j + SgHold <= Len(s)} |-> MorningExit(s, i, SgHold)]

\* limitup_recheck.build
LimitTrades(s) ==
  [i \in {j \in MatrixDays(s, Hits(s, 3), 1, 1, FALSE) : j + SgHold <= Len(s)} |-> MorningExit(s, i, SgHold)]

(***************************************************************************)
(* Relative strength, against the mean of the market.                      *)
(***************************************************************************)
Ret5(s, i) == (1000 * s[i].c) \div s[i - Short].c - 1000

\* the return of a code above the mean, times the number of codes
Rel(h, c, i) == Cardinality(DOMAIN h) * Ret5(h[c], i) - TotalOf(LAMBDA d : Ret5(h[d], i), DOMAIN h)

InBand(h, c, i, band) ==
  i > Short /\ Rel(h, c, i) \in (Cardinality(DOMAIN h) * band.lo)..(Cardinality(DOMAIN h) * band.hi)

LiveBand == [lo |-> REL_LO, hi |-> REL_HI]

\* track_compare.make_track, with a band
V2Hits(h, c, band) == {i \in Hits(h[c], 2) : InBand(h, c, i, band)}

\* track_compare.calibrate_band: what two in five of the signals before `upto` are below, and
\* three in five
CalibrateBand_All(h, upto) ==                                    \* mutant
  LET n == Cardinality(DOMAIN h)
      seen == {<<Rel(h, x[1], x[2]), x>> : x \in
                {x \in (DOMAIN h) \X (1..Len(h.own)) : x[2] > Short /\ x[2] \in Hits(h[x[1]], 2)}}
      At(p) == Min({x[1] : x \in {y \in seen :
                 100 * Cardinality({z \in seen : z[1] <= y[1]}) >= p * Cardinality(seen)}})
  IN IF seen = {} THEN {} ELSE {[lo |-> At(40) \div n, hi |-> At(60) \div n]}
CalibrateBand(h, upto) ==
  LET n == Cardinality(DOMAIN h)
      seen == {<<Rel(h, x[1], x[2]), x>> : x \in
                {x \in (DOMAIN h) \X (1..(upto - 1)) : x[2] > Short /\ x[2] \in Hits(h[x[1]], 2)}}
      At(p) == Min({x[1] : x \in {y \in seen :
                 100 * Cardinality({z \in seen : z[1] <= y[1]}) >= p * Cardinality(seen)}})
  IN IF seen = {} THEN {} ELSE {[lo |-> At(40) \div n, hi |-> At(60) \div n]}

\* the walk-forward of track_compare.main and exit_rule_swap_test.build_entries: the days a
\* band learnt before the test period chooses, in either period
WalkForward(h, c) ==
  LET days == UNION {FirstHits(h[c], V2Hits(h, c, band)) : band \in CalibrateBand(h, SgSplit)}
  IN [train |-> {i \in days : i < SgSplit}, test |-> {i \in days : i >= SgSplit}]

\* advanced_threshold_sweep.build_signals: the rows of the live scanner, of any rate.  The
\* turnover of a suspended code is compared with that of a longer time.
Heated(s, i, mult) ==
  LET Past(n) == TotalOf(LAMBDA j : Turnover(s, j), Window(i - 1, n))
      n == IF Past(Short) > 0 THEN Short ELSE Long
  IN Past(n) > 0 /\ n * Turnover(s, i) >= mult * Past(n)

SweepRows(h, c) ==
  {i \in (Long + 2)..(Len(h[c]) - 1) :
     /\ Turnover(h[c], i) >= TRADING_VALUE /\ h[c][i].c >= MIN_CLOSE
     /\ ~Falling(h[c], i) /\ InBand(h, c, i, LiveBand)
     /\ Narrow(h[c], i) \/ ~Heated(h[c], i, OVERHEAT_MULT)}

\* regime_gate_test.build_regime: how many codes closed above their average, and whether the
\* index of all codes did, both of the day before
Index(h) ==
  LET idx[j \in 1..Len(h.own)] ==
        IF j = 1 THEN 1000
        ELSE (idx[j - 1] * TotalOf(LAMBDA c : (1000 * h[c][j].c) \div h[c][j - 1].c, DOMAIN h))
               \div (1000 * Cardinality(DOMAIN h))
  IN idx

RegimeOf(h, i) ==
  [breadth |-> Cardinality({c \in DOMAIN h : Long * h[c][i].c > SumC(h[c], i, Long)}),
   up      |-> i > Long /\ Long * Index(h)[i] > TotalOf(LAMBDA j : Index(h)[j], Window(i, Long))]
Regime_SameDay(h, i) == RegimeOf(h, i)                           \* mutant
Regime(h, i) == RegimeOf(h, i - 1)

(***************************************************************************)
(* base_breakout_study: a decline, a base, and a day that leaves it.  A    *)
(* combination m has the least decline, the width of the base, how far     *)
(* volatility may have grown and the trigger.                              *)
(***************************************************************************)
Atr(s) ==
  LET TrueRange(j) ==
        IF j = 1 THEN s[j].h - s[j].l
        ELSE Bigger(s[j].h, s[j - 1].c) - Smaller(s[j].l, s[j - 1].c)
      atr[j \in DOMAIN s] ==
        IF j = 1 THEN 14 * TrueRange(j) ELSE (13 * atr[j - 1] + 14 * TrueRange(j)) \div 14
  IN atr

Low(s, days)  == Min({s[j].l : j \in days})
High(s, days) == Max({s[j].h : j \in days})

BaseHigh_Today(s, i) == High(s, Window(i, Base))                 \* mutant
BaseHigh(s, i) == High(s, Window(i - 1, Base))

BaseFormed(s, i, m) ==
  LET low == Low(s, Window(i - 1, Base)) IN
  /\ 100 * s[i - 1].c <= (100 - m.decline) * Max({s[j].c : j \in Window(i - 1, Look)})
  /\ low > Low(s, Window(i - 1 - Base, Base))
  /\ 100 * BaseHigh(s, i) <= (100 + m.width) * low
  /\ LET atr == Atr(Sub(s, i - 1)) IN
     100 * atr[i - 1] * s[i - 1 - Base].c <= m.grown * atr[i - 1 - Base] * s[i - 1].c

Unbuyable(s, i) == Rose(s, i, LIMIT_CHG) \/ (Rose(s, i, 15) /\ ClosedAt(s, i, 99))

Triggered(s, i, m) ==
  IF m.trigger = "breakout" THEN s[i].c > BaseHigh(s, i)
  ELSE Long * s[i].c > SumC(s, i, Long) /\ Long * s[i - 1].c <= SumC(s, i - 1, Long)

Breakouts(s, m) ==
  {i \in (Look + 2 * Base + 3)..(Len(s) - 1) :
     /\ Turnover(s, i) >= TRADING_VALUE /\ s[i].c >= MIN_CLOSE /\ ~Unbuyable(s, i)
     /\ BaseFormed(s, i, m) /\ Triggered(s, i, m)}

\* exits: out at the stop or at the opening of the last day; `collect` over all records
BreakoutReturn(s, i, stop, hold) ==
  IF FirstDay(LAMBDA b : Fell(b, s[i].c, stop), s, i, hold - 1) # 0 THEN stop
  ELSE (200 * s[i + hold].o) \div s[i].c - 200

TradesOf(store, m) ==
  UNION {{s} \X {i \in Breakouts(s, m) : i + SgHold <= Len(s)} : s \in store}

\* base_breakout_verify.main: the combinations with the best mean of the training period
Trained_All(store, combos, split) ==                             \* mutant
  LET In(m) == TradesOf(store, m)
      scores == {<<m, TotalOf(LAMBDA t : BreakoutReturn(t[1], t[2], -16, SgHold), In(m)),
                  Cardinality(In(m))>> : m \in combos}
      traded == {x \in scores : x[3] > 0}
  IN {x[1] : x \in {y \in traded : \A z \in traded : z[2] * y[3] <= y[2] * z[3]}}
Trained(store, combos, split) ==
  LET In(m) == {t \in TradesOf(store, m) : t[2] < split}
      scores == {<<m, TotalOf(LAMBDA t : BreakoutReturn(t[1], t[2], -16, SgHold), In(m)),
                  Cardinality(In(m))>> : m \in combos}
      traded == {x \in scores : x[3] > 0}
  IN {x[1] : x \in {y \in traded : \A z \in traded : z[2] * y[3] <= y[2] * z[3]}}

(***************************************************************************)
(* Purchases after a fall, and the order of the signals of a cluster.      *)
(***************************************************************************)
RunTo(P(_), i) == Max({n \in 0..i : \A j \in Window(i, n) : P(j)})
UpRun(s, i)    == RunTo(LAMBDA j : j > 1 /\ s[j].c > s[j - 1].c, i)

\* rebound_signal.build: days in a row that fell, up to yesterday
DownStreak(s, i) == RunTo(LAMBDA j : j > 1 /\ s[j].c < s[j - 1].c, i - 1)

Prior5(s, i) == (1000 * s[i - 1].c) \div s[i - 1 - Short].c - 1000

\* deadcat_filter.build: the fall before the days that rose, however many confirm it (up to 5)
CrashBefore_Today(s, i) == Prior5(s, i)                          \* mutant
CrashBefore(s, i) ==
  IF UpRun(s, i) \in 1..5 THEN Prior5(s, i - UpRun(s, i) + 1) ELSE Prior5(s, i)

CalendarDay(i) == i + 2 * ((i - 1) \div SgWeek)

\* entry_timing.main and first_signal_filter.build count the gap in days of the calendar
CalendarFirsts(hits) ==
  {i \in hits : \A j \in hits :
     j < i /\ (\A m \in hits : m <= j \/ m >= i) => CalendarDay(i) - CalendarDay(j) > CLUSTER_GAP}

Nth_OfCluster(hits, i) ==                                        \* mutant
  LET firsts == CalendarFirsts(hits)
  IN Cardinality({j \in hits : \A f \in firsts : f <= i <=> f <= j})
Nth(hits, i) ==
  LET firsts == CalendarFirsts(hits)
  IN Cardinality({j \in hits : j <= i /\ \A f \in firsts : f <= i => f <= j})

FilterSample(s, hits) ==
  {i \in CalendarFirsts(hits) : i > Long + 1 /\ s[i].h > s[i].l /\ i + SgHold <= Len(s)}

(***************************************************************************)
(* What the signals may be trusted with.                                   *)
(***************************************************************************)
\* the record at hand after each of the pasts, and beside another code
Store == {p \o esBars : p \in SgPeers}
Market(s, p) == [own |-> s, peer |-> Sub(p \o p, Len(s))]
Markets == {Market(x[1] \o esBars, x[2]) : x \in {y \in SgPeers \X SgPeers : y[1] # y[2]}}
Recent(s) == (Len(s) - Len(esBars) + 1)..Len(s)

\* a day on which the code is suspended
Suspended(s, k) == [s EXCEPT ![k] = [o |-> 0, h |-> 0, l |-> 0, c |-> s[k - 1].c, v |-> 0]]

Combos == {[decline |-> 5, width |-> w, grown |-> 120, trigger |-> t] :
             w \in {15, 40}, t \in {"breakout", "ma20"}}

\* Studies that say "the first day of a signal" mean the same days, each in its own words, and
\* where they end a holding differently the stop is the same.
SameDays ==
  \A s \in Store :
    LET first == SpikeSignals(s)  whole == {i \in first : i + SgHold <= Len(s)}
        cagr == CagrTrades(s)  held == HoldTrades(s, 1..SgHold)[SgHold]  real == ThresholdTrades(s, 3)
    IN
    /\ DOMAIN real = first /\ DOMAIN cagr = whole /\ DOMAIN held = whole
    /\ \A i \in whole : cagr[i] = held[i] /\ (cagr[i].why = "stop" => cagr[i] = real[i])
    /\ LET any == LimitTrades(s) IN
       /\ {i \in DOMAIN any : ClosedAt(s, i, CLOSE_POS_MIN)} = whole
       /\ \A i \in whole : cagr[i] = any[i]
    /\ \A p \in SgPeers :
         LET h == Market(s, p) IN
         {i \in SweepRows(h, "own") : Rose(s, i, 2)}
           = V2Hits(h, "own", LiveBand) \cap ((Long + 2)..(Len(s) - 1))

\* What is bought on a day was decided with what was known then: later bars change neither
\* the days chosen, nor how a finished holding ended, nor the band learnt before the test,
\* and the day itself does not change its regime or the base it breaks out of.
NothingOfTomorrow ==
  esBars # <<>> =>
  /\ \A s \in Store :
       LET n == Len(s)  before == Sub(s, n - 1)
           then == Hits(before, 3)  now == Hits(s, 3)
           bought == CagrTrades(before)  trades == CagrTrades(s)
       IN
       /\ then = now \ {n}
       /\ \A i \in DOMAIN bought : i \in DOMAIN trades /\ trades[i] = bought[i]
       /\ \A i \in then : Nth(then, i) = Nth(now, i)
       /\ FilterSample(before, then) = {i \in FilterSample(s, now) : i + SgHold < n}
       /\ \A b \in EsBar, m \in Combos :
            BaseFormed([s EXCEPT ![n] = b], n, m) = BaseFormed(s, n, m)
  /\ \A h \in Markets :
       LET n == Len(h.own)
           past == [c \in DOMAIN h |-> Sub(h[c], n - 1)]
           then == WalkForward(past, "own")  now == WalkForward(h, "own")
       IN
       /\ n > SgSplit => then.train = now.train /\ then.test \subseteq now.test
       /\ LET was == Regime(h, n) IN \A b \in EsBar : Regime([h EXCEPT !.own[n] = b], n) = was

\* The combinations verified were chosen by the training period and the holdings it began.
ChosenByTraining ==
  LET known == SgSplit - 1 + SgHold IN
  (\A s \in Store : Len(s) > known) =>
    Trained(Store, Combos, SgSplit) = Trained({Sub(s, known) : s \in Store}, Combos, SgSplit)

\* However many days confirm a rise, the fall before it is that of one and the same day, and
\* no day is both in a rise of days and after a fall.
OneEvent ==
  \A s \in Store : \A i \in Recent(s) :
    /\ UpRun(s, i) \in 2..5 => CrashBefore(s, i) = CrashBefore(s, i - 1)
    /\ DownStreak(s, i) > 0 => UpRun(s, i) <= 1

\* A gap in days of the calendar parts what a gap in trading days parts, so the first of a
\* cluster of the live rule is the first of one of the study the rule was taken from.
ClustersCompared ==
  \A hits \in SUBSET DOMAIN esBars :
    /\ FirstsOfClusters(hits, CLUSTER_GAP) \subseteq CalendarFirsts(hits)
    /\ \A i \in hits : Nth(hits, i) = 1 <=> i \in CalendarFirsts(hits)

\* A day of suspension, whose prices are 0, is not taken for a fall to the stop.
SuspensionIsNoFall ==
  \A r \in Store : \A k \in Recent(r) :
    LET s == Suspended(r, k)
        held == HoldTrades(s, {SgHold})[SgHold]
        traded == TradedDays(s)  cagr == CagrTrades(traded)
    IN
    /\ \A i \in DOMAIN held : k \notin (i + 1)..(i + SgHold)
    /\ \A i \in DOMAIN cagr : cagr[i].why = "stop" => traded[i + cagr[i].day].l > 0

\* What the studies of auto_trading/backtest buy.
EntriesRight ==
  /\ SameDays /\ NothingOfTomorrow /\ ChosenByTraining /\ OneEvent
  /\ ClustersCompared /\ SuspensionIsNoFall
=============================================================================
