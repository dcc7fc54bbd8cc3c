------------------------------ MODULE MC_Trading ------------------------------
(***************************************************************************)
(* One run for the parts of the trading system that do not touch each      *)
(* other's state: a behaviour is one of the part that `part` names, with   *)
(* the others at rest.                                                     *)
(***************************************************************************)
EXTENDS PendingStore, TradeHistory, BrokerClient, FireBuy,
  Profits, Screen, Signals, Portfolio, InterestTable, Picks, Quotes, TossToken

VARIABLE part

parts == {"pending", "history", "broker", "fire", "holidays", "baseline", "profits", "screen",
          "exits", "accounts", "interest", "picks", "quotes", "toss"}

Init_Trading ==
  /\ part \in parts
  /\ Init /\ ThInit /\ BcInit /\ FcInit /\ HdInit /\ AbInit /\ RpInit /\ ScInit /\ EsInit
  /\ PfInit /\ ItInit /\ PkInit /\ QtInit /\ TsInit
  /\ part # "pending"  => disk = [k \in Key |-> CHOOSE v \in Value : TRUE]
  /\ part # "history"  => \A c \in ThCode : thHeld[c] = 0
  /\ part # "broker"   => bcLive
  /\ part # "fire"     => fcHeld = {}
  /\ part # "holidays" => hdCache = {HdFirst}
  /\ part # "screen"   => scSignal[1] = [c \in ScCode |-> NoSignal]
  /\ part # "accounts" => pfStudy = [rule |-> "A1", cap |-> 0]
  /\ part # "quotes"   => qtKind = "market"
  /\ part # "toss"     => tsNewest = 1 /\ tsFile = 0

Others(p) ==
  /\ p # "pending"  => UNCHANGED vars
  /\ p # "history"  => UNCHANGED ThVars
  /\ p # "broker"   => UNCHANGED BcVars
  /\ p # "fire"     => UNCHANGED FcVars
  /\ p # "holidays" => UNCHANGED HdVars
  /\ p # "baseline" => UNCHANGED AbVars
  /\ p # "profits"  => UNCHANGED RpVars
  /\ p # "screen"   => UNCHANGED ScVars
  /\ p # "exits"    => UNCHANGED EsVars
  /\ p # "accounts" => UNCHANGED PfVars
  /\ p # "interest" => UNCHANGED ItVars
  /\ p # "picks"    => UNCHANGED PkVars
  /\ p # "quotes"   => UNCHANGED QtVars
  /\ p # "toss"     => UNCHANGED TsVars

Next_Trading ==
  /\ UNCHANGED part /\ Others(part)
  /\ \/ part = "pending"  /\ Next
     \/ part = "history"  /\ ThNext
     \/ part = "broker"   /\ BcNext
     \/ part = "fire"     /\ FcNext
     \/ part = "holidays" /\ HdNext
     \/ part = "baseline" /\ AbNext
     \/ part = "profits"  /\ RpNext
     \/ part = "screen"   /\ ScNext
     \/ part = "exits"    /\ EsNext
     \/ part = "accounts" /\ PfNext
     \/ part = "interest" /\ ItNext
     \/ part = "picks"    /\ PkNext
     \/ part = "quotes"   /\ QtNext
     \/ part = "toss"     /\ TsNext

Spec_Trading ==
  Init_Trading /\ [][Next_Trading]_<<part, vars, ThVars, BcVars, FcVars, HdVars, AbVars, RpVars, ScVars, EsVars,
        PfVars, ItVars, PkVars, QtVars, TsVars>>

\* The type invariants of the parts.
PartsTypeOK ==
  /\ part = "pending" => TypeOK
  /\ part = "history" => ThTypeOK
  /\ part = "broker"  => BcTypeOK
  /\ part = "fire"    => FcTypeOK
  /\ part = "screen"  => ScTypeOK
  /\ part = "quotes"  => QtTypeOK
  /\ part = "toss"    => TsTypeOK

\* What the two brokers' clients promise their callers about requests, quotes, tokens and
\* the calendar (kiwoom_api, toss_openapi).
BrokerRight == CallsSafe /\ QuotesRight /\ TossRight /\ ThisYearKnown

\* What the studies of the signals (auto_trading/backtest), and the table and the file kept of
\* them (interest_stocks, interest_stock_picks.py), promise.
SignalsRight ==
  /\ part = "exits"    => ExitsRight /\ EntriesRight
  /\ part = "accounts" => AccountsRight
  /\ part = "interest" => InterestRight
  /\ part = "picks"    => PicksRight

\* What is reported of trades and profits agrees with the account.
ReportsRight == HistoryAgrees /\ ProfitWithoutTransfers /\ (part = "profits" => HistoryProfits)

\* A Friday that is the last but one of its month, to the Tuesday after.
RpWeekdays  == <<4, 5, 6, 0, 1>>
RpMonthdays == <<30, 31, 1, 2, 3>>

\* A rise that falls back, an opening far below with a fall to the stop, a rise past the
\* target, and a day in between.
EsBars ==
  {[o |-> 200, h |-> 232, l |-> 198, c |-> 226, v |-> 2], [o |-> 186, h |-> 190, l |-> 184, c |-> 188, v |-> 1],
   [o |-> 204, h |-> 246, l |-> 200, c |-> 240, v |-> 9], [o |-> 214, h |-> 216, l |-> 203, c |-> 206, v |-> 1]}

\* A year of one code in ten days: a fall, a base and a rise; and days in a row that fell.
SgRecords ==
  LET Day(o, h, l, c) == [o |-> o, h |-> h, l |-> l, c |-> c, v |-> 1] IN
  {<<Day(230, 236, 228, 234), Day(234, 234, 214, 216), Day(214, 216, 196, 200), Day(200, 206, 194, 204),
     Day(204, 206, 196, 198), Day(198, 204, 197, 203), Day(203, 204, 198, 199), Day(199, 205, 199, 204),
     Day(204, 206, 201, 202), Day(202, 207, 201, 206)>>,
   <<Day(260, 262, 250, 258), Day(256, 258, 240, 246), Day(246, 248, 230, 232), Day(232, 233, 220, 222),
     Day(222, 224, 210, 212), Day(212, 214, 202, 206), Day(206, 210, 203, 208), Day(207, 208, 188, 192),
     Day(192, 196, 191, 194), Day(194, 197, 192, 195)>>}

PfRow(code, price, days, ret) == [code |-> code, price |-> price, days |-> days, ret |-> ret]

PfLists ==
  {<<>>, <<PfRow("c1", 10, 1, -5)>>, <<PfRow("c1", 20, 3, 10), PfRow("c2", 10, 1, 2)>>,
   <<PfRow("c2", 30, 2, 0), PfRow("c1", 10, 2, -1), PfRow("c3", 10, 1, 5)>>}

PkRow(code, pre, base, amount) ==
  [code |-> code, pre |-> pre, base |-> base, amount |-> amount]

PkRowsets ==
  {{PkRow("c1", 90, 55, 100), PkRow("c2", 80, 25, 100), PkRow("c3", 10, 60, 100)},
   {PkRow("c2", 20, 50, 0)}}

\* every thread in a process of its own
Homes == [t \in TsThread |-> t]

PkReplies ==
  {[foreign |-> 4, institution |-> 0], [foreign |-> PkNone, institution |-> 4]}
=============================================================================
