------------------------------ MODULE Profits ------------------------------
(***************************************************************************)
(* The two profits on the dashboard (kiwoom_trailing_stop.py): the one     *)
(* from the total asset and the one from the trade history.                *)
(***************************************************************************)
EXTENDS Integers, Sequences, FiniteSets, SequencesExt

(***************************************************************************)
(* The profit from the total asset (_ensure_baseline, get_asset_based_pnl, *)
(* record_cash_transfer): the total asset now minus a start that is        *)
(* written when the first query of a day arrives and raised when the user  *)
(* reports a transfer.  The file is loaded, changed and saved without a    *)
(* lock by the threads of the dashboard, by the summary job and by the     *)
(* command line.  The start of the day stands for those of the week and    *)
(* the month, which differ in their dates only.                            *)
(***************************************************************************)
CONSTANTS
  AbQuery,       \* the threads that query
  AbAmount,      \* amounts of trades and transfers
  AbTop,         \* bound: the total asset
  AbMoves,       \* bound: transfers
  AbDays         \* bound: days

ASSUME AbAssumption == AbAmount \subseteq Nat \ {0} /\ AbTop \in Nat \ {0} /\ AbDays \in Nat /\ AbMoves \in Nat

VARIABLES
  abAsset,       \* the account's total asset
  abDay,
  abFile,        \* day: of daily_date, start: daily_start, last: last_asset
  abCopy,        \* what a thread has loaded, and the asset it has been told
  abMoved,       \* a transfer the user has not reported yet
  abMoves,       \* how many there have been
  \* what the property remembers; no action reads it
  abTraded,      \* profit since the last query of an earlier day
  abSeen,        \* the part of it that a query has seen
  abClash,       \* a load-and-save overlapped with another one that changed the file
  abSaw,         \* a query has seen the transfer that is not reported yet
  abAhead        \* since the report of a transfer that had been seen, no query has come

AbVars == <<abAsset, abDay, abFile, abCopy, abMoved, abMoves, abTraded, abSeen, abClash, abSaw, abAhead>>
abMemory == <<abTraded, abSeen, abClash, abSaw, abAhead>>

NoCopy == [file |-> [day |-> 0, start |-> 0, last |-> 0], asset |-> 0]
AbInit ==
  /\ abAsset = AbTop \div 2 /\ abDay = 1
  /\ abFile = [day |-> 1, start |-> abAsset, last |-> abAsset]
  /\ abCopy = [q \in AbQuery |-> NoCopy] /\ abMoved = 0 /\ abMoves = 0
  /\ abTraded = 0 /\ abSeen = 0 /\ abClash = FALSE /\ abSaw = FALSE /\ abAhead = FALSE

\* the asset is queried first; a failed query reports zero and changes nothing
LoadBaseline(q) ==
  /\ abCopy[q] = NoCopy
  /\ abCopy' = [abCopy EXCEPT ![q] = [file |-> abFile, asset |-> abAsset]]
  /\ UNCHANGED <<abAsset, abDay, abFile, abMoved, abMoves, abMemory>>

\* _ensure_baseline: a new day starts from the asset last seen on an earlier one
Ensured(f, asset) ==
  [day |-> abDay, last |-> asset, start |-> IF f.day # abDay THEN f.last ELSE f.start]

SaveBaseline(q) ==
  /\ abCopy[q] # NoCopy
  /\ abFile' = Ensured(abCopy[q].file, abCopy[q].asset)
  /\ abCopy' = [abCopy EXCEPT ![q] = NoCopy]
  /\ abClash' = (abClash \/ abCopy[q].file # abFile \/ abCopy[q].asset # abAsset)
  /\ abSeen' = abTraded /\ abAhead' = FALSE /\ abSaw' = (abMoved # 0)
  /\ UNCHANGED <<abAsset, abDay, abMoved, abMoves, abTraded>>

Trade(n) ==
  /\ abAsset + n \in 1..AbTop
  /\ abAsset' = abAsset + n /\ abTraded' = abTraded + n
  /\ UNCHANGED <<abDay, abFile, abCopy, abMoved, abMoves, abSeen, abClash, abSaw, abAhead>>

\* money moves in or out; the user reports it at once or after a query has seen it
Transfer(n) ==
  /\ abMoved = 0 /\ abMoves < AbMoves /\ abAsset + n \in 1..AbTop
  /\ abAsset' = abAsset + n /\ abMoved' = n /\ abMoves' = abMoves + 1
  /\ UNCHANGED <<abDay, abFile, abCopy, abMemory>>

\* record_cash_transfer
Report_StartOnly ==                                              \* mutant
  /\ abMoved # 0
  /\ abFile' = [abFile EXCEPT !.start = @ + abMoved]
  /\ abMoved' = 0
  /\ abAhead' = (abAhead \/ abSaw) /\ abSaw' = FALSE
  /\ UNCHANGED <<abAsset, abDay, abCopy, abMoves, abTraded, abSeen, abClash>>
Report ==
  /\ abMoved # 0
  /\ abFile' = [abFile EXCEPT !.start = @ + abMoved, !.last = @ + abMoved]
  /\ abMoved' = 0
  /\ abAhead' = (abAhead \/ abSaw) /\ abSaw' = FALSE
  /\ UNCHANGED <<abAsset, abDay, abCopy, abMoves, abTraded, abSeen, abClash>>

\* a transfer is reported on its day
NextTradingDay ==
  /\ abDay < AbDays /\ abMoved = 0 /\ \A q \in AbQuery : abCopy[q] = NoCopy
  /\ abDay' = abDay + 1
  /\ abTraded' = IF abFile.day = abDay THEN abTraded - abSeen ELSE abTraded
  /\ abSeen' = 0
  /\ abClash' = (abClash \/ abAhead)
  /\ UNCHANGED <<abAsset, abFile, abCopy, abMoved, abMoves, abSaw, abAhead>>

\* what follows an overlap of two writers is not looked at
AbNext ==
  /\ ~abClash
  /\ \/ \E q \in AbQuery : LoadBaseline(q) \/ SaveBaseline(q)
     \/ \E n \in AbAmount, sign \in {1, -1} : Trade(sign * n) \/ Transfer(sign * n)
     \/ Report \/ NextTradingDay

AbSpec == AbInit /\ [][AbNext]_AbVars

\* get_asset_based_pnl: what is shown, from what was saved
AssetPnl == abFile.last - abFile.start

(***************************************************************************)
(* Properties.                                                             *)
(***************************************************************************)
\* The accident of 2026-08-14: the profit shown is what trading made since the
\* last query of an earlier day, whatever the user moved in and out and on
\* whichever days nobody looked, unless two of the file's writers overlapped or a
\* reported transfer that had been seen before was the last thing of a day.
ProfitWithoutTransfers ==
  (abMoved = 0 /\ ~abClash /\ abFile.day = abDay) => AssetPnl = abSeen \/ abAhead

(***************************************************************************)
(* The profit from the trade history (get_pnl_summary and                  *)
(* get_win_loss_ratio, with the list of get_trade_history): the sales that *)
(* the history holds, each with the profit of its order, added up over the *)
(* day, the week, the month and all of them.  One stock; amounts are in    *)
(* hundredths, so that fees are whole.                                     *)
(***************************************************************************)
CONSTANTS
  RpWeekday, RpMonthday,   \* of each day: weekday() and day
  RpPrices,
  RP_BUY, RP_SELL,         \* FEE_RATES, in percent
  RpLimit,                 \* get_trade_history's limit
  RpNone,                  \* no net_pnl
  RpOrders, RpShares       \* bounds: orders, shares held

ASSUME RpAssumption ==
  /\ DOMAIN RpWeekday = DOMAIN RpMonthday /\ 1 \in DOMAIN RpWeekday
  /\ RpPrices \subseteq Nat \ {0} /\ {RP_BUY, RP_SELL, RpLimit, RpOrders, RpShares} \subseteq Nat

VARIABLES
  rpToday,
  rpCash,      \* the account
  rpQty, rpCost,
  rpFile,      \* the events of trades.jsonl; a line that cannot be read is a torn one
  \* what the properties remember
  rpBook,      \* of each day: the account with its shares at cost when the day began
  rpSlips      \* days with a sale that was not recorded as it was filled

RpVars == <<rpToday, rpCash, rpQty, rpCost, rpFile, rpBook, rpSlips>>

RpBook == rpCash + rpCost * (100 + RP_BUY)

RpInit ==
  /\ rpToday = 1 /\ rpCash = 0 /\ rpQty = 0 /\ rpCost = 0 /\ rpFile = <<>>
  /\ rpBook = [d \in DOMAIN RpWeekday |-> 0] /\ rpSlips = {}

MarketDay == RpWeekday[rpToday] < 5 /\ Len(rpFile) < RpOrders
Average   == rpCost \div rpQty

\* _record_trade: a purchase has no profit
BuyShare(px) ==
  /\ MarketDay /\ rpQty < RpShares
  /\ rpQty' = rpQty + 1 /\ rpCost' = rpCost + px /\ rpCash' = rpCash - px * (100 + RP_BUY)
  /\ rpFile' = Append(rpFile, [side |-> "buy", on |-> rpToday, pnl |-> 0, net |-> RpNone, cost |-> 0])
  /\ UNCHANGED <<rpToday, rpBook, rpSlips>>

\* the fees of both sides are taken from the difference in price
NetPnl(px, avg, qty) == (px - avg) * qty * 100 - px * qty * RP_SELL - avg * qty * RP_BUY

SaleEvent(px, qty) ==
  [side |-> "sell", on |-> rpToday, pnl |-> (px - Average) * qty * 100, net |-> NetPnl(px, Average, qty),
   cost |-> Average * qty]

\* An order at px is filled at another price, its record is torn by a crash, or it is one of
\* those from before there was a net profit.
SellShares(qty, px, fill, record) ==
  /\ MarketDay /\ qty \in 1..rpQty
  /\ rpCash' = rpCash + fill * qty * (100 - RP_SELL)
  /\ rpQty' = rpQty - qty /\ rpCost' = rpCost - Average * qty
  /\ LET ev == SaleEvent(px, qty) IN
     rpFile' = Append(rpFile, CASE record = "whole" -> ev
                                [] record = "old" -> [ev EXCEPT !.net = RpNone]
                                [] record = "torn" -> [ev EXCEPT !.side = "torn"])
  /\ rpSlips' = IF fill = px /\ record = "whole" THEN rpSlips ELSE rpSlips \cup {rpToday}
  /\ UNCHANGED <<rpToday, rpBook>>

NextDate ==
  /\ rpToday + 1 \in DOMAIN RpWeekday /\ rpToday' = rpToday + 1
  /\ rpBook' = [rpBook EXCEPT ![rpToday + 1] = RpBook]
  /\ UNCHANGED <<rpCash, rpQty, rpCost, rpFile, rpSlips>>

RpNext ==
  \/ NextDate
  \/ \E px \in RpPrices : BuyShare(px)
  \/ \E px, fill \in RpPrices, qty \in 1..RpShares, record \in {"whole", "old", "torn"} :
       SellShares(qty, px, fill, record)

RpSpec == RpInit /\ [][RpNext]_RpVars

\* _iter_sell_events, _net_pnl
SellEvents == SelectSeq(rpFile, LAMBDA ev : ev.side = "sell")
NetOf_Gross(ev) == ev.pnl                                          \* mutant
NetOf(ev) == IF ev.net # RpNone THEN ev.net ELSE ev.pnl
Total(events) == FoldLeft(LAMBDA sum, ev : sum + NetOf(ev), 0, events)

\* get_pnl_summary
WeekStart_LastSeven == rpToday - 6                               \* mutant
WeekStart == rpToday - RpWeekday[rpToday]
MonthStart == rpToday - (RpMonthday[rpToday] - 1)
Since(period) ==
  CASE period = "daily"   -> rpToday
    [] period = "weekly"  -> WeekStart
    [] period = "monthly" -> MonthStart
    [] period = "all"     -> 1
PnlSummary(period) ==
  LET events == SelectSeq(SellEvents, LAMBDA ev : ev.on >= Since(period))
      cost   == FoldLeft(LAMBDA sum, ev : sum + ev.cost, 0, events)
  IN [pnl |-> Total(events), cost |-> cost]

\* get_win_loss_ratio: the mean gain and the mean loss, as sums and counts
Ratio ==
  LET wins == SelectSeq(SellEvents, LAMBDA ev : NetOf(ev) > 0)
      losses == SelectSeq(SellEvents, LAMBDA ev : NetOf(ev) < 0)
  IN [won |-> Total(wins), wins |-> Len(wins), lost |-> -Total(losses), losses |-> Len(losses)]

\* get_trade_history: the latest first
TradeList ==
  LET read == SelectSeq(rpFile, LAMBDA ev : ev.side # "torn")
  IN SubSeq(Reverse(read), 1, IF Len(read) < RpLimit THEN Len(read) ELSE RpLimit)

\* get_kiwoom_history and log_account_summary, as far as they report sales
HistoryPage ==
  [history |-> TradeList, pnl |-> [p \in {"daily", "weekly", "monthly", "all"} |-> PnlSummary(p)]]
AccountSummary == [pnl |-> [p \in {"daily", "weekly", "monthly"} |-> PnlSummary(p)], ratio |-> Ratio]

(***************************************************************************)
(* Properties.                                                             *)
(***************************************************************************)
\* The first day of the period that holds today, by the calendar.
FirstDate(period) ==
  LET starts == {d \in 1..rpToday : \/ d = 1
                                    \/ period = "daily"   /\ d = rpToday
                                    \/ period = "weekly"  /\ RpWeekday[d] = 0
                                    \/ period = "monthly" /\ RpMonthday[d] = 1}
  IN CHOOSE d \in starts : \A e \in starts : e <= d

\* The profit of a period is what the account gained in it, shares still held counted at what
\* they cost with the fee, over whichever ends of weeks and months it was made, unless a sale
\* in it was filled at a price that is not its order's, or its record was lost or is an old one.
PeriodsAgree ==
  \A period \in {"daily", "weekly", "monthly", "all"} :
    LET first == FirstDate(period) IN
    first..rpToday \cap rpSlips = {} =>
      PnlSummary(period).pnl = RpBook - (IF first = 1 THEN 0 ELSE rpBook[first])

\* The page of the history and the summary in the log tell the same: gains less losses are
\* the whole profit, and the sales of today in the list add up to the profit of the day when
\* the list reaches back to another day.
ReportsAgree ==
  LET listed == HistoryPage.history
      today  == SelectSeq(listed, LAMBDA ev : ev.on = rpToday /\ ev.side = "sell") IN
  /\ AccountSummary.ratio.won - AccountSummary.ratio.lost = HistoryPage.pnl["all"].pnl
  /\ Len(listed) < RpLimit \/ (\E ev \in ToSet(listed) : ev.on < rpToday) =>
       Total(today) = AccountSummary.pnl["daily"].pnl

HistoryProfits == PeriodsAgree /\ ReportsAgree
=============================================================================
