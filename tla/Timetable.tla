------------------------------ MODULE Timetable ------------------------------
(***************************************************************************)
(* The timetable of job/batch_runner.py: the jobs the server's scheduler   *)
(* and that of the mock process register, with the minutes of a day and    *)
(* the days on which each fires, the hours in which a job that trades      *)
(* works at all (they ask the clock when they are called), and what its    *)
(* orders are then.  A job of the trading pool that repeats every 30 or 60 *)
(* seconds is called in every minute.  Other jobs that repeat from the     *)
(* start of the server write nothing another reads and are left out, as    *)
(* are those commented out in the source.                                  *)
(***************************************************************************)
EXTENDS Integers, FiniteSets

VARIABLES
  ttDay, ttMinute,  \* now
  ttDate,           \* an ordinary date, a holiday of the exchange, the first of a quarter
  ttFired,          \* jobs that ran since the close of the regular session today
  ttFires,          \* in how many minutes of today the fire purchases ran (at most 2 are counted)
  ttUnsettled       \* accounts with orders since their last final reconciliation

TtVars == <<ttDay, ttMinute, ttDate, ttFired, ttFires, ttUnsettled>>

TtDays   == {"mon", "tue", "wed", "thu", "fri", "sat", "sun"}
Weekdays == TtDays \ {"sat", "sun"}
NightBefore == [mon |-> "sun", tue |-> "mon", wed |-> "tue", thu |-> "wed",
                fri |-> "thu", sat |-> "fri", sun |-> "sat"]
Accounts == {"real", "mock"}  \* KIWOOM_ENV of the server's and of the other process

\* CronTrigger(day_of_week, hour, minute)
Cron(days, hours, minutes) == [days |-> days, at |-> {60 * h + m : h \in hours, m \in minutes}]
Step(first, last, by) == {m \in first..last : (m - first) % by = 0}
Daily(h, m)   == Cron(TtDays, {h}, {m})
Weekday(h, m) == Cron(Weekdays, {h}, {m})

(***************************************************************************)
(* What the scripts of job/batch_process.py do that another job may        *)
(* collide with: they write the daily bars of the Korean codes, they issue *)
(* a token, they work through all bars; the others write what is their own.*)
(***************************************************************************)
BarScripts == {
  "update_interest_stocks", "find_stocks", "find_stocks_advanced", "find_low_stocks_v2",
  "update_stock_data_daily", "update_summary_stock_graph_daily", "fetch_stock_data",
  "fetch_held_stock_data_priority" }
TokenScripts == {"renew_kiwoom_token_job", "renew_kiwoom_mock_token_job"}
ScanScripts  == {"recalibrate_v2_filters", "recalibrate_v1_filters"}
KindOf(job) ==
  CASE job \in BarScripts   -> "bars"
    [] job \in TokenScripts -> "token"
    [] job \in ScanScripts  -> "scan"
    [] OTHER                -> "own"

Entry(what, job, when) == [what |-> what, kind |-> KindOf(job), when |-> when]

MockJobs == {
  Entry("mock_token_of_mock", "renew_kiwoom_mock_token_job", Daily(6, 57)),
  Entry("fire_buy", "run_kiwoom_fire_buy", Weekday(15, 21)),
  Entry("fire_buy_after", "run_kiwoom_fire_buy", Cron(Weekdays, 16..19, 0..59)),
  Entry("mock_fills_final", "reconcile_kiwoom_fills_final", Weekday(20, 10)),
  Entry("mock_fills", "reconcile_kiwoom_fills", Cron(Weekdays, 9..19, Step(0, 59, 15))) }

NightJobs == {
  Entry("scrap_ig", "run_crawl_ig_image", Daily(2, 0)),
  Entry("scrap_ai", "run_crawl_ai_image", Daily(4, 0)),
  Entry("image_thumbs", "run_image_thumbs_job", Daily(5, 0)),
  Entry("cleanup_screens", "cleanup_invalid_screens", Daily(5, 30)),
  Entry("certificate", "generate_fullchain_pem_daily", Daily(10, 0)) }

TokenJobs == {
  Entry("real_token", "renew_kiwoom_token_job", Daily(7, 0)),
  Entry("mock_token", "renew_kiwoom_mock_token_job", Daily(6, 55)) }

TradingJobs_At1545 == {                                          \* mutant
  Entry("fills_final", "reconcile_kiwoom_fills_final", Weekday(20, 10)),
  Entry("v8_screen", "run_v8_screen", Weekday(15, 45)),
  Entry("v8_eod", "run_v8_eod", Weekday(15, 44)) }
TradingJobs == {
  Entry("fills_final", "reconcile_kiwoom_fills_final", Weekday(20, 10)),
  Entry("fills", "reconcile_kiwoom_fills", Cron(Weekdays, 9..19, Step(0, 59, 15))),
  Entry("v8_screen", "run_v8_screen", Weekday(15, 55)),
  Entry("v8_eod", "run_v8_eod", Weekday(15, 52)) }

BarJobs == {
  Entry("all_bars", "update_stock_data_daily", Cron({"sat"}, {2}, {0})),
  Entry("holidays", "refresh_krx_holidays_job", Cron({"sun"}, {1}, {0})),
  Entry("all_bars_us", "update_stock_data_us_weekly", Cron({"sun"}, {2}, {0})),
  Entry("new_listings", "update_stocks_daily", Cron({"mon"}, {9}, {1})),
  Entry("fetch_bars", "fetch_stock_data", Cron(Weekdays, 9..15, {10, 30, 50})),
  Entry("fetch_held", "fetch_held_stock_data_priority", Weekday(9, 1)),
  Entry("fetch_bars_us", "fetch_us_stock_data", Weekday(13, 0)),
  Entry("product_codes", "update_product_code", Weekday(6, 0)) }

PredictionJobs == {
  Entry("predict_kr", "predict_kr_stocks_lgbm", Weekday(17, 30)),
  Entry("predict_us", "predict_us_stocks_lgbm", Weekday(14, 30)),
  Entry("gallery_us", "refresh_us_lgbm_gallery", Weekday(15, 30)),
  Entry("gallery_kr", "refresh_kr_lgbm_gallery", Weekday(18, 30)),
  Entry("investor_flow", "collect_investor_flow", Weekday(18, 40)) }

SignalJobs == {
  Entry("find_stocks_open", "find_stocks", Weekday(9, 3)),
  Entry("find_stocks_9", "find_stocks", Cron(Weekdays, {9}, {20, 40})),
  Entry("find_stocks", "find_stocks", Cron(Weekdays, 10..19, {0, 20, 40})),
  Entry("find_stocks_close", "find_stocks", Weekday(20, 15)),
  Entry("advanced_open", "find_stocks_advanced", Weekday(9, 4)),
  Entry("advanced_9", "find_stocks_advanced", Cron(Weekdays, {9}, {24, 44})),
  Entry("advanced", "find_stocks_advanced", Cron(Weekdays, 10..19, {4, 24, 44})),
  Entry("advanced_close", "find_stocks_advanced", Weekday(20, 19)) }

\* run_cumtom_time_only runs its task on weekdays from 09:20 to 20:00 only
CustomTime(when) == [days |-> when.days \cap Weekdays, at |-> when.at \cap (60 * 9 + 20)..(60 * 20)]
InterestGrid_Every5 == CustomTime(Cron(Weekdays, 9..20, Step(0, 59, 5)))    \* mutant
InterestGrid == CustomTime(Cron(Weekdays, 9..20, Step(2, 59, 5)))

ScreenJobs == {
  Entry("update_interest", "update_interest_stocks", InterestGrid),
  Entry("renew_close", "renew_interest_stocks_close", Cron(Weekdays, 9..20, {0, 30})),
  Entry("find_low_v2", "find_low_stocks_v2", Cron(Weekdays, 10..19, Step(6, 59, 10))),
  Entry("summary_graph", "update_summary_stock_graph_daily", Cron(Weekdays, 9..19, Step(5, 59, 10))),
  Entry("summary_graph_end", "update_summary_stock_graph_daily", Weekday(20, 5)),
  Entry("verify_low", "verify_low_stock_data", Cron(Weekdays, 9..19, 0..59)),
  Entry("picks_early", "run_interest_stock_picks", Cron(Weekdays, {9}, Step(30, 55, 5))),
  Entry("picks", "run_interest_stock_picks", Cron(Weekdays, 10..20, Step(0, 59, 5))) }

\* the first of January, April, July and October
QuarterJobs == {
  Entry("recalibrate_v2", "recalibrate_v2_filters", Daily(3, 0)),
  Entry("recalibrate_v1", "recalibrate_v1_filters", Daily(3, 15)) }

Table == MockJobs \cup NightJobs \cup TokenJobs \cup TradingJobs \cup BarJobs
           \cup PredictionJobs \cup SignalJobs \cup ScreenJobs

DueNow == {e \in Table \cup (IF ttDate = "quarter" THEN QuarterJobs ELSE {}) :
             ttDay \in e.when.days /\ ttMinute \in e.when.at}

(***************************************************************************)
(* The hours of trading, and the orders of the jobs that are called now.   *)
(***************************************************************************)
Between(h1, m1, h2, m2) == ttMinute \in (60 * h1 + m1)..(60 * h2 + m2 - 1)

BusinessDay_Weekday == ttDay \in Weekdays                        \* mutant
BusinessDay == ttDay \in Weekdays /\ ttDate # "holiday"
\* the mock server takes no order in the aftermarket, whatever its kind
AftermarketOpen_OfBoth(account) == BusinessDay /\ Between(16, 0, 20, 0)    \* mutant
AftermarketOpen(account) == account = "real" /\ BusinessDay /\ Between(16, 0, 20, 0)
TrailingOpen(account) == (BusinessDay /\ Between(9, 0, 15, 20)) \/ AftermarketOpen(account)
AuctionOpen_Regular(account) == BusinessDay /\ Between(9, 0, 15, 20)       \* mutant
AuctionOpen(account) == (BusinessDay /\ Between(15, 20, 15, 30)) \/ AftermarketOpen(account)
V8Open == (BusinessDay /\ Between(9, 0, 15, 20)) \/ AftermarketOpen("real")

\* the jobs due now that do not return at once
Running == {e \in DueNow :
  /\ e.what \in {"fire_buy", "fire_buy_after"} => AuctionOpen("mock")
  /\ e.what \in {"fills", "fills_final", "mock_fills", "mock_fills_final"} => BusinessDay}
FireRuns == \E e \in Running : e.what \in {"fire_buy", "fire_buy_after"}

\* both exits sell at the market, and in the aftermarket by a limit below the price
SellKind_Market(account) == "market"                             \* mutant
SellKind(account) == IF AftermarketOpen(account) THEN "limit" ELSE "market"
OrderNow(account, job, kind) == [account |-> account, job |-> job, kind |-> kind]
Orders ==
  {OrderNow(a, "trailing_stop", SellKind(a)) : a \in {a \in Accounts : TrailingOpen(a)}}
  \cup (IF V8Open THEN {OrderNow("real", "v8_exit", SellKind("real")), OrderNow("real", "v8_buy", "limit")}
        ELSE {})
  \cup (IF FireRuns THEN {OrderNow("mock", "fire_buy", "market")} ELSE {})

\* the accounts whose last reconciliation of the day runs now
Finals == {a \in Accounts : \E e \in Running :
             e.what = (IF a = "real" THEN "fills_final" ELSE "mock_fills_final")}

\* the end of the closing auction; a listing of 15:30 is still of it
AuctionEnd == 60 * 15 + 30

TtInit == /\ ttDay = "mon" /\ ttMinute = 0 /\ ttDate = "ordinary"
          /\ ttFired = {} /\ ttFires = 0 /\ ttUnsettled = {}

NextMinute ==
  /\ ttMinute < 60 * 24 - 1
  /\ ttMinute' = ttMinute + 1
  /\ ttFired' = IF ttMinute > AuctionEnd THEN ttFired \cup {e.what : e \in Running} ELSE {}
  /\ ttFires' = IF FireRuns /\ ttFires < 2 THEN ttFires + 1 ELSE ttFires
  /\ ttUnsettled' = (ttUnsettled \cup {o.account : o \in Orders}) \ Finals
  /\ UNCHANGED <<ttDay, ttDate>>

Midnight ==
  /\ ttMinute = 60 * 24 - 1
  /\ ttMinute' = 0 /\ ttFired' = {} /\ ttFires' = 0
  /\ ttDay' = CHOOSE d \in TtDays : NightBefore[d] = ttDay
  /\ ttDate' \in {"ordinary", "holiday", "quarter"}
  /\ UNCHANGED ttUnsettled

TtNext == NextMinute \/ Midnight

TtSpec == TtInit /\ [][TtNext]_TtVars

(***************************************************************************)
(* Properties.                                                             *)
(***************************************************************************)
\* the exchange has its sessions today
SessionDay == ttDay \in Weekdays /\ ttDate # "holiday"

\* "WinError 5" and the 429 of 2026-08-31: in no minute of the week do two jobs
\* start that write the same daily bars, two, of whichever process, that ask the
\* broker for a token, or two that work through all bars.
CollidingJobsApart ==
  \A e1, e2 \in DueNow : e1.kind = e2.kind /\ e1.kind # "own" => e1 = e2

\* The limits of v8 are a share of the day's close: the screening and the end of day
\* come after a renewal of the bars with the closing price, the peaks are moved
\* before the limits are made, and the last reconciliation is after the last of the
\* regular ones and after the aftermarket.
DayInOrder ==
  \A e \in Running :
    /\ e.what \in {"v8_screen", "v8_eod"} => "fetch_bars" \in ttFired
    /\ e.what = "v8_screen"   => "v8_eod" \in ttFired
    /\ e.what = "fills_final" => {"fills", "v8_screen"} \subseteq ttFired /\ ttMinute > 60 * 20
    /\ e.what \in {"fills", "v8_screen"} => "fills_final" \notin ttFired
    /\ e.what = "gallery_kr"  => "predict_kr" \in ttFired

\* RC4010, RC4058 and 521790: no job sends an order of a kind that its account's server
\* refuses at that hour of that day (market orders from the opening to the end of the
\* auction; limits too, but not in the auction; in the aftermarket limits only, and
\* only of the real account).
OrdersTaken ==
  \A o \in Orders :
    /\ SessionDay
    /\ CASE Between(9, 0, 15, 20)   -> TRUE
         [] Between(15, 20, 15, 30) -> o.kind = "market"
         [] Between(16, 0, 20, 0)   -> o.kind = "limit" /\ o.account = "real"
         [] OTHER                   -> FALSE

\* "The close is bought": the fire purchases run in exactly one minute of a business day,
\* when the auction is open and nothing of their account is sold, and on no other day.
FireInTheAuction ==
  /\ ttMinute > AuctionEnd => ttFires = IF SessionDay THEN 1 ELSE 0
  /\ FireRuns => \A o \in Orders : o.account = "mock" => o.job = "fire_buy"

\* Fills can be asked for on the day only: an account that has sent orders is reconciled
\* for the last time before the day is over, though those jobs pass over the holidays.
DaySettled == ttMinute > 60 * 20 + 10 \/ ttMinute = 0 => ttUnsettled = {}

\* The times of the jobs keep apart what collides and in order what builds on another,
\* and the hours of trading fit the orders that are sent in them.
TimetableRight ==
  CollidingJobsApart /\ DayInOrder /\ OrdersTaken /\ FireInTheAuction /\ DaySettled
=============================================================================
