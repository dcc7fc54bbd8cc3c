# random-player: models, checks and proofs

random-player is a Flask application with a scheduler in the same process. It runs an
automated stock trading system (`auto_trading/`) against the REST interface of a
broker, and beside it collectors of posts and pictures, galleries, a video player, a
chat with video calls, the analysis of recordings and calls, and pages for all of
these. Its state is in JSON files, in a few tables and in the memory of one process
with many threads; scripts run beside it; browsers keep lists of their own; and the
process may end at any moment. There are no automated tests.

All the specifications are plain TLA+. `MC_*.tla` and the `.cfg` files are for TLC,
`*Proofs.tla` for TLAPS. `PROJECT.json` maps every definition to the lines it stands
for, and lists the hazards of the code at their lines with the properties about them.

## 1. The system

### Inventory

Trading.

| Part | Source | State | Operations | Talks to |
|---|---|---|---|---|
| v8 exit | `kiwoom_v8_exit.py` | position of each code: entry, ATR, peak, armed, taken, pending exit, watch | `run_v8_exit_cycle` (30 s), `run_v8_eod` (15:52) | account and orders of the broker, ownership, user's codes |
| v8 buy | `kiwoom_v8_strategy.py` | pending file: limits, `ordered` (ownership), `sold`, `filled_qty`, `open_codes` | `run_v8_buy_cycle` (60 s) | broker, trade history, switch |
| v8 screening | same, and its tools of the command line | limits with their ages, the day's candidates | `run_v8_screen` (15:55), reprice, backfill | pending file, daily bars |
| pending file | same | one JSON file | `_load_pending`, `_save_pending`, the helpers between them | both v8 jobs, screening, legacy exit, web threads |
| legacy exit | `kiwoom_trailing_stop.py` | trailing state file, codes bought by the user | `run_cycle` (30 s), `manual_buy`, `manual_sell`, cancellations | broker, pending file, dashboard |
| trade history and reconciliation | same | `trades_*.jsonl` | `_record_trade`, `reconcile_fills` (every 15 min, 20:10) | every job that trades |
| reports of profits | same | the values at the start of day, week and month; the history | `_ensure_baseline`, `record_cash_transfer`, the profits added up from the trades | dashboard, summary job |
| broker client | `kiwoom_api.py`, `utils/toss_openapi.py` | token, time of the last request, caches of quotations, holidays, switch; the token of the other broker in its file | orders, listings, `_refresh_token`, `_call_raw`, `_get_token`, holiday refresh | everyone |
| mock strategy | `kiwoom_fire_strategy_mock.py`, `run_mock.py` | fire state, instance lock | `run_fire_buy_cycle` | broker, legacy exit |
| backtests | `backtest/` | - | the days the studies buy on, simulated exits and accounts | daily bars |
| one-off trading tools | three scripts | - | run by hand | broker |

The server and its jobs.

| Part | Source | State | Operations | Talks to |
|---|---|---|---|---|
| scheduler | `job/batch_runner.py`, `run.py` | APScheduler jobs | triggers, pools: io 8, trading 4, cpu 2 | all jobs |
| batch processes | `job/batch_process.py`, `utils/common.py` | registry of running scripts | start, registration, clean-up, stop, restart | scheduler |
| scraping | `job/scrap`, `app/repository/scrap_posts` | register of posts, snapshots of links, logs | walks over accounts and boards, repair from the logs | the sites, the server |
| stock lists and their corrections | `app/repository/stocks`, `job/renew_stock_close.py`, `job/correct_interest_stocks.py` | table `interest_stocks` | insert, refresh, break away, correct | outside scripts, dashboard, fire |
| stock picks | `job/interest_stock_picks.py` | flows of the day, files of the minute | `run_interest_stock_picks` (5 min) | broker, page |
| other data collection jobs | `job/` | files | one sequence of requests each | - |
| dashboard | `app/stock.py`, `interesting_stocks.html`, `stock_card.js` | shared cache of account answers, flags of the cards, the list of live gaps | holdings with their stops, orders, switch, favourites, reservations | trading functions |
| call analyzers | `utils/cuda` | transcripts, analyses, checkpoints, workbook | recognise, ask, merge, write | a language model |
| audio analysis | `app/audio.py`, `tools/audio_analysis/worker.py`, `audio_analysis.js` | directory of each job, queue in memory | upload, retry, delete, worker stages, polling | worker process |
| minutes of a conversation | `tools/audio_analysis/summarizer.py` | - | chunks, items, topics, refinement, merging | a language model |
| ffmpeg tasks | `utils/ffmpeg` | list of tasks | start, terminate | web threads |

The pages.

| Part | Source | State | Operations | Talks to |
|---|---|---|---|---|
| images and thumbnails | `app/image.py`, `utils/image_thumbs.py`, `app/motion_photo.py`, `image.js` | files, originals in `origin/`, thumbnails, posters; the lists of names the galleries are leafed through by; lists of the page | move, crop, restore, delete, thumbnails, slide show | collectors, night job |
| image curation | `app/image_curate.py` | decisions, caches of scores, rounds | decide, recompute, rounds, screening | scripts on one GPU |
| videos | `app/video.py`, `video.js` | playlist, hearts with the origin of each video, offsets of the sound, moves put off | pick, probe, play, heart, move, delete | file system |
| chat | `app/function.py`, `static/js/chat` | rows of the page; read positions in memory and file | paging, search, socket, state file | database |
| video call | `video_call.js` | connection, timers | offers, answers, repetition | the other page |
| accounts and sessions; posts, files and the rest of the web server; configuration and utilities | `app/`, `config`, `utils`, `gemini`, `backup` | tables, files | single requests | browser |

### How the parts interact

The scheduler guarantees two things the modules build in: a job never overlaps itself,
and different jobs do overlap, at any point. A trading cycle reads the account once and
then acts on that listing for up to a minute. Between any two of its calls the broker
fills orders, another job rewrites the pending file and the user trades from the
dashboard. One account is shared by v8, the legacy exit and the user; who may sell a
code is decided by the `ordered` ledger in the pending file and by the codes marked as
bought by the user. The ledger has many writers: the buy job adds a code with its first
order and takes it back with an order it drops, the exit job takes it back when it is sold
out, the screening deletes entries older than 30 days, and each of them stores the file
whole, even one it could not read. Readers take an unreadable file for an empty one.

The other parts are coupled by files and routes, each pair in one place: collectors
write pictures that galleries show by thumbnails found by name only; a script that
outlives its server goes on in the directory its successor reads; a page keeps a list
the server has meanwhile changed, and gets answers in another order than it asked.

### What is hard, and what has to be right

- **v8 exit**: orders go out one at a time and the state is saved once, at the end. A
  rule fires as often as it says and no more; a full exit is not repeated while it is
  unfilled; the exit job keeps ownership while shares are held, and what other jobs do to
  the ledger is known; every position is sold out.
- **v8 buy**: two listings that do not agree, answers that are not looked at,
  bookkeeping after the fact. No code is bought twice over, the number of open orders is
  limited, a fill is recorded once.
- **v8 screening**: runs that die or are repeated on one day; limits age once a day.
- **pending file**: loaded, changed and saved whole by several threads; no half file.
- **legacy exit**: sells nothing of v8 that the ledger names; a stop needs a confirmed minute of
  one day; no holding's age starts again; every holding is sold in the end.
- **trade history, profits**: what is taken back was not bought; the profit is that of
  trading, whatever the user transfers; two reports made of different data agree.
- **broker client**: one renewal for many threads, or for many processes with a lock made
  of a file; an order is sent again only when it was not taken; a cache gives nothing older
  than it may; the holidays of this year are known while refreshes fail.
- **mock strategy**: two instances and deaths; cooldown and budget are kept.
- **backtests**: no study looks into the future; gaps and days that run through several
  levels; books balance.
- **scheduler, batch processes**: jobs that collide never start together; trading jobs
  are not held up by scripts; a stop leaves no known script running.
- **scraping**: a run that fails, is cut off or overtaken by new posts leaves no gap a
  later run does not look into, or only for a reason that can be named.
- **lists, picks**: several writers rename rows under a unique index; empty answers and
  overlapping cycles.
- **dashboard**: an answer read before an order is not shown after it; several pages
  turn one flag.
- **calls, audio, minutes**: runs broken off between two files, changed settings, a
  model that answers anything.
- **galleries, curation, video, chat, call**: late answers, deferred work, timers that
  outlive what they were started for.
- **thumbnails, posters, lists**: one name for several files over time; many requests for
  one file that has yet to be made; a list rewritten while a job reads the directory.

## 2. The modules

### The trading core

| Module | Models | Used by |
|---|---|---|
| `V8Exit` | the exit job, step by step, and what is around it | the `V8Exit_*` runs, `V8ExitProofs` |
| `V8Buy` | the buy job, step by step, and what is around it | the `V8Buy_*` runs, `V8BuyProofs` |
| `LegacyExit` | the legacy exit, step by step, beside v8, the user and the mock job | the `LegacyExit_*` runs, `LegacyExitProofs` |
| `PendingStore` | how the pending file is read and written | `MC_Trading`, `TradingProofs` |
| `StateFile` | abstract specification: a file loaded and stored in one piece | `PendingStore` (refinement) |

#### V8Exit

State: the account (`held`), accepted v8 sell orders (`work`) and buy orders
(`openBuy`), the shared files (`owned` and `marked`, the ledger's entries with their
ages, `sold`, `manual`, and `file`, the position of each code), what the buy job listed
(`dropping`), and the locals of the running cycle (`st` is its copy of the file, `snap`
the listing, `live` the codes it manages, `cur`, `px`, `left` the code in hand). `seen`
and `lost` only remember, for the properties: no action reads them. `lost` has the codes
whose entry some other job took from the ledger with shares held or on order.

One cycle of `run_v8_exit_cycle` is `List` (or `ListEmpty`, the listing that failed),
then `ReadFiles`, a step of its own since the files are read after the account (or
`GiveUp`, for an empty listing with a position that waits for no exit), then for each
managed code `Skip` or `Observe` and the rules in the order
of the source: `StopExit`/`StopRefused`/`NoStop`,
`TrailWatch`/`TrailWait`/`TrailFire`/`NoTrail`, `TakeProfit`/`NoTakeProfit`,
`HoldExit`/`NoHoldExit`; then `Finish`, which clears the codes that are gone and
saves. Each order is a step of its own. `Crash` ends a cycle anywhere before the
save. `Eod` is `run_v8_eod`.

The other writers of the ledger are actions too. `BuyOrder` is an order with
`_mark_ordered`, which leaves the date of an entry that is there. `BuyList` and
`BuyCancel` are the buy job's listing and its dropping of a candidate some time later: it
releases the code whatever was filled in between and whatever the broker answers.
`Screened` is the end of `run_v8_screen`: entries older than `ORDER_LEDGER_TTL` go,
whether or not shares are held. Whoever reads the ledger may find it unreadable
(`Readable`) and have nothing; `mark_sold`, `_mark_ordered` and the screening then
store what they have, and the entries of the others are gone (`Keep`).

Abstractions. Prices are whole numbers from a small set and the rules do the
arithmetic of the source on them (`BelowStop`, `BelowTrail`, `AtTarget`, `Anomaly`,
`Half` with Python's rounding). A stale opening price may be skipped at any quote
in the first minutes. Dates are ages relative to today: `NextDay` makes every
position a business day older and turns a watch of "today" into one of "earlier".
The confirmation time is two cycles of one day. The age of a ledger entry counts the
days of the model; the source counts calendar days. `EnvBehaviour` names what the
environment may do, so that each run can say what it allows. The exit job's own state
file and the file of the user's codes are always readable here; `LegacyExit` has the
latter unreadable.

#### V8Buy

State: the account (`held`), open v8 buy orders (`open`), the entries of the pending
file (`waiting`, `owned`, `filled`, `prevOpen`, `sold`), the switch, and the locals
of the cycle: both listings, today's candidates, the loop's remaining codes and the
counters. `bought`, `given`, `recorded` and `hurt` only remember.

`ListHoldings`, then `ListUnfilled` (or `ListNothing`, an error answer taken for an
empty list, or `GiveUp`), `Detect` for each code that may have been filled,
`StayOut` when the switch is off, `Plan`, `Drop` for each dropped candidate,
`NoRoom` or `Review`, `ResizeCancel` and `ResizeBuy` for each order to resize,
`Count`, `Place`/`NotPlaced` and `Mark` for each new order, `Done`. Time-outs
(`CancelTimesOut`, `BuyTimesOut`) leave it open whether the call took effect.

Abstractions. A code has one limit that waits or not; which candidates are in reach,
and for how many orders the cash suffices, is any choice. All orders are of `Lot`
shares; resizing puts `Lot` shares in place of what was listed. The exit job is
three steps: it sells (`ExitSell`, filled at once), lists the account without the
code (`ExitMiss`), and gives up the ownership (`ExitRelease`). `Screen` puts new limits in
the place of the old ones and deletes any of the ledger's entries: their ages are in
`V8Exit`. The ledger helpers are single steps; `PendingStore` has their inside, and
`V8Exit` and `LegacyExit` have the ledger that cannot be read.

#### LegacyExit

State: the account (`held`, `selling`, `buying`), the trailing state (`file`, and `mem`,
the copy of the cycle), the codes of the user (`manual`) and of v8 (`owned`, `marking`
while v8 has ordered but not marked), what v8 bought (`v8share`), the trade record, and
the cycle's listings (`hsnap`, `vsnap`, `msnap`, `todo`). `born`, `looked`, `low`,
`v8share` and `lost` only remember; `lost` has the codes that v8 has shares or an order of
and that the ledger has not named, or a cycle could not read there, all the time since the
order.

A cycle is `List` (or `ListPart`, which misses a code), `ReadFiles`, for each code that
nobody claims `LookOdd` (a jump of the price), `LookLow` (at the stop: a watch begins,
`Confirm`s or sells) or `LookFine`, with `Sell` or `SellRefused`; then `Looked`,
`ReleaseLoad`/`ReleaseSave` of the protections of codes that are gone, `Tidy` (among
it the reversal of purchases never confirmed), `Save`; `Die` anywhere. Beside it run
`UserBuy` with its two later steps `UserLoad`/`UserSave`, `UserSell`, `FireBuy`, the
orders, marks and sales of v8 (`V8Order`, `V8Mark`, `V8Track`, `V8Sell`), fills, the
reconciliation (`Settle`, `Finalize`) and `NextDay`. `TRAILING_ENABLED` is `False` in the source, so the trailing
rules never run; dates are ages; a quote is at the stop, above it or not credible.

The entry of a code leaves the ledger in three ways, none of which asks whether shares are
left: `V8Release` is the exit job that no longer lists the code, `V8Drop` the buy job that
takes a candidate back, `V8Forget` the purge after 30 days or a writer that stores the
ledger without the entries it could not read. With "unnamed" in `Env` each of them may
come while v8 has shares or an order. `Read` is a file of owners: with "unreadable" its
reader may get nothing, which `_load_pending` and `manual_owned_codes` return without an
error. The positions of this exit are lost in one way: `Die` in the middle of the save
leaves a torn file, which is read as empty.

#### PendingStore and StateFile

`PendingStore` has the lock, a temporary file for each thread and the replacement:
`BeginLoad`, `Load`, `Edit` (or `Leave`), `BeginSave`, `Open`, `Dump`, `Swap`, and
`Restart`, which may come at any moment. A file that is being written is `Torn`.
`StateFile` knows only `Load`, `Change`, `Store` and `Leave`; the refinement maps
the state file to its file and the stages of a thread to idle, loaded and changed.

### The other modules

Each has the state of one part under names with a prefix of its own, its actions in the
order of the source, and in its header what is abstracted. Three modules run them:
`MC_Trading`, `MC_App` and `MC_Pages`. A behaviour of these is one of the part that the
variable `part` names, with the others at rest: the parts they join touch no state of
each other, so joining their steps would add interleavings and nothing to see. Their
theorems are in `TradingProofs`, `AppProofs`, `PagesProofs` and `PicturesProofs`.

| In `MC_Trading` | State | Actions |
|---|---|---|
| `TradeHistory` | orders, the history file, the positions; the cycle of a reconciliation with what it has read | `Place`, `FillOrder`, `Close`; `ReadHistory`, `Fetch`, `Replace`, `ReverseUnfilled`, `DieReconciling` |
| `Profits` | asset, file of the starting values, queries between load and save; cash, shares and cost of the account, history of the trades | `LoadBaseline`, `SaveBaseline`, `Trade`, `Transfer`, `Report`, `NextTradingDay`; `NextDate`, `BuyShare`, `SellShares` with whole, old and torn records |
| `BrokerClient` | tokens of the broker, the process and `.env`; threads with a call under way, the renewal lock | `Answered`, `NoAnswer`, `TooMany`, `Refused`; `Lock`, `Issue`, `NotIssued`, `Write`, `Unlock`, `CooldownOver`; `Expire`, `RenewProcess`, `ReloadRead`, `ReloadWrite` |
| `Quotes` | a cached answer with its age, the time of the last request, threads that ask; years of holidays known in memory, in the cache, in the code | `LookUp`, `LookAgain`, `Sleep`, `LetGo`, `Reply`, `Repeat`, `FailShown`, `FailKept`, `Tick`; `Fetched`, `ClearKnown`, `UpdateKnown`, `SaveCache`, `RestartServer`, `NewYear` |
| `TossToken` | the token in force, in the file and in each process; the file that is the lock, threads | `Request`, `Accepted`, `Unauthorized`, `Busy`, `FromMemory`, `FromFile`, `MakeLock`, `SeeOldLock`, `RemoveOldLock`, `LockTimeout`, `ReadAgain`, `IssueToken`, `IssueFails`, `WriteToken`, `Reread`, `Unlocked`, `EndToken`, `Die` |
| `FireBuy` | money, holdings, fire state; cycles of two instances | `StartMock`, `BeginFire`, `PassOver`, `BuyFire`, `NotePurchase`, `EndFire`, `DieFire`; the auctions |
| `Screen` | limits with age and depth, closes, ledger, day's candidates with the price of each order | `BeginScreen`, `Screened`, `ScreenDies`, `Candidates`, `Bought`, `Sold`, `OrderAt`, `Delisted`, `Reprice`, `Backfill`, `NextDay` |
| `ExitStudy` | the bars since a purchase | one more bar; the rules are folds over the bars |
| `Signals` | the bars of a code and of its peers (those of `ExitStudy`) | none of its own: which days each study buys on is a function of the bars |
| `Portfolio` | cash, open positions, day | `Closing`; a day under one of the three ways to share out the cash |
| `InterestTable` | rows, the lists jobs and script have read | `Insert`, `Age`, `ListLow`, `ListRising`, `BreakAway`, `CheckEnds`, `CorrectList`, `ScriptReads`, `ScriptApplies`, `Collected` |
| `Picks` | `_LAST_FLOW`, files, cycles of two jobs | `Begin`, `FlowAnswered`, `NotAnswered`, `Save`, `Hour`, `Night`, `PkRestart` |

| In `MC_App` | State | Actions |
|---|---|---|
| `Timetable` | day, minute, kind of date (holiday, first of a quarter), jobs that fired since the close, accounts with orders not yet settled | the next minute: the triggers of every cron and interval job of both processes |
| `BatchProcess` | jobs in their pools, scripts with stub and interpreter, registry, server | due, begin, end, grace over; spawn, enlist, end; stop, list, kill, gone, start |
| `Audio` | directory of each job, queue, requests, worker processes | `Upload`, `TakeJob`, `StartWorker`, the worker's stages, `WorkerFails`, the three steps of a retry, `DeleteKills`, `Deleted`, `Restart` |
| `Minutes` | transcript, items, topics | `Propose`, `Refine`, `Topic`: whatever the model answers, and the code's tests of it |
| `Summary` | the items that stood the tests, the keywords chosen so far | `Merge`, `LayOut`, `Pin`, `AddFrequent`, `AddLlm`, `AddAcronyms`, `DropShorter` |
| `Dashboard` | cache entries, lock, threads; flag of the server with list, buttons and requests of each page; the cases a card shows | `Request`, `Look`, `TakeLock`, `LookAgain`, `Fetch`, `FetchFails`, `Store`, `Order`, `Invalidate`; `Press`, `Handle`, `Fail`, `Reply`, `PressBulk` …, `Sync`, `ReadList`, `Synced`, `Turn`; `ShowCard`, `ShowRanking`, `ShowKept`, `Cleared` |
| `CallReport` | transcripts, analyses, workbook of both programs, the run | `Start`, `OpenText`, `WriteText`, `RecogniseFails`, `ToAnalysis`, `FromCache`, `TornCache`, `Ask`, `Consolidate`, `OpenAi`, `SaveAi`, `Checkpoint`, `FinishBook`, `CrDie` |

| In `MC_Pages` | State | Actions |
|---|---|---|
| `AudioPage` | list, open job, requests under way | `LoadJobs`, `Open`, `RetryInList`, `Compare`, the server's progress, answers in any order |
| `Chat` | rows, search window, requests under way; state in memory, file, timer, requests with a copy | `Said`, `Delivered`, `Missed`, `ScrollUp`, `JumpTo`, `Extend`, `BackToLatest`, one arrival for each kind of answer; `Load` with `Chat`, `Read` and `Beat`, `Save`, `Schedule`, `Fire`, `Flush`, `Written`, `WriteFails`, `WritesCollide`, `CsRestart` |
| `VideoCall` | negotiation, connection, timers and shown status of two pages | `Join`, `Welcome`, `OfferReady`, `Offered`, `AnswerReady`, `Answered`, `LateAnswer`, `Lost`, `Failed`, `Freeze`, the timers |
| `Player` | playlist, current video, timer, probe, element; files of videos with hearts, origins and offsets, moves put off, a migration | `NextVideo`, `PrevVideo`, `PlayDue`, `Probed`, `NativeMetadata`, `FastMetadata`, `Stalled`, `Heart`, `DelVideo`, `FilterChange`; `Like`, `SetSyncOffset`, `Moves`, `DeleteVideo`, `Deferred`, `FlushBegins`, `OffsetFollows`, `FlushEnds`, `MigrateBegins` …, `Refresh`, `LkDies` |
| `ImageViewer` | pictures drawn and hidden, slide, timers, questions to the server | `Draw`, `MoveAway`, `Moved`, `DeletePage`, `Show`, `Advance`, `Step`, `SlideShowDeleteCurrent`, `OriginFound` |
| `Curate` | decisions, caches, timer, scripts, rounds, screening | `Change`, `KickEmbed`, `ScriptStarts`, `ScriptEnds`, `WorkerEnds`, `Propose`, `Recorded`, `AskBack`, `StartRound`, `EndRound`, `ScreenRuns` |
| `Gallery` | pictures under one name in several galleries, originals, crop history | `Collect`, `MoveImageCore`, `MoveSorted`, `Crop`, `RestoreCrop`, `AskDelete`, `Delete`, `Purge` |
| `GalleryLists` | the directory, the list of its names, the shuffled one, threads with what they have read | `Fetch`, `Shuffle`, `Restore`, `Finish`, `MoveImage`, `DeleteImages`, `DeleteTask`, `ShowPage`, `MoveOne`, `Arrive` |
| `Thumbs` | the files of one name with two extensions, their thumbnail; actors and the job at night with what they have read | collect, `ThumbIn`, `ThumbOut`, `Edit`, `RebuildThumb`, `DeleteThumb`, `Scan`, `Judge`, `Convert`, `JobWrites`, `SaveSkip`, deaths |
| `OnDemand` | posters and films of motion photos, the requests that want them, seats | `Asks`, `Locks`, `FoundMeanwhile`, `Begins`, `NoSeat`, `Ends`; `Uploads`, `UploadMakes`, `UploadEnds`, `WrittenOver`, `ServerDies` |
| `Boards` | posts of a board, register, walk, logs of the days | `BdPublish`, `Start`, `OpenPage`, `OpenList`, `Check`, `ReadAi`, `ReadCos`, `ReadFails`, `Registers`, `PageDone`, `WalkDies`, `Retry404` |
| `Scrape` | posts, register, snapshot of failed links, run | `Publish`, `ScanProfile`, `HandleLink`, `HandleRaises`, `Retry`, `EndRun`, `Killed` |

## 3. The runs

| Run | Expected | Properties |
|---|---|---|
| `V8Exit_rules` | pass | `TypeOK`, `TakeProfitOnce`, `OwnedWhileExiting`, `TrailFiresAtNewHigh`, `TrailConfirmed`: the rules over several days, both sessions, partial fills, halts, repurchases, with purges, dropped orders, refused cancellations and an unreadable ledger |
| `V8Exit_disturbed` | pass | `ArmedAtNewHigh`, `QuietWhileExiting`: a dead cycle, a failed listing, a user who buys, sells and cancels |
| `V8Exit_live` | pass | `SoldOutInTheEnd`: every registered position is sold out, in the regular session, unless the ledger lost its code |
| `V8Exit_cleared` | violation | `ClearedMeansNeverOwned`: two partial sales empty a position and its ownership stays |
| `V8Buy_cycle` | pass | `TypeOK`, `OneOrderPerCode`, `OpenWithinLimit`: with resizing, time-outs and deaths |
| `V8Buy_errors` | pass | `RecordedAtMostBought`, `PartialFillKept`: refusals, time-outs, failed listings, deaths, partial fills, the user and the switch at once; the first for codes that are not `hurt` |
| `LegacyExit_rules` | pass | `TypeOK`, `AgeKept`, `V8SharesKept`, `StopConfirmed`: beside the user, v8, partial listings, ownership files that lose entries or are unreadable; no cycle dies |
| `LegacyExit_live` | pass | `SoldInTheEnd`: through refusals, expired orders, a dead cycle, days without reconciliation, sales of the user, unreadable and incomplete ownership files |
| `LegacyExit_unprotected` | violation | `ProtectedUntilGone`: a purchase by hand loses its protection with its shares in the account |
| `Trading_parts` | pass | the parts of `MC_Trading` |
| `App_parts` | pass | the parts of `MC_App` |
| `App_pages` | pass | the parts of `MC_Pages` |

A violation run states what a comment of the repository says and shows the shortest
behaviour of the code that contradicts it; `PROJECT.json` quotes the line.

The properties of the three joined runs are conjunctions, one conjunct for each thing
that could go wrong. `PROJECT.json` lists mutants of the code that break each property;
a conjunct is named, so a run that fails can be narrowed down by checking the named
parts one by one.

| Property | Part | Says |
|---|---|---|
| `FileIsWhole` | pending file | the state file implements `StateFile`: loads see, and stores leave, whole files, through restarts |
| `ReportsRight` | history, profits | `FilledNotReversed`, `PositionBacked`: what the reconciliation takes back was not bought, and the positions agree with the account after the last one; `ProfitWithoutTransfers`: the profit shown is that of trading; `PeriodsAgree`, `ReportsAgree`: day, week, month and all days, and the two pages that add them up differently, agree |
| `BrokerRight` | clients, holidays | `OrderAtMostOnce`, `RefusalNotData`: a call orders once, a refusal is not taken for data; `NoOlderThanItsTtl`, `OneFetch`, `NeverBack`, `KeepDistance`: what a cache gives, who fetches it and how far apart; `NoneRevoked`, `RefusedOnce`: no process revokes the token of Toss another uses; `ThisYearKnown`: failing refreshes leave the holidays of this year |
| `FireRules` | mock purchases | `CooldownKept`, `SpentWithinLimit`: two instances buy no code within its cooldown, and no cycle spends more than its share |
| `ScreenRight` | screening | `LiveIsReplay`: screenings that die or are repeated leave what one a day would; `CacheFresh`; `PricesTaken`: an order is on a tick, in the band of the day and not above the limit |
| `SignalsRight` | backtests, table, picks | exits: `SoldAsTheMarketWas`, `NoWayOut`, `EndsAgree`, `BoughtBackLower`, `SamePurchases`; entries: `SameDays`, `NothingOfTomorrow`, `ChosenByTraining`, `OneEvent`, `ClustersCompared`, `SuspensionIsNoFall`; accounts: `BooksBalance`, `BufferKept`, `SettledInTime`, `CooledDown`, `EqualPartsFound`; table: `OneRowOfADay`, `SignalsRemembered`, `ScriptAgrees`, `GoneFromFire`; picks: `FlowsOfTheDay`, `EmptyAnswerHarmless`, `StrongIsConfirmed` |
| `TimetableRight` | scheduler | `CollidingJobsApart`, `DayInOrder`, `OrdersTaken` (trading jobs run when the broker takes their orders), `FireInTheAuction`, `DaySettled`, over all minutes of a week |
| `ScriptsRight` | batch processes | `TradingNotHeldUp` (liveness): scripts that hang keep no trading job from its time; `StopLeavesOnlyUnknown`: a stop by a signal leaves no script that was registered in time |
| `AudioRight` | audio analysis | `NeverForgotten`: a job shown as running is with the queue; `ResultOfSettings`: a result is that of its own settings and transcript |
| `MinutesRight` | minutes | `NothingMadeUp`, `UnderItsTopic`, whatever the model answers; `NothingLostByMerging`, `NothingSaidTwice`, `KeywordsRight` of what is made of it |
| `DashRight` | dashboard | `OrderShownUnlessCaught`, `NoCallForWhatIsThere`; `CardTellsTheStop`: a card says of its stop what the engine does |
| `CallsRight` | call analyzers | `EveryCallBooked`, `DoubtKept`, `OfItsTranscript`, `OnceForGood` |
| `StocksShown` | flags, live gaps | `FlagsSettle` (liveness): once the user lets the pages be, each one in front comes to show what the server has; `RankingTellsThePurchases`: the list of live gaps is in order and holds what the cycle would buy |
| `KeepsLooking` | recordings page | a page that shows an unfinished job has a look ahead of it |
| `ChatRight` | chat | `NothingLostBySearching`, `ChangeWillBeWritten` |
| `TryingComesToAnEnd` | video call | a page that says it is connecting has something that will end that |
| `WhatPlaysIsCurrent` | player | heart and deletion go to the video that plays |
| `PicturesRight` | viewer, curation, thumbnails, posters | `SlideIsTheCurrent`, `FailedIsKept`; `ChangeIsSeen`, `RoundAsksAgain`; `ShowsItsOwn`, `CarriesItsOwn`, `SettledByJob`; `KeptIsWhole`, `FreshIsOfTheSource`, `MadeOnce`, `SeatsComeBack` |
| `GalleriesRight` | lists, hearts | `ListIsDirectory`, `AsManySlipAsWereDropped`; `NoneOverwritten`, `HeartsAsWished`, `OffsetStays`, `GoesBack` |
| `BoardsRight` | boards | `NoGapWithoutFault`, `MissedIsTriedAgain`, `RegisteredIsRead` |
| `CollectedRight` | accounts, galleries | `NeverPassedOver`: no post a later scan does not reach; `OriginalIsItsOwn`: restoring gives back that very picture |

### Bounds, and why they are enough

- One code in `V8Exit`: the cycle treats codes one after another and they share
  only the moment of the save. `Lot` is 2, the smallest purchase whose half is not
  all of it, and a partial fill of 1 is the purchase whose half is all of it. The
  prices lie on both sides of every threshold for an entry of 100 (70 an anomaly
  after 120; 98 under the trailing line but above the stop; 118 under the line of
  120; 120 and 122 at the target). `MAX_HOLD_DAYS` 1 or 2 lets a position expire,
  and days are not counted beyond it. `ORDER_LEDGER_TTL` is 2 days where the source has 30:
  with a holding limit of 2 an entry may grow old while the position of its first order
  is held, or that of a later one; with 0 every entry is old the next day. `Faults` and
  `BadReplies` bound the dead cycles and the failed listings.
- `V8Buy`: two codes where they compete for a limit (`MAX_OPEN_ORDERS` 1), one code
  where the quantities matter. `MaxBought` bounds the shares ever bought of a code,
  `MaxOpen` those on order at once: with `MaxOpen` twice the lot a second order is
  possible, and `OneOrderPerCode` is what says that it does not happen.
- `LegacyExit`: one code, two shares where v8 and the legacy exit hold both at once,
  one where only their end matters; a longest age of one or two days.
- `PendingStore`: two threads (a holder and a waiter), two entries so that an update can be
  lost, one restart.
- `MC_Trading`: two threads at one token and three tokens (the old one, that of the
  renewal, one more); two processes of one thread each at the file of the Toss token;
  two threads at one cache; two mock instances over two auctions; three days of
  screening with limits that live one, closes and depths on either side of a change of
  the tick; six bars, one more than the longest stay (`EsHold`) and the purchase, and for
  the entries five days of four kinds after each of two pasts of ten days; accounts of
  four days and two slots; two writers of a baseline over two days; a history from a
  Friday the 30th to the Tuesday after, so that week and month end on different days;
  one code with two rows; two picks jobs with one place fewer than candidates.
- `MC_App`: a whole week of minutes, the holidays and the first of a quarter (these are
  all the inputs the time-table has); pools of one worker with one job of each kind and
  two trading jobs; one recording with two settings, a retry and a restart; three
  utterances of two people, three items and four terms; two threads at the cache; two
  pages of two panels with three presses; one call of two parts, two runs, one death.
- `MC_Pages`: two recordings with two requests under way; five messages in windows of
  three with one hit, and one thread at the state of the chat; two offers and one fault in a call; two videos, one of them vertical, and
  three presses; two videos of one name with hearts, three requests and a death; three
  pictures and four slides; three names in a list shown one by one; two pictures under
  one name and two runs of the night job; a video, an uploaded video and a motion photo
  wanted by two requests with one seat; four posts on pages of two; five posts of an
  account with one known ending a scan and two faults; two pictures of one name and three
  crops. Where a theorem covers every bound, the bound is the smallest that still reaches
  each action.

The bounds are chosen so that each case named above occurs within a run of a few
minutes. A passing run is no claim about larger instances: only the theorems are.

### Fairness

- `V8Exit_live`: the scheduler runs the job every 30 seconds, so a cycle begins again
  and again and goes on once begun; the clock goes on; the broker fills a sell order
  that stays possible to fill, a good quote comes again and again, and an exit order is
  not refused for ever. Strong fairness is used where the step is disabled now and then
  (night, another code in hand). Nothing is asked of the user or of purchases. The run
  leaves out the aftermarket: there an order may expire at the end of its session and
  nobody orders again.
- `LegacyExit_live`: the same for its cycle (`List` strongly, since a death may undo
  it, the later steps weakly); a sale is not refused for ever and is filled in the end;
  a purchase of v8 that was accepted is marked, a user's purchase is registered.
- `App_parts`: `BpFairness`, a trading job that was begun ends, and one that may begin
  again and again does (nothing is asked of scripts or other jobs); `FlFairness`, a
  request is answered or fails, and the timer of a page in front asks for the list. A
  press of the user is not fair, and is bounded.
- All other properties are about safety and hold without fairness.

## 4. What is proved

For all values of the constants that satisfy the assumptions of the modules: any set of
codes, prices, lots and holding limits, any number of faults and failed listings, of
threads, processes, entries, recordings, posts, pictures, messages and restarts. The
hypotheses of a theorem are its own, and are those without which the code does not give
what it states; what happens without them is in section 5.

| Theorem | States | Under |
|---|---|---|
| `V8ExitProofs!TypeCorrect` | `TypeOK` | |
| `ArmedOnlyAboveLastFire` | `ArmedAtNewHigh` | |
| `QuietWhileExitingHolds` | `QuietWhileExiting` | |
| `TakeProfitAtMostOnce` | `TakeProfitOnce` | `Faults = 0` |
| `EachTrailAtNewHigh` | `TrailFiresAtNewHigh` | `Faults = 0` |
| `EachTrailConfirmed` | `TrailConfirmed` | `Faults = 0` |
| `OwnedUntilSold` | `OwnedWhileExiting`: an exit that waits has its owner, or the ledger `lost` the code | no purchases of the user |
| `V8BuyProofs!TypeCorrect` | `TypeOK` | |
| `HistoryWithinPurchases` | `RecordedAtMostBought`, of each code that is not `hurt` | |
| `PartialFillsKept` | `PartialFillKept` | |
| `NoSecondOrder` | `OneOrderPerCode` | `Trusted` |
| `OrdersWithinLimit` | `OpenWithinLimit` | `Trusted` |
| `LegacyExitProofs!TypeCorrect` | `TypeOK` | |
| `V8SharesNeverSold` | `V8SharesKept`, of each code that is not `lost` | `Calm` |
| `StopsAreConfirmed` | `StopConfirmed` | `Faults = 0` |
| `AgeIsKept` | `AgeKept` | `Reconciled` |
| `AppProofs!AnalysisAsAsked` | `AudioRight` | |
| `StopKillsWhatItKnew` | `StopLeavesOnlyUnknown`, the safety part of `ScriptsRight` | |
| `OrdersAreShown` | `OrderShownUnlessCaught` | |
| `OneCallForAll` | `NoCallForWhatIsThere` | |
| `CardsTellTheStop` | `CardTellsTheStop` | |
| `AccountPageIsRight` | `DashRight`, from the three before | |
| `TradingProofs!BrokerTypeCorrect` | `BcTypeOK` | |
| `CallsAndCalendar` | `BrokerRight` | `~HdBlank` |
| `ProfitIsOfTrading` | `ProfitWithoutTransfers` | |
| `FireTypeCorrect` | `FcTypeOK` | |
| `PurchasesRationed` | `FireRules` | |
| `OrderPricesTaken` | the order made of any close, depth and earlier price is taken by the exchange and not above its limit | |
| `LockExcludes` | `OneAtATime` | |
| `PendingFileIsWhole` | `PendingStore` implements `StateFile` (`FileIsWhole`) | |
| `PagesProofs!CurrentVideoPlays` | `WhatPlaysIsCurrent` | |
| `BoardsAreCollected` | `BoardsRight` | |
| `PageKeepsLooking` | `KeepsLooking` | |
| `ConnectingEnds` | `TryingComesToAnEnd` | |
| `CollectedIsKept` | `CollectedRight` | |
| `ChatIsKept` | `ChatRight` | |
| `PicturesProofs!PicturesAreSortedAsDecided` | `CurateRight` | |
| `MadeOnDemandIsRight` | `OnDemandRight` | |
| `ViewerShowsItsPicture` | `ViewerRight` | |
| `ThumbnailIsOfItsFile` | `ThumbsRight` | |
| `PicturesAreRight` | `PicturesRight`, from the four before | |

- `Faults = 0`: no cycle dies between an order and its save. The state that says "done" is
  lost with the cycle.
- `Trusted`: the broker lists every open order and refuses no cancellation; the code looks
  at neither answer.
- `Calm`: no cycle of the legacy exit dies, no order outlives its day, and the user sells
  nothing. A sale of the user that the cycle does not know of leaves it shares in its
  state that are v8's by the time it sells them.
- `lost` (in `V8Exit` and `LegacyExit`) and `hurt` are part of the properties, not
  hypotheses: section 5 says how a code gets there. TLC finds each of the three properties
  violated without them.
- `Reconciled`: no cycle dies and every fill is reconciled before the next day. Otherwise
  a purchase that was filled is taken back as never confirmed.
- `~HdBlank`: the server was installed with a cache file of the holidays.

### How the proofs go

Every theorem but `OrderPricesTaken` follows from an inductive invariant. One lemma for each action, or group of them, shows that it is kept; the
properties need the following.

- *v8 exit.* `TypeInv` adds what a cycle has in hand: the codes it manages are listed, so
  there are shares left when a rule is judged, and the order size never exceeds them
  (`OrderSize`). `HighInv`: the peak never falls, firing sets `last_fire_peak` to the peak
  and disarms, and only `EndOfDay` arms, above it. `QuietInv`: a code with a saved pending
  exit is passed over (`PassedOver`), and the file changes under a cycle only when that
  cycle itself finishes. `MemoryInv`: what `seen` remembers agrees with the position, in
  the file while no cycle runs and in `st` while one does. `OwnInv`: a code that
  the cycle manages or the file knows is owned, or lost to another job, while there are
  shares of it or an order for some (`Kept`).
- *v8 buy.* `BookInv`: of the codes that are not `hurt`, one with an open order, one the
  last cycle left open and one the account did not hold when it was listed are unsold and
  unrecorded, so a cycle may record all of what it listed, whatever `filled_qty` says.
  `OrderInv`: what the cycle listed covers what is open until it places
  orders of its own, and `placed` counts it from then on.
- *Legacy exit.* The argument follows the position by which the cycle decides: the file,
  then its copy. `SharesInv`: only a position that is `Ready` sells, and there is none of a
  code that v8 has marked and the ledger kept, or may order. What is known of the position
  once its shares are gone does not rest on the ledger, so that a lost code counts again
  from the next order of v8. `AgeInv`: a cycle takes a position away only if the
  history shows its sale, or a purchase of an earlier day that was never filled; for shares
  that are still there both are impossible, because the history knows of whatever was sold
  and only a purchase of today may have no fill.
- *Pending file.* A thread inside a load or save holds the lock, one that has loaded has a
  whole content, and at `swap` its temporary file is its copy. The steps of the lock and of
  the temporary file are stutters of `StateFile`. A temporary file of one's own makes the
  file whole even without the lock, which matters only for who comes first.
- *Audio.* A job shown as unfinished is in the queue, in the thread's hand, with its worker
  or with a request about to enqueue it; what a stage of the worker has put together is of
  the settings it was started with, or the job is about to be run again.
- *Scripts.* `BpInv`: while the clean-up kills, a script of the thread pools that is alive is
  listed and not yet killed, or was started since.
- *Account page.* `DcInv`: who looks again, fetches or stores has the lock of the key,
  and that of the holdings too if it looks for open orders to build them (`DcLocks`); what is in the cache, or in
  the hand of one who will store it, has all answered orders, but for keys that were caught
  (`DcAnswers`). `CdInv`: a card with a stop is that of the holding.
- *Broker client.* `TokenFresh`: a token renewed moments ago is in force and, unless the
  reload of the morning has put an older one back, the one the process has; a call is
  repeated with that one. `QtInv` (`Asking`, `Alone`, `EntryRight`): of a cache
  with a lock whoever fetches is alone, began when the entry was too old, and puts nothing
  older in its place. `TsInv` (`TsCalls`, `OnFile`,
  `TokenInUse`, `Repeated`, `SharedFile`): as long as no lock of a living process was
  removed (`tsBroken`), who renews the token of Toss is alone, and what is in the file is
  the newest. `HdInv`: the
  cache knows the year, and but for the moment of a replacement memory knows what it does.
- *Profits.* `AbInv`: the asset is the starting value of the day and what was traded and
  moved since, and the last value in the file is that of the last query, unless two of
  them clashed.
- *Mock purchases.* `FcInv` (`FcShape`, `FcOne`, `FcNoted`): one instance runs a cycle, and
  what it ordered is noted, or the cycle has died and is excused.
- *Prices.* A lemma of rounding down to a tick, one case for each band of prices.
- *Player.* `PlInv`: timer, probe, listeners and watchdog each keep a url and the video that
  was current when they were set, and such a pair names one file.
- *Boards.* `BdInv`: links are walked from new to old, what is left of a page goes down by
  one to the oldest of it, and all that is newer is settled: read, registered, or passed
  over for a reason that has a name. Pages that move under the walk bring posts only to a
  later page. The proof found a reason the property had not named: an address that begins
  a registered one counts as registered and ends the walk early.
- *Accounts.* `ScInv`: the posts ever tried are the oldest ones, so one that was not lies
  above them all and a later scan reaches it.
- *Galleries.* `OriginalIsItsOwn` is inductive with the types.
- *Recordings page.* `ApInv`: what is asked of a list stays asked until it arrives or fails,
  and whoever sees an unfinished job sets the next look.
- *Video call.* `VcInv`: who takes the last thing that was coming away leaves another in its
  place, or an offer both agreed on.
- *Chat.* `ChInv`: in a search the rows are messages without a gap, and what came meanwhile is
  noted; on the ordinary page every message that reached it and lies below the first row is a
  row, or is brought by the answer that leaving the search asked for. An answer to a request
  made for other rows is left aside, as the property does. A range of messages goes in front
  of, behind or in the place of the rows, so that lemmas about ranges carry the proof.
  `CsInv`: while a snapshot is being written the state is that snapshot or is marked as
  changed, also when it equals the file, which the snapshot is about to replace.
- *Sorting page.* `CuInv`: a change that a cache lacks is read by the script that runs, or
  another turn is certain, also while an error of an earlier turn stands; and what was
  decided before a round, even what still waits for the lock, has a time before its start.
- *Files on demand.* `OdInv`: of the requests for a file one has the lock and keeps it until
  the file is made, so that only an upload can be in its way; what it finds not fresh under
  the lock is not fresh when it ends, or the source has changed. The seats taken are the
  finite set of those who make a poster.
- *Viewer.* `IvInv`: a question about an original that has the token of the slide is about its
  picture; what may yet fail to be moved away is in neither list and behind what is drawn, so
  that no deletion of the page sends it.
- *Thumbnails.* `ThInv`: who is alone at the name from beginning to end (`ThAlone`,
  `JobAlone`) writes the only thumbnail not in doubt; such a one is of the one file there is,
  or two files have the name, or whoever changed that is still to take it away or to write it
  anew (`ThSure`); what the job remembers of a file it need not look at again is that very
  file (`ThSeen`), so that a run in which nobody comes leaves each name settled (`ThQuiet`).

### Only model-checked

- Liveness (`SoldOutInTheEnd`, `SoldInTheEnd`, `FlagsSettle` in `StocksShown`,
  `TradingNotHeldUp` in `ScriptsRight`): the prover has no rules for fairness and `ENABLED`.
- What is computed by folds and recursive functions over data (`ScreenRight`,
  `SignalsRight`, `ReportsRight`, `MinutesRight`, `CallsRight`, `GalleriesRight`, and
  `RankingTellsThePurchases` in `StocksShown`): what a fold,
  a sorted list or a list with entries struck out is for every input needs induction over the
  data, out of the provers' reach. `OrderPricesTaken` is the part of `ScreenRight` without a
  fold. `PartsTypeOK` holds the type invariants of such parts.
- `TimetableRight` has no constants to generalise: TLC goes through all there is.
- The two violations.

## 5. Not modelled

Whole parts:

- *Accounts and sessions*, *posts, files and the rest of the web server*, *other data
  collection jobs*, *one-off trading tools*: every request or script is one sequence of
  calls to the database, the file system or another server, without a state of its own
  that outlives it.
- *ffmpeg tasks*: the scheduler jobs that would collect the ended tasks are commented
  out in the source, so that a task, once listed, has no further life.
- *Configuration and utilities*: settings, experiments, and an old copy of the trading
  code.

Within the parts that are modelled:

- v8 exit: the hard floor rule, and in the buy job the exchange of orders on
  re-ranking: both are switched off by constants of the source. The exit job's own state
  file read as empty because it cannot be parsed: with whole files this needs damage from
  outside. The ledger read as empty is in `V8Exit` and `LegacyExit`, where it decides who
  sells, and not in `V8Buy`.
  The 2 second cache of unfilled orders: the buy job may read a listing that old; the
  two listings of `V8Buy` are already taken at different moments. Orders the user
  places in the broker's own application. An order of the exit job that is accepted
  while the call times out is the rule's step followed by `Crash`, but for the `sold`
  entry.
- Broker client: what the wrappers of single requests send and parse. Mock strategy: the
  signal is any ranking of codes.
- Backtests: the tables they print and their plain statistics.
- Scraping: how a page is taken apart and the choice of the addresses of its media; the
  tidying scripts, and `scrap_cos_depth2.py`, whose list of accounts is empty in the
  source.
- Dashboard: charts, rankings, exports. Chat: notices, previews of links, uploads.
  Videos: the synchronisation of a separate sound file (its saved offset is in `Player`) and
  transcoding. Galleries: the upload of pictures; two requests about one name at the same
  moment (one request is one step in `Gallery`, several in `Thumbs`).
- Call analyzers: the preparation of the sound, the older scripts of the directory.
  Minutes: the wording of prompts, the parsing of answers. Curation: features and
  scores.

### Where the properties stop

The models reach more behaviour than the runs judge. These properties are not
claimed outside the settings named, because the code does not give them there.

Trading:

- `TakeProfitOnce`, `TrailFiresAtNewHigh`, `TrailConfirmed` only while no cycle dies
  between an order and the save: the state that says "done" is lost with the cycle. They
  are about one position, from its registration to its clearing, also when a listing or a
  ledger that comes back empty by mistake clears it.
- Ownership is lost with shares held, and both exits' properties say so by `lost`:
  - `run_v8_screen` deletes every entry of the ledger that is older than 30 days
    (`kiwoom_v8_strategy.py:784-792`). It looks neither at the account, nor at the open
    orders, nor at the positions that wait for their exit, and `_mark_ordered` (470-476)
    leaves the date of an entry that is there, so that a code first ordered weeks before
    its fill, or ordered again after an order that expired, is purged while held. The
    comments at line 369 ("보유도 미체결도 아닌 채 ORDER_LEDGER_TTL 일 지나면 자동 정리",
    neither held nor on order for that long) and at line 784 ("보유/미체결이 아닌 항목") say
    otherwise. The legacy exit then sells the shares by its own rules, also while the full
    exit of v8 is unfilled. `V8Exit` and `LegacyExit` reach this: without `lost` TLC finds
    `OwnedWhileExiting` and `V8SharesKept` violated.
  - The buy job releases a dropped candidate whose order was filled after its listing, or
    whose cancellation the broker refused (lines 1116-1131).
  - A job that could not read the ledger stores it with what it adds
    (`mark_sold`, `_mark_ordered`, the screening).
- An unreadable ledger is read as empty (`_load_pending`, lines 350-352), so that for this
  cycle the codes of v8 are the legacy exit's. The comment at `kiwoom_trailing_stop.py:1510`
  says that the legacy exit is skipped when the reading fails ("조회 실패 시에는 중복 매도
  위험이 있으므로 기존 청산을 아예 건너뛴다"), but the `except` under it is never reached by
  that failure. `V8SharesKept` excuses the codes such a cycle met. The exit job of v8
  leaves its codes alone for that cycle, but clears their positions as if they had been
  sold; in the next cycle they are new ones, with a peak, a trailing line and a take
  profit of their own.
- `OwnedWhileExiting` only without purchases of the user, and about positions still
  in the file: a listing that comes back empty by mistake (`ListEmpty`) clears the
  position and gives up the ownership in one step, with shares still held.
- `OpenWithinLimit` and `OneOrderPerCode` not when the listing of unfilled orders
  fails silently or a cancellation is refused (neither answer is looked at), nor when
  an order is filled between the two listings: its code is then in neither.
- `RecordedAtMostBought` says nothing of a code that is `hurt`: one that a listing of the
  open orders was wrong about, or one that a cycle had listed as held before it died,
  while the last cycle to end had left it an open order. The cycle may have recorded the
  shares without saving that it had, and an exit that releases `filled_qty` between the
  next listing and `Detect` makes them be recorded again. A purchase of the user in a code
  of an open order is recorded as one of v8.
- Two helpers of the pending file that overlap lose an update: `PendingStore` reaches
  it, the whole-file theorem says nothing about it.
- A cycle that has passed the switch goes on placing orders after it is turned off.
- `AgeKept` not for a holding sold and bought again on one day, which keeps its age; and not
  when a day's fills were never reconciled, since a purchase that was filled is then taken
  back with its position.
- `V8SharesKept` not beside a user who sells: shares that are gone stay in the state of the
  legacy exit until a cycle sees it, and v8 may buy the code meanwhile. Nor, for that
  code, when v8 buys it again on the day it sold it, which only an unreadable pending file
  allows.
- `Screen` has the same purge in its ledger, which none of its own properties reads.
- `TimetableRight` fires every job at its minute; that a job is dropped when it could not
  start within the grace time is in `BatchProcess`.
- The reconciliation takes its reading and its replacement of the history as one step
  each; a line appended in between is lost. A cycle that dies between an order and its
  record leaves the order unrecorded (`ThFaults` excuses it, as `FireRules` does).
- `ThisYearKnown` not between `clear()` and `update()`, nor for a server installed
  without a cache file (`HdBlank`): it knows the year in the code and no other.
- Caches of quotations: those without a lock (exchange rate, orders, owned codes) may go back
  to an older answer, a request that fails gives the old entry however old, and the requests
  are let go a distance apart but may reach the broker together. `time.time()` is assumed
  not to go back.
- `NoneRevoked`, `RefusedOnce` not after the removal of a lock that belongs to a living
  process (`tsBroken`): two processes may find the same old lock, one removes it and makes
  its own, and the other removes that one. TLC runs one thread in each process; the theorem
  is for any number.
- `PricesTaken`: the band of the day is compared as whole numbers; the floats of the source
  give the same limits for every price on a tick, while the limit of a signal may come out
  one tick lower than the exact product.
- `fire_backtest_regen.py:135` calls the variants `same_day` true and false the two ends
  of a range. The bars (200, 232, 198, 226), (186, 190, 184, 188) after the entry give
  an outcome outside it, so that no property says so. The studies that sell all at once
  sell at the fixed stop price even on a day that opens below it, so that
  `SoldAsTheMarketWas` asks only the rules of the two live accounts for a price the day
  reached from below.
- Of the studies: `cluster_size` of `entry_timing` counts signals after the purchase, though
  its header says "until then"; the "same event" of `deadcat_filter` holds for rises of up
  to five days (`OneEvent`); `base_breakout_study` says it judges by training, but its
  `best` picks the exits by the test; `track_compare` and `entry_threshold` keep suspended
  days, whose low is 0, and count them as stops, where `strategy_matrix` drops them
  (`SuspensionIsNoFall` is about the latter).
- The unique index refuses the list of corrections whole when it gives one new target to
  two rising rows of one code. The script run beside other writers can drop the only row
  of a code, which its docstring says loses nothing; `SignalsRemembered` is about the
  script alone. A row refreshed between the listing and its turn still breaks away.

The server:

- `OrderShownUnlessCaught`: an answer caught in flight by an order is stored after it and
  is old for as long as it lives.
- `StopLeavesOnlyUnknown` leaves out scripts started since the list was made, and those
  of the process pool.
- `StocksShown`, `DashRight`: the list of live gaps says its rule is that of the cycle (`_audit_blocked`,
  `stock.py:1213`), but the cycle blocks an administered stock at any price and the list
  shows those from 1000 won. The stop margin of a card is of the plain price, the engine's
  rate is net of fees (about 0.9 %). A comment of the engine calls `ARMED_GIVEBACK_STOP`
  -3 %; the constant is -6 %.
- `KeywordsRight`: a keyword said once in two spellings ("API", "api") drops out in both.
- `FlagsSettle` says nothing before things settle: a list read before a press but
  arriving after its reply shows the old flag until the next one; the bulk action "add"
  turns off a reservation another page has set. Timers of cards that were drawn anew
  are not modelled.
- `OfItsTranscript`: a v5 run with `--force-stt` that breaks off after a transcript leaves
  the old analysis, and the next plain run shows it for the new transcript, although the
  option says the analysis is made anew. A transcript cut off by a death stays, as an
  error, until `--force-stt`. In "improved" a torn analysis makes every later run fail
  for that file, a checkpoint puts a partial result in the place of the whole one, and
  merging keeps the higher confidence; `DoubtKept` is about v5.
- A write of the chat's state that fails is not repeated before the next change; two
  requests that copy the state before either puts it back lose one change.
- `NothingLostBySearching` is about messages that reached the page. After an absence with
  more new messages than a page holds only the newest page is fetched, which leaves a gap
  in the rows; and a message older than the last one that is there is taken for known when
  the socket brings it late (`chat.js:359`), so that it never fills that gap. The proof
  came upon the second.

Pictures and boards:

- `ShowsItsOwn` excuses a thumbnail made while something else was done with its name, and
  such a one stays: a conversion overtaken by a move, an edit that dies before its
  thumbnail (the time of the file is kept), a small file over a large one (skipped, the
  old thumbnail not removed). `ensure_thumb` has no rule for names that clash, although
  its docstring says the rules are those of the batch.
- `KeptIsWhole` leaves out videos whose poster an upload or a collector makes: these
  take no lock, and a request at the same moment works in the same temporary files.
  `FreshIsOfTheSource` leaves out a source written over while the poster was made, or by
  a file with an older time. A browser keeps a poster for an hour on its own.
- `NoGapWithoutFault`: the AI walker ends at the first registered post, so a failed post, a
  walk cut off after registering a newer one, a new post that moves the pages under a
  walk, and the last page leave older posts uncollected for good. `find_scrap_post` asks
  with LIKE, so an address that begins a registered one counts as registered.
- `RegisteredIsRead`: a COS scroll that ends early because a spinner stands still leaves a
  post partly read yet registered. The log of a day is opened with "w", so that a second
  walk of the day empties what `retry_404_cos` reads. `retry_zero_download` looks for a
  line `scrap_ai` no longer writes in that form, and finds nothing.
- `ListIsDirectory`: names of files that are gone come back into a list when the first page of
  the refined gallery is fetched after a move (the shuffled list keeps the name), when two
  rewritings overlap, and when a scan reads the directory before the job that deletes; a move
  that answers 404 leaves the name; fetching another page than the first rewrites nothing.
- `LikesRight`: the offset of a deleted video stays and goes to the next video moved to that
  name; a deletion strikes the records after the file and without the lock, so that a video
  moved there meanwhile loses its origin; a deletion refused because the file is in use drops
  heart and origin and reports success; a death in a flush leaves moves that a later video of
  that name carries out; an offset reset between the renaming of the file and of its key
  comes back, and so does a heart taken while its migration was put off.
- `WhatPlaysIsCurrent` leaves out a video renamed while it was being started;
  `TryingComesToAnEnd` a frozen picture; `NothingLostBySearching` rows that were replaced
  while a page for them was on its way.

## 6. What is left

The map covers about 31 % of the 44604 lines of Python in the repository, a third of which
are tools of the command line, experiments and old copies. What the
runs check and no theorem states is out of the provers' reach, as said above. Two
things would be new work: a composition of both exits, the buy job and the user over one
account and one ledger (each is now in a module of its own with the others as environment),
and how a page of a site is taken apart.
