------------------------------- MODULE Quotes -------------------------------
(***************************************************************************)
(* The caches of auto_trading/kiwoom_api.py and the requests behind them,  *)
(* and its calendar of holidays, at the end of this module.                *)
(* A thread of the server looks for an entry younger than its TTL and      *)
(* fetches a new one if there is none, for some of the caches under a lock *)
(* of their own; the requests to the broker keep a distance, for which all *)
(* threads wait under one lock.  An entry's stamp is the time at which its *)
(* fetch began.  Times are in ticks, and a tick may pass anywhere.         *)
(***************************************************************************)
EXTENDS Integers

CONSTANTS
  QtThread, QtNobody,
  QtTtl, QtSleep,   \* an entry's life, _RATE_LIMIT_SLEEP
  QtEnd             \* bound: ticks

ASSUME QtAssumption ==
  QtNobody \notin QtThread /\ {QtTtl, QtSleep, QtEnd} \subseteq Nat /\ QtTtl > 0

VARIABLES
  qtKind, qtNow,
  qtEntry,       \* at: its stamp, from: when the first request for it was let go
  qtFetcher,     \* who holds the fetch lock
  qtSpacer,      \* who holds _rate_lock
  qtLast,        \* _last_call_ts
  qtPc, qtLook,  \* a thread, and when it asked
  qtFetch,       \* its fetch: when it began, when its first request was let go, and
                 \* the requests still to be answered
  qtWake,        \* when it may let a request go
  \* what the properties remember; no action reads it
  qtGot,         \* of what a thread was given: when the first request was let go
  qtBegan,       \* when the last fetch that succeeded began
  qtTooSoon      \* two requests were let go too near each other

qtLimit == <<qtSpacer, qtLast, qtWake, qtTooSoon>>
QtVars  == <<qtKind, qtNow, qtEntry, qtFetcher, qtLimit, qtPc, qtLook, qtFetch, qtGot, qtBegan>>

\* before any time that matters, and a stamp that no entry and no thread has
Never   == 0 - QtTtl - QtSleep
NoQuote == [at |-> Never, from |-> Never]
QtTimes == {Never} \cup 0..QtEnd
NoFetch == [start |-> Never, from |-> Never, toGo |-> 0]

\* audit and index: get_stock_audit_info_map and get_market_index_rates, two requests
\* under a fetch lock; fx: get_usd_krw_rate, which asks another server; orders:
\* get_unfilled_orders, and _ranking_amounts and _candle_amount of Toss; owned:
\* get_owned_codes, which keeps a failure as an account without shares
QtKinds  == {"market", "fx", "orders", "owned"}
Locked   == qtKind = "market"
Spaced   == qtKind # "fx"
Requests == IF Locked THEN 2 ELSE 1

QtInit ==
  /\ qtKind \in QtKinds /\ qtNow = 0 /\ qtEntry = NoQuote
  /\ qtFetcher = QtNobody /\ qtSpacer = QtNobody /\ qtLast = Never
  /\ qtPc = [t \in QtThread |-> "idle"] /\ qtFetch = [t \in QtThread |-> NoFetch]
  /\ qtLook = [t \in QtThread |-> Never] /\ qtWake = qtLook /\ qtGot = qtLook
  /\ qtBegan = Never /\ qtTooSoon = FALSE

Tick ==
  /\ qtNow < QtEnd /\ qtNow' = qtNow + 1
  /\ UNCHANGED <<qtKind, qtEntry, qtFetcher, qtLimit, qtPc, qtLook, qtFetch, qtGot, qtBegan>>

Fresh == qtNow - qtEntry.at < QtTtl
Goes(t, to)    == qtPc' = [qtPc EXCEPT ![t] = to]
Given(t, from) == Goes(t, "idle") /\ qtGot' = [qtGot EXCEPT ![t] = from]

\* the fetch begins: its time is taken before the first request
Begins(t) ==
  /\ qtFetch' = [qtFetch EXCEPT ![t] = [start |-> qtNow, from |-> Never, toGo |-> Requests]]
  /\ Goes(t, "call")

(***************************************************************************)
(* The look, under the lock of the cache; for the caches of the market a   *)
(* second one under the fetch lock.                                        *)
(***************************************************************************)
LookUp(t) ==
  /\ qtPc[t] = "idle"
  /\ qtLook' = [qtLook EXCEPT ![t] = qtNow]
  /\ IF Fresh THEN Given(t, qtEntry.from) /\ UNCHANGED qtFetch
     ELSE /\ qtGot' = [qtGot EXCEPT ![t] = Never]
          /\ IF Locked THEN Goes(t, "queue") /\ UNCHANGED qtFetch ELSE Begins(t)
  /\ UNCHANGED <<qtKind, qtNow, qtEntry, qtFetcher, qtLimit, qtBegan>>

LookAgain_Not(t) ==                                              \* mutant
  /\ qtPc[t] = "queue" /\ qtFetcher = QtNobody
  /\ Begins(t) /\ qtFetcher' = t
  /\ UNCHANGED <<qtKind, qtNow, qtEntry, qtLimit, qtLook, qtGot, qtBegan>>
LookAgain(t) ==
  /\ qtPc[t] = "queue" /\ qtFetcher = QtNobody
  /\ IF Fresh THEN Given(t, qtEntry.from) /\ UNCHANGED <<qtFetch, qtFetcher>>
     ELSE Begins(t) /\ qtFetcher' = t /\ UNCHANGED qtGot
  /\ UNCHANGED <<qtKind, qtNow, qtEntry, qtLimit, qtLook, qtBegan>>

(***************************************************************************)
(* _rate_limit_wait: the lock is held while the thread sleeps.             *)
(***************************************************************************)
Sleep_Stamps(t) ==                                               \* mutant
  /\ qtPc[t] = "call" /\ Spaced
  /\ qtWake' = [qtWake EXCEPT ![t] = qtLast + QtSleep] /\ qtLast' = qtNow
  /\ Goes(t, "sleep")
  /\ UNCHANGED <<qtKind, qtNow, qtEntry, qtFetcher, qtSpacer, qtTooSoon, qtLook, qtFetch, qtGot, qtBegan>>
Sleep(t) ==
  /\ qtPc[t] = "call" /\ Spaced /\ qtSpacer = QtNobody
  /\ qtSpacer' = t
  /\ qtWake' = [qtWake EXCEPT ![t] = qtLast + QtSleep]
  /\ Goes(t, "sleep")
  /\ UNCHANGED <<qtKind, qtNow, qtEntry, qtFetcher, qtLast, qtTooSoon, qtLook, qtFetch, qtGot, qtBegan>>

LetGo(t) ==
  /\ \/ /\ qtPc[t] = "sleep" /\ qtNow >= qtWake[t]
        /\ qtLast' = qtNow /\ qtSpacer' = QtNobody /\ qtWake' = [qtWake EXCEPT ![t] = Never]
        /\ qtTooSoon' = (qtTooSoon \/ qtNow < qtLast + QtSleep)
     \/ qtPc[t] = "call" /\ ~Spaced /\ UNCHANGED qtLimit
  /\ qtFetch' = [qtFetch EXCEPT ![t].from = IF @ = Never THEN qtNow ELSE @]
  /\ Goes(t, "asked")
  /\ UNCHANGED <<qtKind, qtNow, qtEntry, qtFetcher, qtLook, qtGot, qtBegan>>

(***************************************************************************)
(* The answer.                                                             *)
(***************************************************************************)
\* the function returns
Returns(t) == /\ qtFetcher' = (IF Locked THEN QtNobody ELSE qtFetcher)
              /\ qtFetch' = [qtFetch EXCEPT ![t] = NoFetch]

\* the last answer: the entry takes the stamp of the fetch
Stored_Now(t) ==                                                 \* mutant
  /\ qtEntry' = [at |-> qtNow, from |-> qtFetch[t].from]
  /\ qtBegan' = qtFetch[t].start /\ Given(t, qtFetch[t].from) /\ Returns(t)
Stored(t) ==
  /\ qtEntry' = [at |-> qtFetch[t].start, from |-> qtFetch[t].from]
  /\ qtBegan' = qtFetch[t].start /\ Given(t, qtFetch[t].from) /\ Returns(t)

Reply(t) ==
  /\ qtPc[t] = "asked"
  /\ IF qtFetch[t].toGo = 1 THEN Stored(t)
     ELSE /\ qtFetch' = [qtFetch EXCEPT ![t].toGo = @ - 1]
          /\ Goes(t, "call") /\ UNCHANGED <<qtEntry, qtBegan, qtGot, qtFetcher>>
  /\ UNCHANGED <<qtKind, qtNow, qtLimit, qtLook>>

\* 429: the request is repeated
Repeat(t) ==
  /\ qtPc[t] = "asked" /\ Spaced /\ Goes(t, "call")
  /\ UNCHANGED <<qtKind, qtNow, qtEntry, qtFetcher, qtLimit, qtLook, qtFetch, qtGot, qtBegan>>

\* The request fails.  market and fx: the entry is given, however old, or nothing;
\* orders: an exception.
FailShown(t) ==
  /\ qtPc[t] = "asked" /\ qtKind # "owned"
  /\ Goes(t, "idle") /\ Returns(t)
  /\ UNCHANGED <<qtKind, qtNow, qtEntry, qtLimit, qtLook, qtGot, qtBegan>>

FailKept(t) ==
  /\ qtPc[t] = "asked" /\ qtKind = "owned"
  /\ qtEntry' = [at |-> qtFetch[t].start, from |-> qtFetch[t].from] /\ Given(t, qtFetch[t].from)
  /\ Returns(t)
  /\ UNCHANGED <<qtKind, qtNow, qtLimit, qtLook, qtBegan>>

QtNext ==
  \/ Tick
  \/ \E t \in QtThread :
       \/ LookUp(t) \/ LookAgain(t) \/ Sleep(t) \/ LetGo(t)
       \/ Reply(t) \/ Repeat(t) \/ FailShown(t) \/ FailKept(t)

QtSpec == QtInit /\ [][QtNext]_QtVars

(***************************************************************************)
(* Properties.                                                             *)
(***************************************************************************)
QtTypeOK ==
  /\ qtKind \in QtKinds /\ qtNow \in 0..QtEnd
  /\ qtEntry \in [at : QtTimes, from : QtTimes]
  /\ {qtFetcher, qtSpacer} \subseteq QtThread \cup {QtNobody}
  /\ {qtLast, qtBegan} \subseteq QtTimes /\ qtTooSoon \in BOOLEAN
  /\ qtPc \in [QtThread -> {"idle", "queue", "call", "sleep", "asked"}]
  /\ {qtLook, qtGot} \subseteq [QtThread -> QtTimes] /\ qtWake \in [QtThread -> Int]
  /\ qtFetch \in [QtThread -> [start : QtTimes, from : QtTimes, toGo : 0..2]]

\* However long the requests took and whoever made them: what a thread is given, unless
\* its own request failed, was asked for less than the TTL before the thread looked.
NoOlderThanItsTtl ==
  \A t \in QtThread : qtGot[t] # Never => qtGot[t] > qtLook[t] - QtTtl

\* The accident of 2026-10-09, three threads that found an entry expired and all
\* fetched it: of the caches with a fetch lock one thread at a time fetches, and only
\* when the last fetch that succeeded began a TTL before.
OneFetch ==
  Locked => \A t \in QtThread : qtPc[t] \in {"call", "sleep", "asked"} =>
              qtFetcher = t /\ qtFetch[t].start >= qtBegan + QtTtl

\* Of those caches nobody has been given a later answer than is in the cache, so what is
\* given never goes back.
NeverBack == Locked => \A t \in QtThread : qtGot[t] <= qtEntry.from

\* Requests to the broker are let go a distance apart, from whichever threads.
KeepDistance == ~qtTooSoon

\* Prices and states are as new as they claim, and got without a burst of requests.
QuotesRight == NoOlderThanItsTtl /\ OneFetch /\ NeverBack /\ KeepDistance

(***************************************************************************)
(* The calendar of exchange holidays that every trading gate reads: a set  *)
(* in memory, replaced in place, with a list of one year in the code and a *)
(* cache file behind it.  A calendar is represented by the years it has    *)
(* the holidays of.                                                        *)
(***************************************************************************)
CONSTANTS
  HdFirst,   \* the year of the list in the code (KRX_HOLIDAYS_2026)
  HdLast,    \* bound: the last year
  HdBlank    \* the server may be installed without a cache file

ASSUME HdAssumption == HdFirst \in Nat /\ HdLast \in Nat /\ HdFirst < HdLast /\ HdBlank \in BOOLEAN

VARIABLES
  hdYear,    \* the current year
  hdKnown,   \* KRX_HOLIDAYS
  hdCache,   \* the cache file
  hdPc,      \* refresh_krx_holidays: "idle", "clear", "update", "save"
  hdNew      \* the calendar it is putting in place

HdVars == <<hdYear, hdKnown, hdCache, hdPc, hdNew>>

Years   == HdFirst..HdLast
Current == {hdYear, hdYear + 1} \cap Years

\* _apply_krx_holiday_cache when the module is loaded
Loaded(cache) == IF cache = {} THEN {HdFirst} ELSE cache

HdInit ==
  /\ hdYear = HdFirst
  /\ hdCache \in SUBSET {HdFirst, HdFirst + 1}
  /\ HdFirst \in hdCache \/ (HdBlank /\ hdCache = {})
  /\ hdKnown = Loaded(hdCache)
  /\ hdPc = "idle" /\ hdNew = {}

\* this year and the next are asked for; either request may fail
Fetched_Replaces(got) ==                                         \* mutant
  /\ hdPc = "idle" /\ got \subseteq Current /\ got # {}
  /\ hdNew' = got
  /\ hdPc' = "clear"
  /\ UNCHANGED <<hdYear, hdKnown, hdCache>>
Fetched(got) ==
  /\ hdPc = "idle" /\ got \subseteq Current /\ got # {}
  /\ hdNew' = hdCache \cup got
  /\ hdPc' = "clear"
  /\ UNCHANGED <<hdYear, hdKnown, hdCache>>

ClearKnown ==
  /\ hdPc = "clear"
  /\ hdKnown' = {} /\ hdPc' = "update"
  /\ UNCHANGED <<hdYear, hdCache, hdNew>>

UpdateKnown ==
  /\ hdPc = "update"
  /\ hdKnown' = hdNew /\ hdPc' = "save"
  /\ UNCHANGED <<hdYear, hdCache, hdNew>>

\* os.replace: the file is the old one or the new one
SaveCache ==
  /\ hdPc = "save"
  /\ hdCache' = hdNew /\ hdNew' = {} /\ hdPc' = "idle"
  /\ UNCHANGED <<hdYear, hdKnown>>

RestartServer ==
  /\ hdKnown' = Loaded(hdCache) /\ hdPc' = "idle" /\ hdNew' = {}
  /\ UNCHANGED <<hdYear, hdCache>>

\* the weekly job has had an answer for the new year by then
NewYear ==
  /\ hdYear < HdLast /\ hdYear + 1 \in hdCache
  /\ hdYear' = hdYear + 1
  /\ UNCHANGED <<hdKnown, hdCache, hdPc, hdNew>>

HdNext ==
  \/ ClearKnown \/ UpdateKnown \/ SaveCache \/ RestartServer \/ NewYear
  \/ \E got \in SUBSET Current : Fetched(got)

HdSpec == HdInit /\ [][HdNext]_HdVars

\* "Never overwrite with an empty value": while requests fail, one by one or all,
\* and the server restarts in the middle of a refresh, the holidays of this year
\* are known, except for the moment between clear() and update().
ThisYearKnown ==
  hdPc # "update" => hdYear \in hdKnown
=============================================================================
