------------------------------- MODULE Screen -------------------------------
(***************************************************************************)
(* The limit prices v8 waits at (auto_trading/kiwoom_v8_strategy.py): the  *)
(* screening of 15:55 adds the day's signals to the pending file and lets  *)
(* the old ones expire, a purchase uses limits up, the buy job computes    *)
(* the day's candidates once and keeps them in the same file.              *)
(*                                                                         *)
(* Two tools of the command line rewrite the file: v9_reprice_pending      *)
(* brings the limits to another depth, v8_pending_backfill puts in the     *)
(* place of the file what the screenings of the last days would have left. *)
(* All of these run after the close, when the prices of the day are final. *)
(***************************************************************************)
EXTENDS Integers, FiniteSets

CONSTANTS
  ScCode,
  ScClose,          \* the closing prices a code may have
  ScDepths,         \* what DEPTH may be, in tenths
  VALID_DAYS, ORDER_LEDGER_TTL,
  ScBack,           \* the days a backfill replays
  ScDays, ScReruns  \* bounds: days, and screenings beyond one a day

ASSUME ScAssumption ==
  /\ {VALID_DAYS, ORDER_LEDGER_TTL, ScDays, ScReruns} \subseteq Nat
  /\ ScClose \subseteq Nat \ {0} /\ ScDepths \subseteq 1..9 /\ ScDepths # {}
  /\ ScBack \in Nat /\ ScBack > VALID_DAYS

NoSignal == 0
NoDate   == 0
ScEntry  == [limit : Nat, age : 0..VALID_DAYS, close : ScClose]
ScNone   == [c \in ScCode |-> {}]
NotKept  == [on |-> NoDate, price |-> [c \in ScCode |-> 0], prev |-> [c \in ScCode |-> 0]]

VARIABLES
  scDay, scDepth,
  scSignal,     \* for each day the closing price of each code with a signal
  scUniverse,   \* universe_codes
  \* the pending file
  scLimits,     \* pending: the set of entries of each code
  scOrdered,    \* ordered: since when
  scAgedOn,     \* aged_on
  scCache,      \* day: the candidates of the day, their order prices and closes before
  \* the broker
  scHeld,
  \* the screening
  scJob,        \* "idle", "running"
  scReruns,
  \* what the properties remember; no action reads it
  scScreened,   \* the day of the last screening
  scOwn         \* codes whose limits are not of screenings alone

scFile  == <<scLimits, scOrdered, scAgedOn, scCache>>
scWorld == <<scDay, scDepth, scSignal, scUniverse, scHeld>>
ScVars  == <<scWorld, scFile, scJob, scReruns, scScreened, scOwn>>

ScInit ==
  /\ scDay = 1 /\ scDepth = CHOOSE d \in ScDepths : TRUE
  /\ scSignal \in [{1} -> [ScCode -> ScClose \cup {NoSignal}]]
  /\ scUniverse = ScCode
  /\ scLimits = ScNone /\ scOrdered = [c \in ScCode |-> NoDate] /\ scAgedOn = NoDate
  /\ scCache = NotKept /\ scHeld = {} /\ scJob = "idle" /\ scReruns = 0
  /\ scScreened = NoDate /\ scOwn = {}

(***************************************************************************)
(* The prices the exchange takes: multiples of a tick that grows with the  *)
(* price, within thirty per cent of the close before.  A price that is to  *)
(* be rounded is given in tenths of a won.                                 *)
(***************************************************************************)
TickSize(tenths) ==
  IF tenths < 20000 THEN 1 ELSE IF tenths < 50000 THEN 5 ELSE IF tenths < 200000 THEN 10
  ELSE IF tenths < 500000 THEN 50 ELSE IF tenths < 2000000 THEN 100
  ELSE IF tenths < 5000000 THEN 500 ELSE 1000

RoundTick(tenths) == (tenths \div (10 * TickSize(tenths))) * TickSize(tenths)
CeilTick(tenths)  == ((tenths + 10 * TickSize(tenths) - 1) \div (10 * TickSize(tenths))) * TickSize(tenths)

LowerLimit(prev) == CeilTick(7 * prev)
UpperLimit_Ceil(prev) == CeilTick(13 * prev)                     \* mutant
UpperLimit(prev) == RoundTick(13 * prev)

\* clamp_to_band: 0, no order, below the band; CLAMP_TO_BAND is off
Clamped(limit, prev) ==
  IF limit < LowerLimit(prev) THEN 0
  ELSE IF limit > UpperLimit(prev) THEN UpperLimit(prev) ELSE limit

(***************************************************************************)
(* The limits of one code.                                                 *)
(***************************************************************************)
\* _round_tick(close * (1 - DEPTH))
LimitAt(close, depth) == RoundTick(close * (10 - depth))

Aged(entries)    == {[e EXCEPT !.age = @ + 1] : e \in entries}
Expired(entries) == {e \in entries : e.age > VALID_DAYS}

\* the VALID_DAYS + 2 youngest entries
Youngest(entries) ==
  IF Cardinality(entries) <= VALID_DAYS + 2 THEN entries
  ELSE CHOOSE kept \in SUBSET entries :
         /\ Cardinality(kept) = VALID_DAYS + 2
         /\ \A e \in kept, d \in entries \ kept : e.age <= d.age

\* A signal at a limit that waits already makes it young again.
Signalled(entries, close, depth) ==
  LET limit == LimitAt(close, depth)
      same  == {e \in entries : e.limit = limit} IN
  IF close = NoSignal THEN entries
  ELSE IF same # {} THEN (entries \ same) \cup {[e EXCEPT !.age = 0] : e \in same}
  ELSE Youngest(entries \cup {[limit |-> limit, age |-> 0, close |-> close]})

\* one day of the screening for one code
Merged(c, entries, close, depth, ages) ==
  LET grown == IF ages THEN Aged(entries) ELSE entries IN
  Signalled(IF c \in scUniverse THEN grown \ Expired(grown) ELSE {},
            IF c \in scUniverse THEN close ELSE NoSignal, depth)

\* active_limit
Active(entries) ==
  IF entries = {} THEN 0
  ELSE CHOOSE l \in {e.limit : e \in entries} : \A e \in entries : e.limit <= l

(***************************************************************************)
(* run_v8_screen.                                                          *)
(***************************************************************************)
BeginScreen ==
  /\ scJob = "idle" /\ (scScreened = scDay => scReruns < ScReruns)
  /\ scJob' = "running"
  /\ scReruns' = IF scScreened = scDay THEN scReruns + 1 ELSE scReruns
  /\ UNCHANGED <<scWorld, scFile, scScreened, scOwn>>

\* The ages grow in the first screening of a day only.
Ages_EveryTime == TRUE                                           \* mutant
Ages == scAgedOn # scDay

Screened ==
  /\ scJob = "running" /\ scJob' = "idle"
  /\ scLimits' = [c \in ScCode |-> Merged(c, scLimits[c], scSignal[scDay][c], scDepth, Ages)]
  /\ scOrdered' = [c \in ScCode |->
       IF scDay - scOrdered[c] > ORDER_LEDGER_TTL THEN NoDate ELSE scOrdered[c]]
  /\ scAgedOn' = scDay /\ scScreened' = scDay
  /\ scCache' = NotKept
  /\ UNCHANGED <<scWorld, scReruns, scOwn>>

\* an exception, or a restart: nothing has been saved
ScreenDies ==
  /\ scJob = "running" /\ scJob' = "idle" /\ scReruns < ScReruns
  /\ scReruns' = scReruns + 1
  /\ UNCHANGED <<scWorld, scFile, scScreened, scOwn>>

(***************************************************************************)
(* The next day.                                                           *)
(***************************************************************************)
NextDay(signal) ==
  /\ scJob = "idle" /\ scDay < ScDays
  /\ scDay' = scDay + 1
  /\ scSignal' = [d \in 1..scDay + 1 |-> IF d <= scDay THEN scSignal[d] ELSE signal]
  /\ scOwn' = IF scScreened = scDay THEN scOwn ELSE ScCode
  /\ UNCHANGED <<scDepth, scUniverse, scHeld, scFile, scJob, scReruns, scScreened>>

\* the list of listed shares is fetched anew
Delisted(c) ==
  /\ scJob = "idle" /\ c \in scUniverse
  /\ scUniverse' = scUniverse \ {c} /\ scOwn' = scOwn \cup {c}
  /\ UNCHANGED <<scDay, scDepth, scSignal, scHeld, scFile, scJob, scReruns, scScreened>>

(***************************************************************************)
(* The session: daily_candidates, _mark_ordered, consume_limits and        *)
(* release_ordered.                                                        *)
(***************************************************************************)
\* _features_now leaves out halted codes, stale data and prices below the band
Candidates(skipped, prev) ==
  /\ scJob = "idle" /\ scCache.on # scDay
  /\ scCache' = [on |-> scDay, prev |-> prev,
                 price |-> [c \in ScCode |->
                   IF c \in skipped THEN 0 ELSE Clamped(Active(scLimits[c]), prev[c])]]
  /\ UNCHANGED <<scWorld, scLimits, scOrdered, scAgedOn, scJob, scReruns, scScreened, scOwn>>

OrderAt(c) ==
  /\ scJob = "idle" /\ scCache.on = scDay /\ scCache.price[c] > 0 /\ scOrdered[c] = NoDate
  /\ scOrdered' = [scOrdered EXCEPT ![c] = scDay]
  /\ UNCHANGED <<scWorld, scLimits, scAgedOn, scCache, scJob, scReruns, scScreened, scOwn>>

\* A lower limit stays waiting.
Bought_KeepsCache(c, fill) ==                                    \* mutant
  /\ scJob = "idle" /\ scOrdered[c] # NoDate /\ c \notin scHeld
  /\ scHeld' = scHeld \cup {c} /\ scOwn' = scOwn \cup {c}
  /\ scLimits' = [scLimits EXCEPT ![c] = {e \in @ : e.limit < fill}]
  /\ UNCHANGED <<scDay, scDepth, scSignal, scUniverse, scOrdered, scAgedOn, scJob, scReruns,
                 scScreened, scCache>>
Bought(c, fill) ==
  /\ scJob = "idle" /\ scOrdered[c] # NoDate /\ c \notin scHeld
  /\ scHeld' = scHeld \cup {c} /\ scOwn' = scOwn \cup {c}
  /\ scLimits' = [scLimits EXCEPT ![c] = {e \in @ : e.limit < fill}]
  /\ scCache' = IF scLimits' = scLimits THEN scCache ELSE NotKept
  /\ UNCHANGED <<scDay, scDepth, scSignal, scUniverse, scOrdered, scAgedOn, scJob, scReruns,
                 scScreened>>

Sold(c) ==
  /\ scJob = "idle" /\ c \in scHeld
  /\ scHeld' = scHeld \ {c} /\ scOrdered' = [scOrdered EXCEPT ![c] = NoDate]
  /\ UNCHANGED <<scDay, scDepth, scSignal, scUniverse, scLimits, scAgedOn, scCache, scJob,
                 scReruns, scScreened, scOwn>>

(***************************************************************************)
(* The tools.                                                              *)
(***************************************************************************)
\* v9_reprice_pending --apply, after DEPTH was changed
Reprice(depth) ==
  /\ scJob = "idle" /\ depth # scDepth /\ scDepth' = depth
  /\ scLimits' = [c \in ScCode |->
                    {[e EXCEPT !.limit = LimitAt(e.close, depth)] : e \in scLimits[c]}]
  /\ scOwn' = ScCode /\ scCache' = NotKept
  /\ UNCHANGED <<scDay, scSignal, scUniverse, scHeld, scOrdered, scAgedOn, scJob, scReruns,
                 scScreened>>

\* replay: the last ScBack days up to the last one screened
Replay(c, last) ==
  LET first == IF last > ScBack THEN last - ScBack + 1 ELSE 1
      left[d \in first - 1 .. last] ==
        IF d < first THEN {} ELSE Merged(c, left[d - 1], scSignal[d][c], scDepth, TRUE)
  IN left[last]

\* v8_pending_backfill --apply
Backfill ==
  /\ scJob = "idle"
  /\ scLimits' = [c \in ScCode |-> Replay(c, scDay)]
  /\ scAgedOn' = scDay /\ scCache' = NotKept
  /\ scScreened' = scDay /\ scOwn' = {}
  /\ UNCHANGED <<scWorld, scOrdered, scJob, scReruns>>

ScNext ==
  \/ BeginScreen \/ Screened \/ ScreenDies \/ Backfill
  \/ \E skipped \in SUBSET ScCode, prev \in [ScCode -> ScClose] : Candidates(skipped, prev)
  \/ \E signal \in [ScCode -> ScClose \cup {NoSignal}] : NextDay(signal)
  \/ \E c \in ScCode : Delisted(c) \/ OrderAt(c) \/ Sold(c)
  \/ \E c \in ScCode, p \in ScClose :
       Bought(c, LimitAt(p, scDepth)) \/ Bought(c, UpperLimit(p))
  \/ \E depth \in ScDepths : Reprice(depth)

ScSpec == ScInit /\ [][ScNext]_ScVars

(***************************************************************************)
(* Properties.                                                             *)
(***************************************************************************)
ScTypeOK ==
  /\ scDay \in 1..ScDays /\ scLimits \in [ScCode -> SUBSET ScEntry]
  /\ scAgedOn \in NoDate..scDay /\ scCache.on \in NoDate..scDay

\* run_v8_screen, "the age was counted twice": however often the screening of a day
\* dies or is run again, what it leaves is what one screening of every day would
\* leave, which is what the backfill computes.
LiveIsReplay ==
  \A c \in ScCode \ scOwn :
    scScreened # NoDate => scLimits[c] = Replay(c, scScreened)

\* daily_candidates: the prices kept for the day are those of limits that wait.
CacheFresh ==
  scCache.on = scDay => \A c \in ScCode :
    scCache.price[c] \in {0, Clamped(Active(scLimits[c]), scCache.prev[c])}

\* "An order below the lower limit is refused", and one above the upper: with any
\* fall since the signal the orders of the day are on a tick and within the band, and
\* none is dearer than the limit.
Taken(price, limit, prev) ==
  /\ price % TickSize(10 * price) = 0
  /\ 7 * prev <= 10 * price /\ 10 * price <= 13 * prev /\ price <= limit
PricesTaken ==
  scCache.on = scDay => \A c \in ScCode :
    scCache.price[c] # 0 => Taken(scCache.price[c], Active(scLimits[c]), scCache.prev[c])

\* The limits of the file, and the prices the orders are made with, are those of the rules.
ScreenRight == LiveIsReplay /\ CacheFresh /\ PricesTaken
=============================================================================
