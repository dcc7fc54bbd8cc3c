------------------------------ MODULE Dashboard ------------------------------
(***************************************************************************)
(* The account page and the cards of the stocks (app/stock.py with         *)
(* interesting_stocks.html): the answers of the broker that all browsers   *)
(* share, the flags on the cards, and what a holding's card and the list   *)
(* of live gaps say of the engines that trade.                             *)
(***************************************************************************)
EXTENDS Integers, Sequences, FiniteSets, SequencesExt

(***************************************************************************)
(* The shared cache of the dashboard, app/stock.py: the requests of all    *)
(* browsers for the holdings and the open orders of an account share one   *)
(* call to the broker for as long as DASH_CACHE_TTL, and an order by hand *)
(* empties the cache.  What the broker answers is the number of orders it  *)
(* has accepted so far.                                                    *)
(***************************************************************************)
CONSTANTS
  DcThread,                  \* the threads of the web server
  DASH_CACHE_TTL,
  DcOrders, DcFaults         \* bounds

DcKeys == {"holdings", "unfilled"}
NoThread == "none"

ASSUME DcAssumption ==
  {DASH_CACHE_TTL, DcOrders, DcFaults} \subseteq Nat /\ NoThread \notin DcThread

Empty    == [value |-> -1, age |-> 0]

VARIABLES
  dcAccount,   \* orders the broker has accepted
  dcCache,     \* _DASH_CACHE: [value, age]; Empty
  dcLock,      \* _DASH_CACHE_LOCKS: the thread that holds the lock of a key
  dcAt,        \* where a thread is: "idle", "look", "wait", "again", "fetch", "store",
               \* "drop" (an order accepted, the cache not yet emptied)
  dcKey,       \* the key it is at
  dcOuter,     \* it looks for open orders while it builds the holdings
  dcGot,       \* what the broker has answered it: of each key
  dcFaulted,
  \* what the properties remember
  dcTold,      \* orders whose request had been answered when the thread's began
  dcAnswered,  \* orders whose request has been answered
  dcCaught     \* keys that were being fetched when an order emptied the cache

dcThreads == <<dcAt, dcKey, dcOuter, dcGot>>
dcMemory  == <<dcTold, dcAnswered, dcCaught>>
DcVars    == <<dcAccount, dcCache, dcLock, dcThreads, dcFaulted, dcMemory>>

DcInit ==
  /\ dcAccount = 0 /\ dcCache = [k \in DcKeys |-> Empty] /\ dcLock = [k \in DcKeys |-> NoThread]
  /\ dcAt = [t \in DcThread |-> "idle"] /\ dcKey = [t \in DcThread |-> "holdings"]
  /\ dcOuter = [t \in DcThread |-> FALSE] /\ dcGot = [t \in DcThread |-> [k \in DcKeys |-> -1]]
  /\ dcFaulted = 0
  /\ dcTold = [t \in DcThread |-> 0] /\ dcAnswered = 0 /\ dcCaught = {}

Fresh(k) == dcCache[k] # Empty /\ dcCache[k].age < DASH_CACHE_TTL
GoTo(t, place) == dcAt' = [dcAt EXCEPT ![t] = place]

\* Time passes; an entry that is too old stays until the next one takes its place.
DcTick ==
  /\ dcCache' = [k \in DcKeys |-> IF Fresh(k) THEN [dcCache[k] EXCEPT !.age = @ + 1] ELSE dcCache[k]]
  /\ UNCHANGED <<dcAccount, dcLock, dcThreads, dcFaulted, dcMemory>>

(***************************************************************************)
(* _dash_cached                                                            *)
(***************************************************************************)
\* The value is there for the caller: the request is answered, or, inside the building
\* of the holdings, the open orders are known.
Returns(t, k, value) ==
  /\ dcGot' = [dcGot EXCEPT ![t][k] = value]
  /\ IF dcOuter[t]
     THEN /\ dcOuter' = [dcOuter EXCEPT ![t] = FALSE] /\ dcKey' = [dcKey EXCEPT ![t] = "holdings"]
          /\ GoTo(t, "store")
     ELSE GoTo(t, "idle") /\ UNCHANGED <<dcOuter, dcKey>>

\* get_kiwoom_holdings, get_kiwoom_orders
Request(t, k) ==
  /\ dcAt[t] = "idle" /\ GoTo(t, "look")
  /\ dcKey' = [dcKey EXCEPT ![t] = k] /\ dcTold' = [dcTold EXCEPT ![t] = dcAnswered]
  /\ dcGot' = [dcGot EXCEPT ![t] = [q \in DcKeys |-> -1]]
  /\ UNCHANGED <<dcAccount, dcCache, dcLock, dcOuter, dcFaulted, dcAnswered, dcCaught>>

Look(t) ==
  LET k == dcKey[t] IN
  /\ dcAt[t] = "look"
  /\ IF Fresh(k) THEN Returns(t, k, dcCache[k].value)
     ELSE GoTo(t, "wait") /\ UNCHANGED <<dcKey, dcOuter, dcGot>>
  /\ UNCHANGED <<dcAccount, dcCache, dcLock, dcFaulted, dcMemory>>

TakeLock(t) ==
  LET k == dcKey[t] IN
  /\ dcAt[t] = "wait" /\ dcLock[k] = NoThread
  /\ dcLock' = [dcLock EXCEPT ![k] = t] /\ GoTo(t, "again")
  /\ UNCHANGED <<dcAccount, dcCache, dcKey, dcOuter, dcGot, dcFaulted, dcMemory>>

\* another thread may have brought it while this one waited
LookAgain(t) ==
  LET k == dcKey[t] IN
  /\ dcAt[t] = "again"
  /\ IF Fresh(k) THEN Returns(t, k, dcCache[k].value) /\ dcLock' = [dcLock EXCEPT ![k] = NoThread]
     ELSE GoTo(t, "fetch") /\ UNCHANGED <<dcKey, dcOuter, dcGot, dcLock>>
  /\ UNCHANGED <<dcAccount, dcCache, dcFaulted, dcMemory>>

\* _build_holdings_payload reads the holdings and then needs the open orders;
\* get_unfilled_orders is one call.
Fetch(t) ==
  LET k == dcKey[t] IN
  /\ dcAt[t] = "fetch"
  /\ dcGot' = [dcGot EXCEPT ![t][k] = dcAccount]
  /\ IF k = "holdings"
     THEN /\ dcKey' = [dcKey EXCEPT ![t] = "unfilled"] /\ dcOuter' = [dcOuter EXCEPT ![t] = TRUE]
          /\ GoTo(t, "look")
     ELSE GoTo(t, "store") /\ UNCHANGED <<dcKey, dcOuter>>
  /\ UNCHANGED <<dcAccount, dcCache, dcLock, dcFaulted, dcMemory>>

\* a failure is not cached: the request fails, the holdings do without the open orders
FetchFails(t) ==
  LET k == dcKey[t] IN
  /\ dcAt[t] = "fetch" /\ dcFaulted < DcFaults /\ dcFaulted' = dcFaulted + 1
  /\ dcLock' = [dcLock EXCEPT ![k] = NoThread]
  /\ Returns(t, k, -1)
  /\ UNCHANGED <<dcAccount, dcCache, dcMemory>>

Store(t) ==
  LET k == dcKey[t] IN
  /\ dcAt[t] = "store"
  /\ dcCache' = [dcCache EXCEPT ![k] = [value |-> dcGot[t][k], age |-> 0]]
  /\ dcLock' = [dcLock EXCEPT ![k] = NoThread]
  /\ Returns(t, k, dcGot[t][k])
  /\ UNCHANGED <<dcAccount, dcFaulted, dcMemory>>

(***************************************************************************)
(* post_kiwoom_buy, _sell, _cancel_order, _cancel_all_orders: the broker   *)
(* is asked, then the cache is emptied.                                    *)
(***************************************************************************)
Order(t) ==
  /\ dcAt[t] = "idle" /\ dcAccount < DcOrders /\ dcAccount' = dcAccount + 1
  /\ GoTo(t, "drop")
  /\ UNCHANGED <<dcCache, dcLock, dcKey, dcOuter, dcGot, dcFaulted, dcMemory>>

Invalidated_Holdings == [dcCache EXCEPT !["holdings"] = Empty]   \* mutant
Invalidated == [k \in DcKeys |-> Empty]

Fetching(t) ==
  (IF dcOuter[t] THEN {"holdings"} ELSE {}) \cup
    (IF dcAt[t] \in {"fetch", "store"} THEN {dcKey[t]} ELSE {})

Invalidate(t) ==
  /\ dcAt[t] = "drop" /\ GoTo(t, "idle")
  /\ dcCache' = Invalidated
  /\ dcAnswered' = dcAccount
  /\ dcCaught' = dcCaught \cup UNION {Fetching(s) : s \in DcThread}
  /\ UNCHANGED <<dcAccount, dcLock, dcKey, dcOuter, dcGot, dcFaulted, dcTold>>

DcNext ==
  \/ DcTick
  \/ \E t \in DcThread :
       \/ \E k \in DcKeys : Request(t, k)
       \/ Look(t) \/ TakeLock(t) \/ LookAgain(t) \/ Fetch(t) \/ FetchFails(t) \/ Store(t)
       \/ Order(t) \/ Invalidate(t)

DcSpec == DcInit /\ [][DcNext]_DcVars

(***************************************************************************)
(* Properties.                                                             *)
(***************************************************************************)
\* "So that a refresh right after an order does not get holdings two seconds old": an
\* answer to a request that began after an order's contains the order, unless the
\* answer was being fetched when the order emptied the cache: its thread stores it
\* afterwards, and it is old for as long as it lives.
OrderShownUnlessCaught ==
  \A t \in DcThread : dcAt[t] = "idle" =>
    \A k \in DcKeys \ dcCaught : dcGot[t][k] # -1 => dcGot[t][k] >= dcTold[t]

\* "The number of calls is fixed at that of one browser": a thread only calls the
\* broker when no other has brought a fresh answer, in however many steps they
\* overlap, so within the time an answer lives there is one call for each key.
NoCallForWhatIsThere ==
  [][\A t \in DcThread : dcAt[t] = "fetch" /\ dcAt'[t] # "fetch" => ~Fresh(dcKey[t])]_DcVars

(***************************************************************************)
(* The check marks of the cards: which codes the user reserved for the     *)
(* automatic purchase, and likewise the favourites.  The server turns a    *)
(* flag over, whatever the page that asks believes it is, and answers with *)
(* the flag that results.  A page keeps a list of the set flags, draws it  *)
(* on the buttons of several panels, and replaces it by the server's list  *)
(* on a timer, on a change of cards and on its return to the front.        *)
(*                                                                         *)
(* Pages are browsers of one user, so another one may have turned a flag   *)
(* in between.  The module follows one code; a bulk request is its request *)
(* among those of others.                                                  *)
(***************************************************************************)
CONSTANTS
  FlPage,
  FlPanel,             \* panels that show a button of the code
  FlPresses, FlFaults  \* bounds on what the user presses and on failing requests

ASSUME FlAssumption == {FlPresses, FlFaults} \subseteq Nat

VARIABLES
  flFront,     \* the pages in front, ~document.hidden
  flServer,    \* the flag in the table
  flCache,     \* reservedStocks of each page, as: is the code in it
  flShown,     \* data-reserved of each button
  flAsk,       \* the request of each button: "none", "sent", then what the server answered
  flBulk,      \* the request of the buttons for all: what it is and how far it is
  flSync,      \* stockFlagSyncInFlight: "none", "sent" or the list read
  flPresses, flFaults

FlVars == <<flFront, flServer, flCache, flShown, flAsk, flBulk, flSync, flPresses, flFaults>>

None == "none"
Sent == "sent"
Answers == {"on", "off", "error"}
On(flag) == IF flag THEN "on" ELSE "off"

FlInit ==
  /\ flFront = {} /\ flServer = FALSE
  /\ flCache = [p \in FlPage |-> FALSE]
  /\ flShown = [p \in FlPage |-> [b \in FlPanel |-> FALSE]]
  /\ flAsk = [p \in FlPage |-> [b \in FlPanel |-> None]]
  /\ flBulk = [p \in FlPage |-> [what |-> None, is |-> None]]
  /\ flSync = [p \in FlPage |-> None]
  /\ flPresses = 0 /\ flFaults = 0

Pressed == flPresses < FlPresses /\ flPresses' = flPresses + 1

\* A page comes to the front or leaves it; its list and its buttons stay as they are.
Turn(p) ==
  /\ Pressed
  /\ flFront' = IF p \in flFront THEN flFront \ {p} ELSE flFront \cup {p}
  /\ UNCHANGED <<flServer, flCache, flShown, flAsk, flBulk, flSync, flFaults>>

\* The button is disabled while its request is under way.
Disabled(p, b) == flAsk[p][b] # None

\* applyStockFlagState over the list of the page, after button done was enabled again.
Applied_OnlyOn(p, cache, done) ==                                \* mutant
  [b \in FlPanel |-> IF Disabled(p, b) /\ b # done THEN flShown[p][b] ELSE flShown[p][b] \/ cache]
Applied(p, cache, done) ==
  [b \in FlPanel |-> IF Disabled(p, b) /\ b # done THEN flShown[p][b] ELSE cache]

(***************************************************************************)
(* onReserveButtonClick: drawn turned over at once, right with the answer. *)
(***************************************************************************)
Press(p, b) ==
  /\ Pressed /\ p \in flFront /\ ~Disabled(p, b)
  /\ flShown' = [flShown EXCEPT ![p][b] = ~@]
  /\ flAsk' = [flAsk EXCEPT ![p][b] = Sent]
  /\ UNCHANGED <<flFront, flServer, flCache, flBulk, flSync, flFaults>>

\* upsert_reserved_stocks.
Turned(flag) == ~flag

Handle(p, b) ==
  /\ flAsk[p][b] = Sent
  /\ flServer' = Turned(flServer) /\ flAsk' = [flAsk EXCEPT ![p][b] = On(flServer')]
  /\ UNCHANGED <<flFront, flCache, flShown, flBulk, flSync, flPresses, flFaults>>

\* A request that never arrives, or an answer that does not: the page cannot tell.
Fail(p, b) ==
  /\ flAsk[p][b] \notin {None, "error"}
  /\ flFaults < FlFaults /\ flFaults' = flFaults + 1
  /\ flAsk' = [flAsk EXCEPT ![p][b] = "error"]
  /\ UNCHANGED <<flFront, flServer, flCache, flShown, flBulk, flSync, flPresses>>

Reply(p, b) ==
  /\ flAsk[p][b] \in Answers
  /\ flCache' = [flCache EXCEPT ![p] = IF flAsk[p][b] = "error" THEN @ ELSE flAsk[p][b] = "on"]
  /\ flAsk' = [flAsk EXCEPT ![p][b] = None]
  /\ flShown' = [flShown EXCEPT ![p] = Applied(p, flCache'[p], b)]
  /\ UNCHANGED <<flFront, flServer, flBulk, flSync, flPresses, flFaults>>

(***************************************************************************)
(* The button that clears all reservations, and the one that reserves all  *)
(* recommended codes not in the list: it turns them over as well.          *)
(***************************************************************************)
PressBulk(p, what) ==
  /\ Pressed /\ p \in flFront /\ flBulk[p].is = None
  /\ what = "clear" => flCache[p]
  /\ what = "add"   => ~flCache[p]
  /\ flBulk' = [flBulk EXCEPT ![p] = [what |-> what, is |-> Sent]]
  /\ UNCHANGED <<flFront, flServer, flCache, flShown, flAsk, flSync, flFaults>>

HandleBulk(p) ==
  /\ flBulk[p].is = Sent
  /\ flServer' = IF flBulk[p].what = "clear" THEN FALSE ELSE Turned(flServer)
  /\ flBulk' = [flBulk EXCEPT ![p].is = On(flServer')]
  /\ UNCHANGED <<flFront, flCache, flShown, flAsk, flSync, flPresses, flFaults>>

FailBulk(p) ==
  /\ flBulk[p].is \notin {None, "error"}
  /\ flFaults < FlFaults /\ flFaults' = flFaults + 1
  /\ flBulk' = [flBulk EXCEPT ![p].is = "error"]
  /\ UNCHANGED <<flFront, flServer, flCache, flShown, flAsk, flSync, flPresses>>

\* Clearing draws every set button as not set, a disabled one too.
ReplyBulk(p) ==
  LET bulk == flBulk[p]
  IN /\ bulk.is \in Answers
     /\ flBulk' = [flBulk EXCEPT ![p] = [what |-> None, is |-> None]]
     /\ CASE bulk.is = "error" /\ bulk.what = "clear" -> UNCHANGED <<flCache, flShown>>
          [] bulk.is # "error" /\ bulk.what = "clear" ->
               /\ flCache' = [flCache EXCEPT ![p] = FALSE]
               /\ flShown' = [flShown EXCEPT ![p] = [b \in FlPanel |-> FALSE]]
          [] OTHER ->
               /\ flCache' = [flCache EXCEPT ![p] = @ \/ bulk.is = "on"]
               /\ flShown' = [flShown EXCEPT ![p] = Applied(p, flCache'[p], 0)]
     /\ UNCHANGED <<flFront, flServer, flAsk, flSync, flPresses, flFaults>>

(***************************************************************************)
(* syncStockFlagsFromServer, one at a time: a list that cannot be read     *)
(* leaves the old one.                                                     *)
(***************************************************************************)
Sync(p) ==
  /\ p \in flFront /\ flSync[p] = None /\ flSync' = [flSync EXCEPT ![p] = Sent]
  /\ UNCHANGED <<flFront, flServer, flCache, flShown, flAsk, flBulk, flPresses, flFaults>>

ReadList(p) ==
  /\ flSync[p] = Sent /\ flSync' = [flSync EXCEPT ![p] = On(flServer)]
  /\ UNCHANGED <<flFront, flServer, flCache, flShown, flAsk, flBulk, flPresses, flFaults>>

FailList(p) ==
  /\ flSync[p] \notin {None, "error"}
  /\ flFaults < FlFaults /\ flFaults' = flFaults + 1
  /\ flSync' = [flSync EXCEPT ![p] = "error"]
  /\ UNCHANGED <<flFront, flServer, flCache, flShown, flAsk, flBulk, flPresses>>

Synced(p) ==
  /\ flSync[p] \in Answers
  /\ flCache' = [flCache EXCEPT ![p] = IF flSync[p] = "error" THEN @ ELSE flSync[p] = "on"]
  /\ flShown' = [flShown EXCEPT ![p] = Applied(p, flCache'[p], 0)]
  /\ flSync' = [flSync EXCEPT ![p] = None]
  /\ UNCHANGED <<flFront, flServer, flAsk, flBulk, flPresses, flFaults>>

Served(p) == \E b \in FlPanel : Handle(p, b) \/ Reply(p, b)

FlNext ==
  \E p \in FlPage :
    \/ \E b \in FlPanel : Press(p, b) \/ Handle(p, b) \/ Fail(p, b) \/ Reply(p, b)
    \/ Turn(p)
    \/ \E what \in {"clear", "add"} : PressBulk(p, what)
    \/ HandleBulk(p) \/ FailBulk(p) \/ ReplyBulk(p)
    \/ Sync(p) \/ ReadList(p) \/ FailList(p) \/ Synced(p)

\* Requests are answered or given up, and a page in front asks for the list every minute.
FlFairness ==
  \A p \in FlPage :
    /\ WF_FlVars(Served(p)) /\ WF_FlVars(HandleBulk(p) \/ ReplyBulk(p))
    /\ WF_FlVars(Sync(p)) /\ WF_FlVars(ReadList(p) \/ Synced(p))

FlSpec == FlInit /\ [][FlNext]_FlVars /\ FlFairness

----------------------------------------------------------------------------
\* Whatever was pressed where, lost or answered in which order: once the user lets the
\* pages be, each one in front comes to show on all its buttons what the server will buy by.
ShownAsReserved == \A p \in flFront, b \in FlPanel : flShown[p][b] = flServer

FlagsSettle == <>[]ShownAsReserved

(***************************************************************************)
(* What the page says of the engines: the card of a holding, with the      *)
(* state of the engine that is to sell it, and the list of the candidates  *)
(* by their live gaps, which is kept in a file for other devices.  A       *)
(* holding was bought at 1000; rates are in thousandths, and the broker's  *)
(* are less the fees and the tax of a sale.                                *)
(***************************************************************************)
CONSTANTS
  CdCases,      \* holdings [v8, legacy, cur], each file's entry or CdNothing, with what the
                \* file of the strategy holds: [date, cands]
  CdNothing,
  CdFees,
  STOP_LOSS_RATE, ARMED_GIVEBACK_STOP, TRAIL_ACTIVATE_RATE,
  CdTop,        \* top_n
  CdCeiling     \* _ADMIN_ISSUE_PRICE_CEILING

ASSUME CdAssumption ==
  /\ {CdFees, STOP_LOSS_RATE, ARMED_GIVEBACK_STOP, TRAIL_ACTIVATE_RATE, CdTop, CdCeiling} \subseteq Nat
  /\ \A case \in CdCases : case.hold.cur \in Nat

VARIABLES
  cdHold,      \* the holding
  cdCard,      \* its card
  cdDay,       \* state['day'] of the strategy, with the prices that are asked
  cdClock,     \* "weekend", "before", "open", "after"
  cdList,      \* the list that was shown last, with the reason when it is empty
  cdKept       \* kiwoom_v8_live_gap_cache.json

CdVars == <<cdHold, cdCard, cdDay, cdClock, cdList, cdKept>>

CdCase(case) == cdHold = case.hold /\ cdDay = case.day

CdInit ==
  /\ \E case \in CdCases : CdCase(case)
  /\ cdCard = CdNothing /\ cdClock \in {"weekend", "before", "open", "after"}
  /\ cdList = CdNothing /\ cdKept = CdNothing

\* _legacy_holding_state: a trail that was armed moves the stop
StopLevel_Narrow(p) ==                                           \* mutant
  IF p.peak_rate >= TRAIL_ACTIVATE_RATE THEN ARMED_GIVEBACK_STOP \div 2 ELSE STOP_LOSS_RATE
StopLevel(p) == IF p.peak_rate >= TRAIL_ACTIVATE_RATE THEN ARMED_GIVEBACK_STOP ELSE STOP_LOSS_RATE

LegacyCard(p, cur) ==
  IF p = CdNothing \/ cur = 0 \/ p.exited THEN CdNothing
  ELSE [type |-> "legacy", margin |-> cur - (1000 - StopLevel(p)), watching |-> p.watching]

\* _v8_holding_state
V8Card(p, cur) ==
  IF p = CdNothing \/ cur = 0 THEN CdNothing
  ELSE [type |-> "v8", pullback |-> p.peak - cur, trail_armed |-> p.trail_armed]

\* _build_holdings_payload
ShowCard ==
  /\ LET v8 == V8Card(cdHold.v8, cdHold.cur) IN
     cdCard' = IF v8 # CdNothing THEN v8 ELSE LegacyCard(cdHold.legacy, cdHold.cur)
  /\ UNCHANGED <<cdHold, cdDay, cdClock, cdList, cdKept>>

\* get_live_gap_ranking: the first by yesterday's gap, and then by the gap to the price now;
\* a price that cannot be had leaves a candidate its gap
Price(c) == IF c.px > 0 THEN c.px ELSE c.prev_close
ByGap(c, d) == c.ord_px * d.prev_close > d.ord_px * c.prev_close
ByLiveGap(c, d) == c.ord_px * Price(d) > d.ord_px * Price(c)
FirstOf(n, list) == SubSeq(list, 1, IF Len(list) < n THEN Len(list) ELSE n)
LiveRanking(day) ==
  IF day.date # "today" THEN <<>> ELSE SortSeq(FirstOf(CdTop, SortSeq(day.cands, ByGap)), ByLiveGap)

\* _livegap_audit_blocked
LivegapAuditBlocked_Never(c) == FALSE                            \* mutant
LivegapAuditBlocked(c) ==
  \/ c.audit \in {"caution", "halted"}
  \/ c.audit = "administrative" /\ c.prev_close < CdCeiling

\* _live_gap_empty_reason
EmptyReason(list) == IF list # <<>> THEN "none" ELSE IF cdClock = "open" THEN "no candidates" ELSE cdClock

\* get_kiwoom_live_gap_ranking: asked for by hand, and kept
ShowRanking ==
  LET list == SelectSeq(LiveRanking(cdDay), LAMBDA c : ~LivegapAuditBlocked(c)) IN
  /\ cdKept' = [ranking |-> list, of |-> cdDay.date]
  /\ cdList' = [ranking |-> list, of |-> cdDay.date, reason |-> EmptyReason(list)]
  /\ UNCHANGED <<cdHold, cdCard, cdDay, cdClock>>

\* get_kiwoom_live_gap_ranking_cached: on another device, what _load_live_gap_cache finds
LoadLiveGapCache == IF cdKept = CdNothing THEN [ranking |-> <<>>, of |-> "never"] ELSE cdKept
ShowKept ==
  /\ cdList' = LET kept == LoadLiveGapCache IN
               [ranking |-> kept.ranking, of |-> kept.of, reason |-> EmptyReason(kept.ranking)]
  /\ UNCHANGED <<cdHold, cdCard, cdDay, cdClock, cdKept>>

\* The screening of the day clears the candidates; the next morning there are others.
Cleared ==
  /\ cdClock = "open" /\ cdClock' = "after"
  /\ cdDay' = [cdDay EXCEPT !.date = "none", !.cands = <<>>]
  /\ UNCHANGED <<cdHold, cdCard, cdList, cdKept>>

CdNext == ShowCard \/ ShowRanking \/ ShowKept \/ Cleared
CdSpec == CdInit /\ [][CdNext]_CdVars

(***************************************************************************)
(* Properties.                                                             *)
(***************************************************************************)
\* evaluate_and_trade sells by the broker's rate, which has the fees in it
EngineStops(p, cur) ==
  LET armed == p.peak_rate >= TRAIL_ACTIVATE_RATE IN
  ~p.exited /\ cur > 0 /\
    cur - 1000 - CdFees <= -(IF armed THEN ARMED_GIVEBACK_STOP ELSE STOP_LOSS_RATE)

\* run_v8_buy_cycle: what it leaves out
Buyable(c) == c.audit \notin {"caution", "halted", "administrative"}

\* "At 0 or less it is in the stop": a card that says so is of a holding the engine sees below
\* its stop, and one the engine does may still stand above it on the card by no more than the fees.
CardTellsTheStop ==
  cdCard # CdNothing /\ cdCard.type = "legacy" =>
    /\ cdCard.margin <= 0 => EngineStops(cdHold.legacy, cdHold.cur)
    /\ EngineStops(cdHold.legacy, cdHold.cur) => cdCard.margin <= CdFees

\* "The same rule as the purchase": the list is in the order of the live gaps, misses nothing of
\* its head that the cycle would buy, and holds nothing else but administrative issues, which
\* the cycle has since ceased to buy whatever they cost; and it is of the day or says why not.
RankingTellsThePurchases ==
  cdList # CdNothing =>
    LET list == cdList.ranking  head == ToSet(LiveRanking(cdDay)) IN
    /\ \A i, j \in DOMAIN list : i < j => ~ByLiveGap(list[j], list[i])
    /\ \A c \in ToSet(list) : Buyable(c) \/ (c.audit = "administrative" /\ c.prev_close >= CdCeiling)
    /\ cdList.of = cdDay.date => \A c \in head : Buyable(c) => c \in ToSet(list)
    /\ list = <<>> => cdList.reason # "none"

\* What _dash_cached and _invalidate_dash_cache give the account page, and what its cards say
\* of the stops.
DashRight ==
  [][OrderShownUnlessCaught']_DcVars /\ NoCallForWhatIsThere /\ [][CardTellsTheStop']_CdVars

\* What the page of the stocks shows of the lists behind it: the flags of the server, and the
\* candidates of the cycle.
StocksShown == FlagsSettle /\ [][RankingTellsThePurchases']_CdVars
=============================================================================
