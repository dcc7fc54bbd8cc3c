--------------------------- MODULE InterestTable ---------------------------
(***************************************************************************)
(* The table interest_stocks: one row for a code, a target and a day.      *)
(* Scripts outside insert and refresh signals through the routes of        *)
(* app/stock.py; a job of every minute lets the rows that were not         *)
(* refreshed for 15 minutes break away; the final figures arrive as a list *)
(* of corrections; and job/correct_interest_stocks.py, run by hand,        *)
(* recomputes all rows from the daily bars.  Each statement list is one    *)
(* transaction, the jobs are several.                                      *)
(*                                                                         *)
(* Of a row's figures only the day's rise is kept: "high" from             *)
(* TODAY_RATE_OF_INCREASE on, else "low".                                  *)
(***************************************************************************)
EXTENDS Integers, FiniteSets, FiniteSetsExt

CONSTANTS
  ItCode,
  ItTargets,     \* targets the finding scripts insert
  ItGiven,       \* targets a correction of the list may carry, "" for none
  ItDays, ItIds  \* bounds on days and on rows ever inserted

Lows    == {"low_v1", "low_v2"}
Rising  == {"interest", "interest_v2"}
Signals == Lows \cup Rising
Rates   == {"high", "low"}

ASSUME ItAssumption ==
  /\ ItTargets \subseteq Signals /\ ItGiven \subseteq Signals \cup {"", "breakaway", "breakaway_v2"}
  /\ {ItDays, ItIds} \subseteq Nat \ {0}

VARIABLES
  itDay, itRows, itId,
  itBar,       \* the rise by the daily bars of the pickle files, "none" without a bar
  itCheck,     \* verify_low_stock_data: where it is, and the rows it has listed
  itScript,    \* correct_interest_stocks: where it is, the rows to update and to delete
  itSame,      \* no change since the script's last step, for the properties
  itHad,       \* <<code, day>> that had a row, for the properties
  itGone,      \* <<code, target>> whose last event of the day was breaking away
  itOverlap    \* the script and other writers have changed the table under each other's lists

ItVars == <<itDay, itRows, itId, itBar, itCheck, itScript, itSame, itHad, itGone, itOverlap>>

NoScript == [at |-> "idle", keep |-> {}, drop |-> {}]
NoCheck  == [at |-> "idle", rows |-> {}]

ItInit ==
  /\ itDay = 1 /\ itRows = {} /\ itId = 0
  /\ itBar = [cd \in ItCode \X (1..ItDays) |-> "none"]
  /\ itCheck = NoCheck /\ itScript = NoScript /\ itSame = TRUE
  /\ itHad = {} /\ itGone = {} /\ itOverlap = FALSE

\* The target a row falls to: update_stocks_break_away, and BREAKAWAY_MAP of the script.
BreakawayTarget(target) ==
  IF target \in Lows THEN "breakaway_low"
  ELSE IF target = "interest" THEN "breakaway" ELSE "breakaway_v2"

Same(r, s) == r.code = s.code /\ r.target = s.target /\ r.day = s.day

\* The unique index interest_stocks_code_target_daily.
UniqueIn(rows) == \A r, s \in rows : Same(r, s) => r.id = s.id

(***************************************************************************)
(* A signal is inserted, or refreshes its row of the day.  A figure that   *)
(* is not sent leaves the old one.  The scripts send what has risen.       *)
(***************************************************************************)
WithSignal(c, t, rate) ==
  LET old == {r \in itRows : r.code = c /\ r.target = t /\ r.day = itDay}
  IN IF old = {}
     THEN itRows \cup {[id |-> itId + 1, code |-> c, target |-> t, day |-> itDay,
                        rate |-> rate, fresh |-> TRUE]}
     ELSE (itRows \ old) \cup {[r EXCEPT !.rate = rate, !.fresh = TRUE] : r \in old}

Insert(c, t) ==
  /\ itId < ItIds
  /\ itRows' = WithSignal(c, t, "high")
  /\ itId' = IF Cardinality(itRows') > Cardinality(itRows) THEN itId + 1 ELSE itId
  /\ itHad' = itHad \cup {<<c, itDay>>} /\ itGone' = itGone \ {<<c, t>>} /\ itSame' = FALSE
  /\ UNCHANGED <<itDay, itBar, itCheck, itScript, itOverlap>>

\* A row has not been refreshed for 15 minutes.
Age(r) ==
  /\ r.fresh /\ r.day = itDay
  /\ itRows' = (itRows \ {r}) \cup {[r EXCEPT !.fresh = FALSE]}
  /\ UNCHANGED <<itDay, itId, itBar, itCheck, itScript, itSame, itHad, itGone, itOverlap>>

(***************************************************************************)
(* verify_low_stock_data: two listings, then one transaction for each row, *)
(* whatever has become of the row since.                                   *)
(***************************************************************************)
Stale(targets) == {r \in itRows : r.target \in targets /\ r.day = itDay /\ ~r.fresh}

ListLow ==
  /\ itCheck.at = "idle" /\ itCheck' = [at |-> "listed low", rows |-> Stale(Lows)]
  /\ UNCHANGED <<itDay, itRows, itId, itBar, itScript, itSame, itHad, itGone, itOverlap>>

ListRising ==
  /\ itCheck.at = "listed low"
  /\ itCheck' = [at |-> "work", rows |-> itCheck.rows \cup Stale(Rising)]
  /\ UNCHANGED <<itDay, itRows, itId, itBar, itScript, itSame, itHad, itGone, itOverlap>>

Away_NoDelete(r) == {}                                           \* mutant
Away(r) == {x \in itRows : /\ x.code = r.code /\ x.day = itDay /\ x.id # r.id
                           /\ x.target = BreakawayTarget(r.target)}

BreakAway(r) ==
  /\ itCheck.at = "work" /\ r \in itCheck.rows
  /\ r.target \in Rising => \A x \in itCheck.rows : x.target \in Rising
  /\ itRows' = {IF x.id = r.id THEN [x EXCEPT !.target = BreakawayTarget(r.target), !.fresh = TRUE]
                ELSE x : x \in itRows \ Away(r)}
  /\ itCheck' = [itCheck EXCEPT !.rows = @ \ {r}]
  /\ itGone' = itGone \cup {<<x.code, x.target>> : x \in {x \in itRows : x.id = r.id /\ x.target \in Signals}}
  /\ itSame' = FALSE
  /\ UNCHANGED <<itDay, itId, itBar, itScript, itHad, itOverlap>>

CheckEnds ==
  /\ itCheck.at = "work" /\ itCheck.rows = {} /\ itCheck' = NoCheck
  /\ UNCHANGED <<itDay, itRows, itId, itBar, itScript, itSame, itHad, itGone, itOverlap>>

(***************************************************************************)
(* update_interest_stock_close_correctly_list: the rising rows of the      *)
(* listed codes and their day take the figures and the target sent, unless *)
(* another row has that target.  Two rows of one code may both get it: the *)
(* index refuses, and the whole list is rolled back.                       *)
(***************************************************************************)
Matched(codes, day, target) ==
  {s \in itRows : /\ s.code \in codes /\ s.target \in Rising /\ s.day = day
                  /\ ~\E x \in itRows : /\ x.code = s.code /\ x.target = target
                                        /\ x.day = day /\ x.id # s.id}

CorrectList(codes, day, target, rate) ==
  LET to(s) == IF target = "" THEN s.target ELSE target
      found == Matched(codes, day, target)
      after == (itRows \ found)
                 \cup {[s EXCEPT !.rate = rate, !.target = to(s)] : s \in found}
  IN /\ found # {} /\ UniqueIn(after)
     /\ itRows' = after
     /\ itGone' = {g \in itGone : ~(g[1] \in codes /\ day = itDay /\ g[2] = target)}
     /\ itSame' = FALSE
     /\ UNCHANGED <<itDay, itId, itBar, itCheck, itScript, itHad, itOverlap>>

(***************************************************************************)
(* The script: read all, plan, change all in one transaction.  The rows of *)
(* a code and day are all recomputed from one bar, or none of them is.     *)
(* Of the rows that end with one key the one that changes its target       *)
(* stays, the newest of several; the others are deleted first.             *)
(***************************************************************************)
recompute(r) == itBar[r.code, r.day]

Planned ==
  {LET flips == recompute(r) = "low" /\ r.target \in Signals
   IN [id |-> r.id, code |-> r.code, day |-> r.day, flipped |-> flips, rate |-> recompute(r),
       target |-> IF flips THEN BreakawayTarget(r.target) ELSE r.target] :
     r \in {r \in itRows : recompute(r) # "none"}}

\* p stands before q in their group.
Before(p, q) ==
  \/ p.flipped /\ ~q.flipped
  \/ p.flipped = q.flipped /\ p.id > q.id

Kept == {p \in Planned : \A q \in Planned : (Same(p, q) /\ p # q) => Before(p, q)}

ScriptReads ==
  /\ itScript.at # "read"
  /\ itScript' = [at |-> "read", keep |-> Kept, drop |-> {p.id : p \in Planned \ Kept}]
  /\ itSame' = TRUE
  /\ UNCHANGED <<itDay, itRows, itId, itBar, itCheck, itHad, itGone, itOverlap>>

Dropped_Kept == {}                                               \* mutant
Dropped == itScript.drop

Applied ==
  LET plan(x) == CHOOSE p \in itScript.keep : p.id = x.id
  IN {IF \E p \in itScript.keep : p.id = x.id
      THEN [x EXCEPT !.rate = plan(x).rate, !.target = plan(x).target, !.fresh = TRUE]
      ELSE x : x \in {x \in itRows : x.id \notin Dropped}}

ScriptApplies ==
  /\ itScript.at = "read"
  /\ IF UniqueIn(Applied)
     THEN itRows' = Applied /\ itScript' = [NoScript EXCEPT !.at = "done"]
     ELSE UNCHANGED itRows /\ itScript' = [NoScript EXCEPT !.at = "rolled back"]
  /\ itOverlap' = (itOverlap \/ itCheck.at # "idle" \/ ~itSame)
  /\ itGone' = {g \in itGone : ~\E r \in itRows' : r.code = g[1] /\ r.target = g[2] /\ r.day = itDay}
  /\ UNCHANGED <<itDay, itId, itBar, itCheck, itSame, itHad>>

\* The bars of a day are collected, outside this program, once it is over.
Collected(c, rate) ==
  /\ itBar[c, itDay] = "none" /\ itBar' = [itBar EXCEPT ![<<c, itDay>>] = rate] /\ itSame' = FALSE
  /\ UNCHANGED <<itDay, itRows, itId, itCheck, itScript, itHad, itGone, itOverlap>>

\* The job runs from 9 to 20 o'clock, so none is under way at midnight.
Midnight ==
  /\ itDay < ItDays /\ itCheck.at = "idle"
  /\ itDay' = itDay + 1 /\ itGone' = {}
  /\ UNCHANGED <<itRows, itId, itBar, itCheck, itScript, itSame, itHad, itOverlap>>

ItNext ==
  \/ \E c \in ItCode, t \in ItTargets : Insert(c, t)
  \/ \E r \in itRows : Age(r)
  \/ ListLow
  \/ ListRising
  \/ \E r \in itCheck.rows : BreakAway(r)
  \/ CheckEnds
  \/ \E codes \in SUBSET ItCode, day \in 1..itDay, target \in ItGiven, rate \in Rates :
       CorrectList(codes, day, target, rate)
  \/ ScriptReads
  \/ ScriptApplies
  \/ \E c \in ItCode, rate \in Rates : Collected(c, rate)
  \/ Midnight

ItSpec == ItInit /\ [][ItNext]_ItVars

----------------------------------------------------------------------------
(***************************************************************************)
(* get_interest_stocks_info for fire: the codes with signals of a target   *)
(* in a window of days and, from 9 o'clock on, with one of today if the    *)
(* window ends today.                                                      *)
(***************************************************************************)
DaysWith(c, target, from, to) ==
  {r.day : r \in {r \in itRows : r.code = c /\ r.target = target /\ r.day \in from..to}}

Fire(target, from, to, afterNine) ==
  {c \in ItCode :
     LET days == DaysWith(c, target, from, to)
     IN /\ Cardinality(days) >= 1
        /\ to # itDay \/ ~afterNine \/ Max(days) = to}

----------------------------------------------------------------------------
\* No transaction leaves two rows of one code, target and day, although breaking away, the
\* corrections and the script all rename rows onto targets that may be taken.
OneRowOfADay == UniqueIn(itRows)

\* A code that gave a signal on a day keeps a row of that day, whatever breaks away and
\* is corrected. Nothing else may write while the script by hand runs for this: its list and
\* the job's are carried out whatever has become of the rows.
SignalsRemembered ==
  itOverlap \/ \A cd \in itHad : \E r \in itRows : r.code = cd[1] /\ r.day = cd[2]

\* The script is not refused by the unique index over a table nobody has touched since it
\* read it, and afterwards each row it could recompute agrees with its bar and is no
\* signal with less than the least rise.
ScriptAgrees ==
  itSame =>
    /\ itScript.at # "rolled back"
    /\ itScript.at = "done" =>
         \A r \in itRows :
           recompute(r) # "none" => /\ r.rate = recompute(r)
                                    /\ r.target \in Signals => r.rate = "high"

\* A code that has broken away is bought by nobody: fire does not list it from 9 o'clock
\* on until it gives a new signal of the day, however often it signalled before.
GoneFromFire ==
  \A g \in itGone : g[1] \notin Fire(g[2], 1, itDay, TRUE)

InterestRight == OneRowOfADay /\ SignalsRemembered /\ ScriptAgrees /\ GoneFromFire

============================================================================
