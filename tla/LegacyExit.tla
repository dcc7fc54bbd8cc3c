----------------------------- MODULE LegacyExit -----------------------------
(***************************************************************************)
(* The legacy exit of auto_trading/kiwoom_trailing_stop.py: every 30       *)
(* seconds run_cycle lists the account, evaluates each code that neither   *)
(* v8 nor the user claims (evaluate_and_trade: a stop that must hold for   *)
(* STOP_CONFIRM_SECONDS, and a longest holding time), and saves its        *)
(* positions.  Around it are the other writers of what it reads: v8, the   *)
(* user's orders from the dashboard, the mock purchase job and the broker. *)
(*                                                                         *)
(* TRAILING_ENABLED is False, so the trailing rules never run.  Dates are  *)
(* ages in business days; a quote is at the stop, above it or not credible.*)
(*                                                                         *)
(* Who owns a code is read from files whose readers take what they cannot  *)
(* read as empty, and v8's ledger also forgets entries by itself: lost     *)
(* holds the codes of which shares or an order of v8 are left without the  *)
(* entry that should keep the legacy exit away.                            *)
(***************************************************************************)
EXTENDS Integers, FiniteSets

CONSTANTS
  Code,
  Lot,            \* shares in one purchase
  MaxHeld,        \* bound: shares of a code held or on order
  MAX_HOLD_DAYS,
  Env,            \* which of EnvBehaviour the environment shows
  Faults,         \* bound: cycles that die
  NoPos           \* "this code is not in the state file"

EnvBehaviour ==
  {"user",     \* the user buys from the dashboard
   "usersell", \* and sells there
   "odd",      \* a quote may fail the anomaly checks
   "refuse",   \* an order may be refused
   "late",     \* an exit order may be unfilled at the end of the day
   "unreconciled", \* a day may end without reconcile_fills
   "unreadable", \* a file of owners may read as empty
   "unnamed"}    \* v8's ledger may drop the entry of shares or of an order

ASSUME LegacyAssumption ==
  /\ Lot \in Nat \ {0} /\ MaxHeld \in Nat /\ MAX_HOLD_DAYS \in Nat \ {0}
  /\ Env \subseteq EnvBehaviour /\ Faults \in Nat
  /\ IsFiniteSet(Code) /\ Code # {}

Watch    == {"no", "new", "ripe", "old"}  \* "old": begun on an earlier day
Position == [rem : 0..MaxHeld, exited : BOOLEAN, age : 0..MAX_HOLD_DAYS,
             watch : Watch,
             soldSince : BOOLEAN]  \* the history has a sale since its entry_date
ASSUME NoPosAssumption == NoPos \notin Position

VARIABLES
  KIWOOM_ENV,       \* the account of this process: v8 trades on the real one,
                    \* the mock purchase job on the mock one
  held, selling,    \* shares in the account; those of them in exit orders
  buying,           \* shares in purchases not yet filled
  file,             \* STATE_FILE
  manual,           \* kiwoom_manual_owned.json
  owned,            \* v8_owned_codes
  tracked,          \* v8_position_codes
  v8sold,           \* sold_today_codes
  marking,          \* codes v8 has ordered and not yet marked
  soldToday,        \* codes with a sale in today's trade history
  record,           \* the mock purchase: "no" record without a fill_qty, one
                    \* of an "open" order, one of a "filled" order
  \* the cycle
  pc, mem, hsnap, vsnap, msnap, todo, copy, faults,
  \* the user's request
  upc, ucode, ucopy,
  \* what the properties remember; no action reads it
  low,              \* since when every look today found the code at its stop
  born,             \* age of the shares held, counted from the first look;
                    \* Unborn if the history has a sale since
  looked,           \* the most shares a look saw since
  v8share,          \* shares v8 bought
  lost              \* codes with such shares, or an order for them, that the
                    \* ledger has not named all the time

account == <<KIWOOM_ENV, held, selling, buying>>
ledgers == <<manual, owned, tracked, v8sold, marking>>
trades  == <<soldToday, record>>
cycle   == <<pc, mem, hsnap, vsnap, msnap, todo, copy, faults>>
request == <<upc, ucode, ucopy>>
memory  == <<low, born, looked, v8share, lost>>
vars    == <<account, file, ledgers, trades, cycle, request, memory>>

Smaller(a, b) == IF a < b THEN a ELSE b
None    == [c \in Code |-> 0]
NoState == [c \in Code |-> NoPos]
Of(f)   == {c \in Code : f[c] > 0}
AnyCode == CHOOSE c \in Code : TRUE
Unborn  == MAX_HOLD_DAYS + 1

\* _fresh_position_state
Fresh(c, qty) == [rem |-> qty, exited |-> FALSE, age |-> 0, watch |-> "no",
                  soldSince |-> c \in soldToday]

\* the head of evaluate_and_trade: a new position, or a smaller quantity
Synced_StaysExited(p, c, qty) ==                                 \* mutant
  IF p = NoPos THEN Fresh(c, qty)
  ELSE IF p.exited THEN p
  ELSE IF qty > p.rem THEN Fresh(c, qty)
  ELSE [p EXCEPT !.rem = qty]
Synced(p, c, qty) ==
  IF p = NoPos THEN Fresh(c, qty)
  ELSE IF p.exited \/ qty > p.rem THEN Fresh(c, qty)
  ELSE [p EXCEPT !.rem = qty]

Overdue(p) == p.age >= MAX_HOLD_DAYS

Init ==
  /\ KIWOOM_ENV \in {"real", "mock"}
  /\ held = None /\ selling = None /\ buying = None
  /\ file = NoState /\ manual = {} /\ owned = {} /\ tracked = {} /\ v8sold = {} /\ marking = {}
  /\ soldToday = {} /\ record = [c \in Code |-> "no"]
  /\ pc = "idle" /\ mem = NoState /\ hsnap = None /\ vsnap = {} /\ msnap = {}
  /\ todo = {} /\ copy = {} /\ faults = 0
  /\ upc = "idle" /\ ucode = AnyCode /\ ucopy = {}
  /\ low = [c \in Code |-> "no"] /\ born = [c \in Code |-> Unborn]
  /\ looked = None /\ v8share = None /\ lost = {}

Forget == /\ pc' = "idle" /\ mem' = NoState /\ hsnap' = None /\ vsnap' = {}
          /\ msnap' = {} /\ todo' = {} /\ copy' = {}

(***************************************************************************)
(* The cycle: listing, state file, owners.                                 *)
(***************************************************************************)
\* the account also holds other stock, so that the listing is not empty;
\* the mock server may leave codes out
ListWithout(gap) ==
  /\ pc = "idle"
  /\ hsnap' = [c \in Code |-> IF c \in gap THEN 0 ELSE held[c]]
  /\ pc' = "listed"
  /\ UNCHANGED <<account, file, ledgers, trades, mem, vsnap, msnap, todo, copy,
                 faults, request, memory>>

List == ListWithout({})

ListPart == KIWOOM_ENV = "mock" /\ \E gap \in SUBSET Code : ListWithout(gap)

\* _load_pending, manual_owned_codes: what cannot be read is taken as empty
Read(codes) == {codes} \cup IF "unreadable" \in Env THEN {{}} ELSE {}

ReadFiles_Tracked ==                                             \* mutant
  /\ pc = "listed"
  /\ mem' = file /\ vsnap' = tracked /\ msnap' = manual
  /\ todo' = Of(hsnap) \ (tracked \cup manual)
  /\ pc' = "look"
  /\ UNCHANGED <<account, file, ledgers, trades, hsnap, copy, faults, request, memory>>
ReadFiles ==
  /\ pc = "listed"
  /\ \E v8_owned \in Read(owned), manual_owned \in Read(manual) :
       /\ mem' = file /\ vsnap' = v8_owned /\ msnap' = manual_owned
       /\ todo' = Of(hsnap) \ (v8_owned \cup manual_owned)
       /\ lost' = lost \cup ((owned \cap Of(hsnap)) \ v8_owned)
  /\ pc' = "look"
  /\ UNCHANGED <<account, file, ledgers, trades, hsnap, copy, faults, request, low, born,
                 looked, v8share>>

(***************************************************************************)
(* evaluate_and_trade for one code.                                        *)
(***************************************************************************)
\* what a look leaves of the position, and what the properties remember of it
Look(c, p, sight) ==
  LET new == held[c] > 0 /\ selling[c] = 0 /\ hsnap[c] > looked[c] IN
  /\ pc = "look" /\ c \in todo
  /\ mem' = [mem EXCEPT ![c] = p]
  /\ todo' = todo \ {c}
  /\ low' = [low EXCEPT ![c] = CASE sight = "fine" -> "no"
                                 [] sight = "low" /\ @ = "no" -> "new"
                                 [] OTHER -> @]
  /\ born' = [born EXCEPT ![c] = IF p.exited \/ (new /\ p.soldSince) THEN Unborn
                                ELSE IF new THEN 0 ELSE @]
  /\ looked' = [looked EXCEPT ![c] = IF new THEN hsnap[c] ELSE @]
  /\ UNCHANGED <<KIWOOM_ENV, buying, ledgers, pc, hsnap, vsnap, msnap, copy, faults,
                 request, v8share, lost, held>>

Quiet == UNCHANGED <<KIWOOM_ENV, selling, file, trades>>

\* an anomaly: nothing is sold and the watch stays as it is
LookOdd(c) ==
  /\ "odd" \in Env
  /\ Look(c, Synced(mem[c], c, hsnap[c]), "odd")
  /\ Quiet

\* at the stop: the first sighting of the day begins a watch, a recovering
\* price on the mock account prolongs it
LookLow_Overnight(c) ==                                          \* mutant
  LET p == Synced(mem[c], c, hsnap[c]) IN
  /\ Look(c, IF p.watch = "old" THEN [p EXCEPT !.watch = "ripe"]
             ELSE IF p.watch = "no" THEN [p EXCEPT !.watch = "new"] ELSE p, "low")
  /\ Quiet
LookLow(c) ==
  LET p == Synced(mem[c], c, hsnap[c]) IN
  /\ p.watch = "ripe" => KIWOOM_ENV = "mock"
  /\ Look(c, [p EXCEPT !.watch = "new"], "low")
  /\ Quiet

LookFine(c) ==
  LET p == Synced(mem[c], c, hsnap[c]) IN
  /\ ~Overdue(p)
  /\ Look(c, [p EXCEPT !.watch = "no"], "fine")
  /\ Quiet

\* the sales: a confirmed stop, or a position held too long
Due(c, sight) ==
  LET p == Synced(mem[c], c, hsnap[c]) IN
  CASE sight = "low"  -> p.watch = "ripe"
    [] sight = "fine" -> Overdue(p)

\* _record_trade: the sale is in the history, for the file and for the copy
Noted(st, c) == IF st[c] = NoPos THEN st ELSE [st EXCEPT ![c].soldSince = TRUE]

\* accepted for all that is left; the broker knows what is on sale already
Sell(c, sight) ==
  LET p == Synced(mem[c], c, hsnap[c]) IN
  /\ Due(c, sight)
  /\ selling[c] + p.rem <= held[c]
  /\ Look(c, [p EXCEPT !.rem = 0, !.exited = TRUE, !.soldSince = TRUE], sight)
  /\ selling' = [selling EXCEPT ![c] = @ + p.rem]
  /\ soldToday' = soldToday \cup {c}
  /\ file' = Noted(file, c)
  /\ UNCHANGED record

\* refused: the position stays and the next cycle tries again
SellRefused(c, sight) ==
  LET p == Synced(mem[c], c, hsnap[c]) IN
  /\ Due(c, sight)
  /\ "refuse" \in Env \/ selling[c] + p.rem > held[c]
  /\ Look(c, IF sight = "fine" THEN [p EXCEPT !.watch = "no"] ELSE p, sight)
  /\ Quiet

(***************************************************************************)
(* The rest of run_cycle.                                                  *)
(***************************************************************************)
\* codes of the user's that the listing does not show lose their protection
Looked ==
  /\ pc = "look" /\ todo = {}
  /\ todo' = msnap \ Of(hsnap)
  /\ pc' = "release"
  /\ UNCHANGED <<account, file, ledgers, trades, mem, hsnap, vsnap, msnap, copy,
                 faults, request, memory>>

\* release_manual_owned: load, drop one, save
ReleaseLoad ==
  /\ pc = "release" /\ todo # {}
  /\ copy' \in Read(manual) /\ pc' = "releasing"
  /\ UNCHANGED <<account, file, ledgers, trades, mem, hsnap, vsnap, msnap, todo,
                 faults, request, memory>>

ReleaseSave ==
  /\ pc = "releasing"
  /\ \E c \in todo : /\ manual' = IF c \in copy THEN copy \ {c} ELSE manual
                     /\ todo' = todo \ {c}
  /\ copy' = {} /\ pc' = "release"
  /\ UNCHANGED <<account, file, owned, tracked, v8sold, marking, trades, mem, hsnap, vsnap,
                 msnap, faults, request, memory>>

\* positions not looked at go only with a sale in the history, or with a
\* purchase of an earlier day that was never filled, which is taken back
Stale(c) == record[c] # "no" /\ mem[c].age > 0
Tidy_WhenMissing ==                                              \* mutant
  /\ pc = "release" /\ todo = {}
  /\ LET missing == {c \in Code : mem[c] # NoPos /\ c \notin Of(hsnap) \ (vsnap \cup msnap)} IN
       mem' = [c \in Code |-> IF c \in missing THEN NoPos ELSE mem[c]]
  /\ pc' = "save"
  /\ UNCHANGED <<account, file, ledgers, trades, hsnap, vsnap, msnap, todo, copy,
                 faults, request, memory>>
Tidy ==
  /\ pc = "release" /\ todo = {}
  /\ LET missing  == {c \in Code : mem[c] # NoPos
                                     /\ c \notin Of(hsnap) \ (vsnap \cup msnap)}
         sold     == {c \in missing : mem[c].soldSince}
         reversed == {c \in missing \ sold : Stale(c)} IN
       /\ mem' = [c \in Code |-> IF c \in sold \cup reversed THEN NoPos ELSE mem[c]]
       /\ record' = [c \in Code |-> IF c \in reversed THEN "no" ELSE record[c]]
  /\ pc' = "save"
  /\ UNCHANGED <<account, file, ledgers, soldToday, hsnap, vsnap, msnap, todo, copy,
                 faults, request, memory>>

\* _save_state
Save ==
  /\ pc = "save"
  /\ file' = mem
  /\ Forget
  /\ UNCHANGED <<account, ledgers, trades, faults, request, memory>>

\* an exception, or a restart: in the middle of _save_state it leaves a file
\* that _load_state cannot read and takes as empty
Die ==
  /\ pc # "idle" /\ faults < Faults
  /\ faults' = faults + 1
  /\ \/ UNCHANGED file
     \/ pc = "save" /\ file' = NoState
  /\ Forget
  /\ UNCHANGED <<account, ledgers, trades, request, memory>>

(***************************************************************************)
(* Time and the broker.                                                    *)
(***************************************************************************)
Aged_Uncapped(p) == IF p = NoPos THEN p                          \* mutant
                    ELSE [p EXCEPT !.age = @ + 1, !.watch = IF @ = "no" THEN "no" ELSE "old"]
Aged(p) == IF p = NoPos THEN p
           ELSE [p EXCEPT !.age = Smaller(@ + 1, MAX_HOLD_DAYS),
                          !.watch = IF @ = "no" THEN "no" ELSE "old"]

\* a cycle has run since the last sale of a whole position: 30 seconds have passed
Tidied == \A c \in Code : held[c] = 0 /\ file[c] # NoPos => ~file[c].soldSince

\* STOP_CONFIRM_SECONDS pass for a watch, between two cycles; v8 and the
\* user's request mark what they have ordered sooner than that, and a market
\* order is filled sooner unless the broker is late
Confirm(c) ==
  /\ pc = "idle" /\ marking = {} /\ upc = "idle" /\ Tidied
  /\ selling = None \/ "late" \in Env
  /\ file[c] # NoPos /\ file[c].watch = "new"
  /\ file' = [file EXCEPT ![c].watch = "ripe"]
  /\ low' = [low EXCEPT ![c] = IF @ = "new" THEN "ripe" ELSE @]
  /\ UNCHANGED <<account, ledgers, trades, cycle, request, born, looked, v8share, lost>>

\* a business day: orders left over expire.
NextDay ==
  /\ pc = "idle" /\ upc = "idle" /\ marking = {}
  /\ selling = None \/ "late" \in Env
  /\ Tidied
  /\ (\A c \in Code : record[c] = "no") \/ "unreconciled" \in Env
  /\ selling' = None /\ buying' = None
  /\ file' = [c \in Code |-> Aged(file[c])]
  /\ soldToday' = {} /\ v8sold' = {}
  /\ low' = [c \in Code |-> "no"]
  /\ born' = [c \in Code |-> IF born[c] = Unborn THEN Unborn
                             ELSE Smaller(born[c] + 1, MAX_HOLD_DAYS)]
  /\ UNCHANGED <<KIWOOM_ENV, held, manual, owned, tracked, marking, record, cycle,
                 request, looked, v8share, lost>>

\* what the properties forget when nothing of a code is left
Left(c, n, onSale) ==
  /\ held'    = [held EXCEPT ![c] = n]
  /\ selling' = [selling EXCEPT ![c] = onSale]
  /\ born'    = [born EXCEPT ![c] = Unborn]
  /\ looked'  = [looked EXCEPT ![c] = Smaller(@, n)]
  /\ v8share' = [v8share EXCEPT ![c] = Smaller(@, n - onSale)]
  /\ UNCHANGED <<low, lost>>

FillSale(c) ==
  /\ selling[c] > 0
  /\ Left(c, held[c] - selling[c], 0)
  /\ UNCHANGED <<KIWOOM_ENV, buying, file, ledgers, trades, cycle, request>>

Room(c) == held[c] + buying[c] + Lot <= MaxHeld

FillBuy(c) ==
  /\ buying[c] > 0
  /\ held' = [held EXCEPT ![c] = @ + buying[c]]
  /\ buying' = [buying EXCEPT ![c] = 0]
  /\ record' = [record EXCEPT ![c] = IF @ = "open" THEN "filled" ELSE @]
  /\ v8share' = [v8share EXCEPT ![c] = IF KIWOOM_ENV = "real" THEN @ + buying[c] ELSE @]
  /\ UNCHANGED <<KIWOOM_ENV, selling, file, ledgers, soldToday, cycle, request, low,
                 born, looked, lost>>

\* reconcile_fills finds the fill, on the day of the purchase
Settle(c) ==
  /\ record[c] = "filled"
  /\ record' = [record EXCEPT ![c] = "no"]
  /\ UNCHANGED <<account, file, ledgers, soldToday, cycle, request, memory>>

\* _reverse_unfilled_buys: the shares of a purchase leave the position
Reversed(p) ==
  IF p = NoPos THEN p
  ELSE IF p.exited THEN p
  ELSE IF p.rem <= Lot THEN NoPos
  ELSE [p EXCEPT !.rem = @ - Lot]

\* reconcile_fills(finalize) in the evening: what was not filled leaves the
\* history, and its shares the position
Finalize(c) ==
  /\ record[c] = "open" /\ buying[c] > 0 /\ pc = "idle" /\ upc = "idle"
  /\ buying' = [buying EXCEPT ![c] = 0]
  /\ record' = [record EXCEPT ![c] = "no"]
  /\ file' = [file EXCEPT ![c] = Reversed(@)]
  /\ UNCHANGED <<KIWOOM_ENV, held, selling, ledgers, soldToday, cycle, request,
                 memory>>

(***************************************************************************)
(* The mock purchase job: an order, its record, and a position in the file *)
(* at once (run_fire_buy_cycle).                                           *)
(***************************************************************************)
FireBuy(c) ==
  /\ KIWOOM_ENV = "mock"
  /\ held[c] = 0 /\ buying[c] = 0 /\ Room(c) /\ c \notin manual
  /\ buying' = [buying EXCEPT ![c] = Lot]
  /\ file' = [file EXCEPT ![c] = Fresh(c, Lot)]
  /\ record' = [record EXCEPT ![c] = "open"]
  /\ UNCHANGED <<KIWOOM_ENV, held, selling, ledgers, soldToday, cycle, request, memory>>

(***************************************************************************)
(* v8: an order, its mark in the ledger, the exit job's registration and   *)
(* sale, and the ways in which an entry leaves the ledger.  Codes held, or *)
(* sold by v8 today, are no candidates.  A whole cycle of v8 does not fit  *)
(* between the listing of the legacy exit and its reading of the files,    *)
(* hence pc # "listed".                                                    *)
(***************************************************************************)
\* An order of a new purchase.  The list of codes sold today may be unreadable
\* like the ledger; a code bought again on the day of its sale counts as lost,
\* because the cycle of its sale may still be about.
V8Order(c) ==
  /\ KIWOOM_ENV = "real" /\ held[c] = 0 /\ Room(c) /\ buying[c] = 0
  /\ pc # "listed" /\ c \notin marking
  /\ c \in v8sold => "unreadable" \in Env
  /\ buying' = [buying EXCEPT ![c] = Lot]
  /\ marking' = marking \cup {c}
  /\ lost' = IF c \in v8sold \cup todo THEN lost \cup {c} ELSE lost \ {c}
  /\ UNCHANGED <<KIWOOM_ENV, held, selling, file, manual, owned, tracked, v8sold, trades, cycle,
                 request, low, born, looked, v8share>>

\* _mark_ordered
V8Mark(c) ==
  /\ c \in marking
  /\ owned' = owned \cup {c} /\ marking' = marking \ {c}
  /\ UNCHANGED <<account, file, manual, tracked, v8sold, trades, cycle, request, memory>>

V8Track(c) ==
  /\ c \in (owned \ manual) \ tracked /\ held[c] > 0
  /\ tracked' = tracked \cup {c}
  /\ UNCHANGED <<account, file, manual, owned, v8sold, marking, trades, cycle, request,
                 memory>>

V8Sell(c) ==
  /\ c \in (owned \cap tracked) \ manual /\ held[c] > selling[c]
  /\ Left(c, selling[c], selling[c])
  /\ v8sold' = v8sold \cup {c}
  /\ soldToday' = soldToday \cup {c}
  /\ file' = Noted(file, c)
  /\ mem' = Noted(mem, c)
  /\ UNCHANGED <<KIWOOM_ENV, buying, manual, owned, tracked, marking, record, pc, hsnap, vsnap, msnap,
                 todo, copy, faults, request>>

\* the entry is gone: what v8 holds or has on order is nobody's now
Unnamed(c) ==
  /\ v8share[c] > 0 \/ buying'[c] > 0 => "unnamed" \in Env
  /\ owned' = owned \ {c}
  /\ lost' = IF v8share[c] > 0 \/ buying'[c] > 0 THEN lost \cup {c} ELSE lost

\* The exit job drops the state of a code that it does not list, and releases
\* one that it has sold; it asks no one whether shares are left.
V8Release(c) ==
  /\ c \in tracked
  /\ tracked' = tracked \ {c}
  /\ UNCHANGED <<account, file, manual, v8sold, marking, trades, cycle, request, low, born,
                 looked, v8share>>
  /\ Unnamed(c) \/ UNCHANGED <<owned, lost>>

\* The buy job takes a candidate back: it cancels the order, which may have been
\* filled meanwhile or be refused, and releases the code in either case.
V8Drop(c) ==
  /\ c \in owned /\ buying[c] > 0
  /\ record[c] = "no"   \* the order is v8's, not the mock job's
  /\ buying' \in {buying, [buying EXCEPT ![c] = 0]}
  /\ Unnamed(c)
  /\ UNCHANGED <<KIWOOM_ENV, held, selling, file, manual, tracked, v8sold, marking, trades,
                 cycle, request, low, born, looked, v8share>>

\* The screening job deletes entries 30 days after the first order, held or not;
\* a writer that cannot read the ledger stores it without the others' entries.
V8Forget(c) ==
  /\ c \in owned
  /\ UNCHANGED <<account, file, manual, tracked, v8sold, marking, trades, cycle, request, low,
                 born, looked, v8share>>
  /\ Unnamed(c)

(***************************************************************************)
(* The user.                                                               *)
(***************************************************************************)
\* manual_buy orders at the market and records; then, unless v8 has a position
\* in the code, mark_manual_owned loads, adds and saves
UserBuy(c) ==
  /\ "user" \in Env /\ upc = "idle" /\ Room(c)
  /\ record[c] = "no"   \* not what the mock job has on order
  /\ held' = [held EXCEPT ![c] = @ + Lot]
  /\ upc' = "ordered" /\ ucode' = c
  /\ UNCHANGED <<KIWOOM_ENV, selling, buying, file, ledgers, trades, cycle, ucopy, memory>>

Done == upc' = "idle" /\ ucode' = AnyCode /\ ucopy' = {}

UserLoad ==
  /\ upc = "ordered"
  /\ \E v8_positions \in Read(tracked), codes \in Read(manual) :
       IF ucode \in v8_positions \cup codes
         THEN Done
         ELSE ucopy' = codes /\ upc' = "loaded" /\ UNCHANGED ucode
  /\ UNCHANGED <<account, file, ledgers, trades, cycle, memory>>

UserSave ==
  /\ upc = "loaded"
  /\ manual' = ucopy \cup {ucode}
  /\ Done
  /\ UNCHANGED <<account, file, owned, tracked, v8sold, marking, trades, cycle, memory>>

\* manual_sell: all of a code gives up its protection at once
UserSell(c) ==
  /\ "usersell" \in Env /\ held[c] > selling[c]
  /\ \E n \in 1..(held[c] - selling[c]) :
       /\ Left(c, held[c] - n, selling[c])
       /\ manual' = IF n = held[c] THEN manual \ {c} ELSE manual
  /\ soldToday' = soldToday \cup {c}
  /\ file' = Noted(file, c)
  /\ mem' = Noted(mem, c)
  /\ UNCHANGED <<KIWOOM_ENV, buying, owned, tracked, v8sold, marking, record, pc, hsnap,
                 vsnap, msnap, todo, copy, faults, request>>

Sight == {"low", "fine"}

Next ==
  \/ List \/ ListPart \/ ReadFiles \/ Looked \/ ReleaseLoad \/ ReleaseSave \/ Tidy \/ Save \/ Die
  \/ UserLoad \/ UserSave \/ NextDay
  \/ \E c \in Code :
       \/ LookOdd(c) \/ LookLow(c) \/ LookFine(c)
       \/ \E s \in Sight : Sell(c, s) \/ SellRefused(c, s)
       \/ Confirm(c) \/ FillSale(c) \/ FillBuy(c) \/ Settle(c) \/ Finalize(c) \/ FireBuy(c)
       \/ V8Order(c) \/ V8Mark(c) \/ V8Track(c) \/ V8Sell(c) \/ V8Release(c) \/ V8Drop(c)
       \/ V8Forget(c)
       \/ UserBuy(c) \/ UserSell(c)

Spec == Init /\ [][Next]_vars

\* The job runs every 30 seconds and none of its steps blocks; days pass; the
\* listing, the quotes and the broker are not wrong for ever.
Fairness ==
  /\ SF_vars(List) /\ WF_vars(ReadFiles) /\ WF_vars(Looked) /\ WF_vars(ReleaseLoad)
  /\ WF_vars(ReleaseSave) /\ WF_vars(Tidy) /\ WF_vars(Save)
  /\ WF_vars(UserLoad) /\ WF_vars(UserSave) /\ SF_vars(NextDay)
  /\ \A c \in Code :
       /\ WF_vars(LookLow(c)) /\ WF_vars(LookFine(c))
       /\ SF_vars(\E s \in Sight : Sell(c, s))
       /\ SF_vars(FillSale(c)) /\ WF_vars(V8Mark(c)) /\ WF_vars(FillBuy(c))

FairSpec == Spec /\ Fairness

(***************************************************************************)
(* Properties.                                                             *)
(***************************************************************************)
TypeOK ==
  /\ held \in [Code -> 0..MaxHeld] /\ selling \in [Code -> 0..MaxHeld]
  /\ buying \in [Code -> 0..MaxHeld]
  /\ file \in [Code -> Position \cup {NoPos}] /\ mem \in [Code -> Position \cup {NoPos}]
  /\ manual \subseteq Code /\ owned \subseteq Code /\ tracked \subseteq Code
  /\ marking \subseteq Code /\ v8sold \subseteq Code /\ soldToday \subseteq Code
  /\ record \in [Code -> {"no", "open", "filled"}]
  /\ pc \in {"idle", "listed", "look", "release", "releasing", "save"}
  /\ hsnap \in [Code -> 0..MaxHeld]
  /\ vsnap \subseteq Code /\ msnap \subseteq Code /\ todo \subseteq Code
  /\ copy \subseteq Code /\ faults \in 0..Faults
  /\ upc \in {"idle", "ordered", "loaded"} /\ ucode \in Code /\ ucopy \subseteq Code
  /\ low \in [Code -> {"no", "new", "ripe"}]
  /\ born \in [Code -> 0..Unborn] /\ looked \in [Code -> 0..MaxHeld]
  /\ v8share \in [Code -> 0..MaxHeld] /\ lost \subseteq Code

\* STOP_CONFIRM_SECONDS and the rule of 2026-09-01: apart from positions held too
\* long, a sale follows a minute of the same day in which every look found the
\* code at its stop; a night or a recovery is no confirmation.
StopConfirmed ==
  [][\A c \in Code : selling'[c] > selling[c] =>
       low[c] = "ripe" \/ (mem[c] # NoPos /\ Overdue(mem[c]))]_vars

\* The repair of 2026-09-03 ("425420"): shares of a code without a sale keep
\* their age, whatever listings leave out, so MAX_HOLD_DAYS is not put off.
AgeKept ==
  pc = "idle" =>
    \A c \in Code \ (owned \cup manual \cup marking) :
      born[c] # Unborn /\ selling[c] = 0 => file[c] # NoPos /\ file[c].age >= born[c]

\* "Otherwise two modules sell the same position": whatever v8 buys, marks and
\* sells between the steps of the cycle, the legacy exit puts shares on sale
\* that v8 bought only when the ledger has ceased to name their code (a purge, a
\* release by a listing, a file stored over) or could not be read.
V8SharesKept == \A c \in Code \ lost : selling[c] + v8share[c] <= held[c]

\* Shares nobody else claims leave the account sooner or later, through
\* refusals, orders that expire and cycles that die.
SoldInTheEnd ==
  \A c \in Code : (held[c] > 0) ~> (held[c] = 0 \/ c \in owned \cup manual)

\* "When the code has really left the account the protection ends": the code
\* of a user's purchase stays protected while there are shares of it.
ProtectedUntilGone ==
  [][\A c \in Code : c \in manual /\ c \notin manual' => held'[c] = 0]_vars

=============================================================================
