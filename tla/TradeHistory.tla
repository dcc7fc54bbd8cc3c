---------------------------- MODULE TradeHistory ----------------------------
(***************************************************************************)
(* The trade history of one day: orders are recorded when the broker       *)
(* accepts them, and reconcile_fills writes what was really filled, every  *)
(* 15 minutes and a last time at 20:10, when a purchase without a fill is  *)
(* taken back from the history and from the positions.  Orders are         *)
(* numbered in the order in which they are placed; ord_no is the number.   *)
(***************************************************************************)
EXTENDS Integers, Sequences, SequencesExt

CONSTANTS
  ThCode,
  ThMaxOrders,   \* bound: orders of the day
  ThMaxQty,      \* bound: shares of one order
  ThFaults       \* bound: reconciliations that die

ASSUME ThAssumption ==
  /\ ThMaxOrders \in Nat /\ ThMaxQty \in Nat \ {0} /\ ThFaults \in Nat

\* who places an order: the mock purchase job, which also writes a position;
\* the legacy exit, which sells all of one; the user, who writes none
Who   == {"fire", "exit", "user"}
Order == [code : ThCode, who : Who, qty : 1..ThMaxQty,
          minute : 1..2,       \* orders of one minute are near each other
          tagged : BOOLEAN]    \* the broker's answer had an ord_no

VARIABLES
  thMarket,     \* "open", "closed", "final": the last reconciliation has run
  thOrders,     \* sequence of orders
  thGot,        \* shares filled, per order
  thHist,       \* the orders in the history
  thFill,       \* fill_qty, per order; 0 if it has none
  thPos,        \* positions: remaining, original, exited
  thHeld,       \* shares in the account
  \* reconcile_fills
  thPc, thLast, thFills, thRead, thBack, thFault,
  thReversed    \* orders taken back from the positions; no action reads it

thBroker == <<thMarket, thOrders, thGot, thHeld>>
thFiles  == <<thHist, thFill, thPos>>
thJob    == <<thPc, thLast, thFills, thRead, thBack, thFault>>
ThVars   == <<thBroker, thFiles, thJob, thReversed>>

ThIds   == 1..ThMaxOrders
NoPosition == [rem |-> 0, orig |-> 0, exited |-> FALSE]
Buy(o)  == o.who # "exit"
Nothing == [i \in ThIds |-> 0]
\* stock of earlier days, with its position
ThInit ==
  /\ thMarket = "open" /\ thOrders = <<>> /\ thGot = Nothing
  /\ thHeld \in [ThCode -> 0..1]
  /\ thHist = {} /\ thFill = Nothing
  /\ thPos = [c \in ThCode |-> [rem |-> thHeld[c], orig |-> thHeld[c], exited |-> FALSE]]
  /\ thPc = "idle" /\ thLast = FALSE /\ thFills = Nothing /\ thRead = {}
  /\ thBack = {} /\ thFault = 0 /\ thReversed = {}

(***************************************************************************)
(* Orders.  A sale is of the whole position; writing the record may fail.  *)
(***************************************************************************)
Place(o) ==
  LET n == Len(thOrders) + 1
      total == thPos[o.code].rem + o.qty IN
  /\ thMarket = "open" /\ n <= ThMaxOrders
  /\ n > 1 => o.minute >= thOrders[n - 1].minute
  /\ o.who = "user" \/ o.tagged
  /\ o.who = "fire" => thHeld[o.code] = thPos[o.code].rem \/ thPos[o.code].exited
  /\ o.who = "exit" => thPos[o.code].rem = o.qty /\ ~thPos[o.code].exited
                         /\ thHeld[o.code] = o.qty
  /\ thOrders' = Append(thOrders, o)
  /\ thHist' \in {thHist, thHist \cup {n}}
  /\ thPos' = [thPos EXCEPT ![o.code] =
                 CASE o.who = "user" -> @
                   [] o.who = "exit" -> [@ EXCEPT !.rem = 0, !.exited = TRUE]
                   [] o.who = "fire" -> [rem |-> total, orig |-> total, exited |-> FALSE]]
  /\ UNCHANGED <<thMarket, thGot, thHeld, thFill, thJob, thReversed>>

\* market orders are filled whole, in part, or (no counterparty) not at all
FillOrder(i) ==
  LET o == thOrders[i] IN
  /\ thMarket = "open" /\ i \in DOMAIN thOrders /\ thGot[i] = 0
  /\ \E n \in 1..o.qty :
       /\ thGot' = [thGot EXCEPT ![i] = n]
       /\ Buy(o) \/ thHeld[o.code] >= n
       /\ thHeld' = [thHeld EXCEPT ![o.code] = IF Buy(o) THEN @ + n ELSE @ - n]
  /\ UNCHANGED <<thMarket, thOrders, thFiles, thJob, thReversed>>

Close ==
  /\ thMarket = "open"
  /\ thMarket' = "closed"
  /\ UNCHANGED <<thOrders, thGot, thHeld, thFiles, thJob, thReversed>>

(***************************************************************************)
(* reconcile_fills: the broker's fills, then the file, then the new file.  *)
(***************************************************************************)
Fetch_FinalAnyTime(last) ==                                      \* mutant
  /\ thPc = "idle"
  /\ thFills' = thGot /\ thLast' = last
  /\ thPc' = "fetched"
  /\ UNCHANGED <<thBroker, thFiles, thRead, thBack, thFault, thReversed>>
Fetch(last) ==
  /\ thPc = "idle" /\ thMarket # "final"
  /\ last => thMarket = "closed"
  /\ thFills' = thGot /\ thLast' = last
  /\ thPc' = "fetched"
  /\ UNCHANGED <<thBroker, thFiles, thRead, thBack, thFault, thReversed>>

ReadHistory ==
  /\ thPc = "fetched"
  /\ thRead' = thHist
  /\ thPc' = "read"
  /\ UNCHANGED <<thBroker, thFiles, thLast, thFills, thBack, thFault, thReversed>>

\* a fill of the same code, side and quantity within two minutes (_match_legacy),
\* the nearest one that no earlier record of the file has taken
Gap(i, j) == IF i < j THEN j - i ELSE i - j
Near(i, used) ==
  {j \in DOMAIN thOrders \ used :
     /\ thFills[j] = thOrders[i].qty
     /\ thOrders[j].code = thOrders[i].code
     /\ Buy(thOrders[j]) = Buy(thOrders[i])
     /\ thOrders[j].minute = thOrders[i].minute}
Nearest(i, used) ==
  CHOOSE j \in Near(i, used) : \A k \in Near(i, used) : Gap(i, j) <= Gap(i, k)

\* one record: it takes the fill of its own number, else the nearest
Settle1(acc, i) ==
  CASE i \notin thRead \/ thFill[i] > 0 -> acc
    [] thOrders[i].tagged /\ thFills[i] > 0 ->
         [used |-> acc.used \cup {i}, fill |-> [acc.fill EXCEPT ![i] = thFills[i]]]
    [] Near(i, acc.used) # {} ->
         LET j == Nearest(i, acc.used) IN
         [used |-> acc.used \cup {j}, fill |-> [acc.fill EXCEPT ![i] = thFills[j]]]
    [] OTHER -> acc
Settled == FoldLeft(Settle1, [used |-> {}, fill |-> thFill],
                    [i \in 1..Len(thOrders) |-> i]).fill

\* purchases that have no fill at the end of the day: only numbered ones
Unfilled(fill) ==
  {i \in thRead : thLast /\ fill[i] = 0 /\ Buy(thOrders[i]) /\ thOrders[i].tagged}

\* os.replace: what was appended since the file was read is lost
Replace ==
  /\ thPc = "read"
  /\ thBack' = Unfilled(Settled)
  /\ thFill' = Settled
  /\ thHist' = IF Settled # thFill \/ thBack' # {} THEN thRead \ thBack' ELSE thHist
  /\ thPc' = "replaced"
  /\ UNCHANGED <<thBroker, thPos, thLast, thFills, thRead, thFault, thReversed>>

\* _reverse_unfilled_buys for the orders of b, one after the other
TakeBack(p, q) ==
  IF p.exited THEN p
  ELSE IF p.rem <= q /\ p.orig <= q THEN NoPosition
  ELSE [p EXCEPT !.rem = IF @ > q THEN @ - q ELSE 0,
                 !.orig = IF @ > q THEN @ - q ELSE 0]
TakenBack_Whole(pos, b) ==                                       \* mutant
  [c \in ThCode |-> IF \E i \in b : thOrders[i].code = c THEN NoPosition ELSE pos[c]]
TakenBack(pos, b) ==
  FoldLeft(LAMBDA p, i : IF i \in b THEN [p EXCEPT ![thOrders[i].code] =
                                            TakeBack(@, thOrders[i].qty)] ELSE p,
           pos, [i \in 1..Len(thOrders) |-> i])

Rest == /\ thPc' = "idle" /\ thLast' = FALSE /\ thFills' = Nothing /\ thRead' = {}
        /\ thBack' = {}

ReverseUnfilled ==
  /\ thPc = "replaced"
  /\ thPos' = TakenBack(thPos, thBack)
  /\ thReversed' = thReversed \cup thBack
  /\ thMarket' = IF thLast THEN "final" ELSE thMarket
  /\ Rest
  /\ UNCHANGED <<thOrders, thGot, thHeld, thHist, thFill, thFault>>

\* the query fails, or the process stops
DieReconciling ==
  /\ thPc # "idle" /\ thFault < ThFaults
  /\ thFault' = thFault + 1
  /\ Rest
  /\ UNCHANGED <<thBroker, thFiles, thReversed>>

ThNext ==
  \/ \E o \in Order : Place(o)
  \/ \E i \in DOMAIN thOrders : FillOrder(i)
  \/ Close \/ ReadHistory \/ Replace \/ ReverseUnfilled \/ DieReconciling
  \/ \E last \in BOOLEAN : Fetch(last)

ThSpec == ThInit /\ [][ThNext]_ThVars

(***************************************************************************)
(* Properties.                                                             *)
(***************************************************************************)
ThTypeOK ==
  /\ thMarket \in {"open", "closed", "final"} /\ thOrders \in Seq(Order)
  /\ thGot \in [ThIds -> 0..ThMaxQty] /\ thFill \in [ThIds -> 0..ThMaxQty]
  /\ thHist \subseteq DOMAIN thOrders /\ thRead \subseteq DOMAIN thOrders
  /\ thBack \subseteq DOMAIN thOrders /\ thReversed \subseteq DOMAIN thOrders
  /\ thHeld \in [ThCode -> Nat]
  /\ \A c \in ThCode : thPos[c].rem <= thPos[c].orig
  /\ thPc \in {"idle", "fetched", "read", "replaced"} /\ thLast \in BOOLEAN
  /\ thFills \in [ThIds -> 0..ThMaxQty] /\ thFault \in 0..ThFaults

\* another fill may be taken for the one of order i
Twin(i) == \E j \in DOMAIN thOrders \ {i} :
  /\ thOrders[j].code = thOrders[i].code /\ Buy(thOrders[j]) = Buy(thOrders[i])
  /\ thOrders[j].minute = thOrders[i].minute

\* "If even the last reconciliation finds no fill it was never filled": the shares
\* of a purchase that was filled, whole or in part, stay in the position, at
\* whatever moments the fill, the query and the two files' writes happen.
FilledNotReversed ==
  \A i \in thReversed : thGot[i] = 0

\* The accident of 2026-09-08: after the last reconciliation a position is not
\* larger than the account, and not smaller either, unless the record of an order
\* was lost, an order was filled in part, a sale was not filled, or the user had one.
PositionBacked ==
  thMarket = "final" =>
    \A c \in ThCode :
      LET mine == {i \in DOMAIN thOrders : thOrders[i].code = c} IN
      \/ thPos[c].exited
      \/ \E i \in mine : \/ i \notin thHist \cup thReversed
                         \/ thGot[i] \notin {0, thOrders[i].qty}
                         \/ thOrders[i].who = "exit" /\ thGot[i] = 0
                         \/ thOrders[i].who = "user"
                         \/ Twin(i) \/ (~thOrders[i].tagged /\ thGot[i] = 0)
      \/ thPos[c].rem = thHeld[c]

\* The reconciliation, whatever it misses: what it takes back was not bought, and what it
\* leaves is what the account holds.
HistoryAgrees == FilledNotReversed /\ PositionBacked
=============================================================================
