----------------------------- MODULE V8BuyProofs -----------------------------
(***************************************************************************)
(* Proofs about the v8 buy job, for any codes, limits and lots.            *)
(***************************************************************************)
EXTENDS V8Buy, FiniteSetTheorems, TLAPS

(***************************************************************************)
(* What the operators of the module return.                                *)
(***************************************************************************)

\* The codes of a listing are finitely many codes.
LEMMA OfFinite ==
  ASSUME NEW f \in [Code -> Nat]
  PROVE  Of(f) \subseteq Code /\ IsFiniteSet(Of(f)) /\ Cardinality(Of(f)) \in Nat
<1>1. Of(f) \subseteq Code
  BY DEF Of
<1>2. IsFiniteSet(Of(f))
  BY <1>1, CodeAssumption, FS_Subset
<1> QED
  BY <1>1, <1>2, FS_CardinalityType

\* A cycle that is over leaves canonical locals.
LEMMA ForgetType ==
  ASSUME Forget
  PROVE  /\ pc' = "idle" /\ hsnap' = None /\ osnap' = None
         /\ None \in [Code -> Nat] /\ Of(None) = {}
         /\ prev' = {} /\ cands' = {} /\ todo' = {} /\ newly' = {}
         /\ cur' \in Code /\ slots' = 0 /\ placed' = 0
  BY CodeAssumption DEF Forget, None, Of, AnyCode

(***************************************************************************)
(* Type correctness.  It needs to know which codes each loop goes through: *)
(* the loops that cancel and order never come to a code that the listing   *)
(* of the account shows.                                                   *)
(***************************************************************************)
Loops ==
  /\ pc = "detect" => todo \subseteq Of(hsnap) \ Of(osnap)
  /\ pc \in {"drop", "resize", "again", "place", "mark"} => cands \cap Of(hsnap) = {}
  /\ pc = "drop" => todo \cap Of(hsnap) = {}
  /\ pc \in {"resize", "again"} => Room > 0 /\ todo \subseteq cands \cap Of(osnap)
  /\ pc = "again" => cur \in (cands \cap Of(osnap)) \ todo
  /\ pc \in {"place", "mark"} => todo \subseteq cands
  /\ pc = "mark" => cur \in cands \ todo
  /\ pc \in {"place", "mark"} => newly \subseteq cands
  /\ pc \notin {"place", "mark"} => newly = {}

TypeInv == TypeOK /\ Loops

LEMMA TypeInit == Init => TypeInv
<1> SUFFICES ASSUME Init
             PROVE  TypeInv
  OBVIOUS
<1>1. None \in [Code -> Nat] /\ AnyCode \in Code /\ 0 \in 0 .. MAX_OPEN_ORDERS
  BY CodeAssumption, BoundAssumption DEF None, AnyCode
<1>2. TypeOK
  BY <1>1 DEF Init, TypeOK, Stage
<1>3. Loops
  BY DEF Init, Loops
<1> QED
  BY <1>2, <1>3 DEF TypeInv

\* What the cycle reads.
LEMMA TypeReading ==
  ASSUME TypeInv, Reading \/ (\E c \in Code : Detect(c))
  PROVE  TypeInv'
<1> USE DEF TypeInv
<1>1. CASE ListHoldings
  BY <1>1 DEF ListHoldings, TypeOK, Loops, Stage, market, ledger, outside, counts, history
<1>2. ASSUME NEW listing \in [Code -> Nat], ListUnfilled(listing)
      PROVE  TypeInv'
  <2>1. todo' \subseteq Of(hsnap') \ Of(osnap') /\ Of(hsnap) \subseteq Code
    BY <1>2 DEF ListUnfilled, Of
  <2> QED
    BY <1>2, <2>1 DEF ListUnfilled, TypeOK, Loops, Stage, market, ledger, outside, counts
<1>3. CASE GiveUp
  BY <1>3, ForgetType, BoundAssumption
     DEF GiveUp, TypeOK, Loops, Stage, market, ledger, outside, history
<1>4. CASE ListNothing
  BY <1>2, <1>4 DEF ListNothing, None
<1>5. CASE ListUnfilled(open)
  BY <1>2, <1>5 DEF TypeOK
<1>6. ASSUME NEW c \in Code, Detect(c)
      PROVE  TypeInv'
  <2> DEFINE delta == hsnap[c] - filled[c]
  <2>1. hsnap[c] \in Nat /\ filled[c] \in Nat /\ recorded[c] \in Nat
    BY DEF TypeOK
  <2>2. /\ filled' = [filled EXCEPT ![c] = hsnap[c]]
        /\ recorded' = IF delta > 0 /\ c \in prev
                         THEN [recorded EXCEPT ![c] = @ + delta] ELSE recorded
        /\ waiting' \subseteq Code
    BY <1>6 DEF Detect, TypeOK
  <2>3. filled' \in [Code -> Nat] /\ recorded' \in [Code -> Nat]
    BY <2>1, <2>2 DEF TypeOK
  <2> QED
    BY <1>6, <2>2, <2>3 DEF Detect, TypeOK, Loops, market, outside, lists, counts
<1> QED
  BY <1>1, <1>3, <1>4, <1>5, <1>6 DEF Reading

\* A cancellation leaves no more on order than there was.
LEMMA CancelType ==
  ASSUME TypeInv, NEW c \in Code,
         \/ Cancelled(c)
         \/ open' \in {open, [open EXCEPT ![c] = Larger(0, @ - osnap[c])]}
  PROVE  /\ open' \in [Code -> Nat]
         /\ \A d \in Code : open'[d] <= open[d] /\ (d # c => open'[d] = open[d])
<1>1. open[c] \in Nat /\ osnap[c] \in Nat
  BY DEF TypeInv, TypeOK
<1>2. Larger(0, open[c] - osnap[c]) \in 0 .. open[c]
  BY <1>1 DEF Larger
<1>3. open' = open \/ open' = [open EXCEPT ![c] = Larger(0, open[c] - osnap[c])]
  BY DEF Cancelled
<1> QED
  BY <1>1, <1>2, <1>3 DEF TypeInv, TypeOK

\* A new order is for one lot of one code.
LEMMA ResizeOrderType ==
  ASSUME TypeInv, ResizeOrder
  PROVE  /\ open' \in [Code -> Nat]
         /\ open' = open \/ open' = [open EXCEPT ![cur] = @ + Lot]
  BY BoundAssumption DEF ResizeOrder, TypeInv, TypeOK

\* Orders.
LEMMA TypeOrdering ==
  ASSUME TypeInv, Ordering \/ StayOut
  PROVE  TypeInv'
<1> USE DEF TypeInv
<1>1. Of(hsnap) \subseteq Code /\ Of(osnap) \subseteq Code
  BY OfFinite DEF TypeOK
<1>2. ASSUME NEW chosen \in SUBSET waiting, Plan(chosen)
      PROVE  TypeInv'
  <2>1. /\ cands' \subseteq Code /\ todo' \subseteq Code
        /\ cands' \cap Of(hsnap) = {} /\ todo' \cap Of(hsnap) = {}
    BY <1>1, <1>2 DEF Plan, TypeOK
  <2> QED
    BY <1>2, <2>1 DEF Plan, TypeOK, Loops, Stage, market, ledger, outside, counts, history
<1>3. ASSUME NEW off \in SUBSET Code, Review(off)
      PROVE  TypeInv'
  <2>1. Room' = Room
    BY <1>3 DEF Review, Room, lists
  <2> QED
    BY <1>3, <2>1 DEF Review, TypeOK, Loops, Stage, market, ledger, outside, lists, counts, history
<1>4. ASSUME NEW c \in Code, Drop(c)
      PROVE  TypeInv'
  <2>1. open' \in [Code -> Nat]
    BY <1>4, CancelType DEF Drop
  <2> QED
    BY <1>4, <2>1 DEF Drop, TypeOK, Loops, Of, outside, counts, history
<1>5. ASSUME NEW c \in Code, CancelTimesOut(c)
      PROVE  TypeInv'
  <2>1. open' \in [Code -> Nat]
    BY <1>5, CancelType DEF CancelTimesOut
  <2>2. Room' = Room
    BY <1>5 DEF CancelTimesOut, Room, lists
  <2> QED
    BY <1>5, <2>1, <2>2 DEF CancelTimesOut, TypeOK, Loops, ledger, outside, lists, counts, history
<1>6. ASSUME NEW c \in Code, ResizeCancel(c)
      PROVE  TypeInv'
  <2>1. open' \in [Code -> Nat]
    BY <1>6, CancelType DEF ResizeCancel
  <2>2. Room' = Room
    BY <1>6 DEF ResizeCancel, Room, lists
  <2> QED
    BY <1>6, <2>1, <2>2 DEF ResizeCancel, TypeOK, Loops, Stage, ledger, outside, lists, counts, history
<1>7. ASSUME NEW c \in Code, Place(c)
      PROVE  TypeInv'
  <2>1. open' \in [Code -> Nat]
    BY <1>7, BoundAssumption DEF Place, TypeOK
  <2> QED
    BY <1>7, <2>1 DEF Place, TypeOK, Loops, Stage, ledger, outside, lists, counts, history
<1>8. ASSUME NEW c \in Code, NotPlaced(c)
      PROVE  TypeInv'
  BY <1>8 DEF NotPlaced, TypeOK, Loops, market, ledger, outside, lists, counts, history
<1>9. CASE NoRoom \/ StayOut
  BY <1>1, <1>9, ForgetType, BoundAssumption
     DEF NoRoom, StayOut, TypeOK, Loops, Stage, market, outside, history
<1>10. CASE ResizeBuy
  <2>1. open' \in [Code -> Nat]
    BY <1>10, ResizeOrderType DEF ResizeBuy
  <2>2. osnap' \in [Code -> Nat] /\ Of(osnap') = Of(osnap)
    BY <1>10, BoundAssumption DEF ResizeBuy, TypeOK, Loops, Of
  <2>3. Room' = Room
    BY <1>10 DEF ResizeBuy, Room
  <2> QED
    BY <1>10, <2>1, <2>2, <2>3 DEF ResizeBuy, TypeOK, Loops, Stage, outside, counts, history
<1>11. CASE BuyTimesOut
  <2>1. open' \in [Code -> Nat]
    BY <1>11, ResizeOrderType DEF BuyTimesOut
  <2>2. Room' = Room
    BY <1>11 DEF BuyTimesOut, Room, lists
  <2> QED
    BY <1>11, <2>1, <2>2 DEF BuyTimesOut, TypeOK, Loops, Stage, ledger, outside, lists, counts, history
<1>12. CASE Mark
  BY <1>12 DEF Mark, TypeOK, Loops, Stage, market, outside, lists, history
<1>13. CASE Done
  BY <1>1, <1>13, ForgetType, BoundAssumption
     DEF Done, TypeOK, Loops, Stage, market, outside, history
<1>14. ASSUME NEW money \in 0 .. MAX_OPEN_ORDERS, Count(money)
      PROVE  TypeInv'
  <2>1. Room \in Nat
    BY <1>14, OfFinite, BoundAssumption DEF Count, Loops, Room, TypeOK
  <2>2. slots' \in 0 .. MAX_OPEN_ORDERS
    BY <1>14, <2>1, BoundAssumption DEF Count, Smaller
  <2>3. placed' \in Nat
    BY <1>14, OfFinite DEF Count, TypeOK
  <2> QED
    BY <1>14, <2>2, <2>3 DEF Count, TypeOK, Loops, Stage, market, ledger, outside, lists, history
<1> QED
  BY <1>2, <1>3, <1>4, <1>5, <1>6, <1>7, <1>8, <1>9, <1>10, <1>11, <1>12, <1>13, <1>14
     DEF Ordering

\* The other actors, and the death of a cycle.
LEMMA TypeOthers ==
  ASSUME TypeInv, Others \/ Crash
  PROVE  TypeInv'
<1> USE DEF TypeInv
<1>1. ASSUME UNCHANGED <<pc, locals>>
      PROVE  Loops'
  BY <1>1 DEF locals, lists, counts, Loops, Room
<1>2. CASE Crash
  BY <1>2, ForgetType, BoundAssumption
     DEF Crash, TypeOK, Loops, Stage, market, ledger, outside
<1>3. CASE Close \/ Morning \/ Switch
  <2>1. open' \in [Code -> Nat]
    BY <1>3 DEF Close, Morning, Switch, None, TypeOK, market
  <2>2. trading' \in BOOLEAN /\ autobuy' \in BOOLEAN
    BY <1>3, Zenon DEF Close, Morning, Switch, TypeOK, market, outside
  <2> QED
    BY <1>1, <1>3, <2>1, <2>2
       DEF Close, Morning, Switch, TypeOK, market, ledger, outside, locals, lists, counts, history
<1>4. ASSUME NEW limits \in SUBSET Code, NEW old \in SUBSET owned, Screen(limits, old)
      PROVE  TypeInv'
  BY <1>1, <1>4 DEF Screen, TypeOK, market, outside, locals, lists, counts, history
<1>5. ASSUME NEW codes \in SUBSET Code, UserCancel(codes)
      PROVE  TypeInv'
  BY <1>1, <1>5 DEF UserCancel, TypeOK, ledger, outside, locals, lists, counts, history
<1>6. ASSUME NEW c \in Code, ExitSell(c) \/ ExitMiss(c) \/ ExitRelease(c)
      PROVE  TypeInv'
  BY <1>1, <1>6 DEF ExitSell, ExitMiss, ExitRelease, TypeOK, market, ledger, locals, lists,
                    counts, history
<1>7. ASSUME NEW c \in Code, UserBuy(c)
      PROVE  TypeInv'
  BY <1>1, <1>7, BoundAssumption DEF UserBuy, TypeOK, ledger, outside, locals, lists, counts
<1>8. ASSUME NEW c \in Code, NEW n \in 1 .. MaxBought, Fill(c, n)
      PROVE  TypeInv'
  <2>1. held[c] \in Nat /\ open[c] \in Nat /\ bought[c] \in Nat /\ n \in 1 .. open[c]
    BY <1>8 DEF Fill, TypeOK
  <2>2. held' \in [Code -> Nat] /\ open' \in [Code -> Nat] /\ bought' \in [Code -> Nat]
    BY <1>8, <2>1 DEF Fill, TypeOK
  <2> QED
    BY <1>1, <1>8, <2>2 DEF Fill, TypeOK, ledger, outside, locals, lists, counts
<1>9. ASSUME NEW c \in Code, NEW n \in 1 .. MaxBought, UserSell(c, n)
      PROVE  TypeInv'
  <2>1. held[c] \in Nat /\ n \in 1 .. held[c]
    BY <1>9 DEF UserSell, TypeOK
  <2>2. held' \in [Code -> Nat]
    BY <1>9, <2>1 DEF UserSell, TypeOK
  <2> QED
    BY <1>1, <1>9, <2>2 DEF UserSell, TypeOK, ledger, outside, locals, lists, counts, history
<1> QED
  BY <1>2, <1>3, <1>4, <1>5, <1>6, <1>7, <1>8, <1>9 DEF Others

LEMMA TypeStep == TypeInv /\ [Next]_vars => TypeInv'
<1> SUFFICES ASSUME TypeInv, [Next]_vars
             PROVE  TypeInv'
  OBVIOUS
<1>1. CASE UNCHANGED vars
  BY <1>1 DEF vars, market, ledger, outside, locals, lists, counts, history, TypeInv,
              TypeOK, Loops, Room
<1> QED
  BY <1>1, TypeReading, TypeOrdering, TypeOthers DEF Next, Cycle

LEMMA TypeInvariant == Spec => []TypeInv
  BY TypeInit, TypeStep, PTL DEF Spec

\* The state of the buy job is what its code takes it for: quantities are
\* never negative, and the number of orders it may place never exceeds the
\* limit, whatever the broker, the user and the exit job do in between.
THEOREM TypeCorrect == Spec => []TypeOK
<1>1. TypeInv => TypeOK
  BY DEF TypeInv
<1> QED
  BY <1>1, TypeInvariant, PTL

(***************************************************************************)
(* The trade history.  As long as a code is not hurt, it is "unsold and    *)
(* unrecorded" when it has an open order, when the last cycle left it open *)
(* and when the account did not hold it as it was listed: what the account *)
(* has of it was never recorded.  A cycle can therefore record all of what *)
(* it listed of such a code; filled_qty may say anything.  A cycle that    *)
(* dies takes this from a code only if it had seen it held.                *)
(***************************************************************************)
Unrecorded(c) == recorded[c] + held[c] <= bought[c] + given[c]

Books ==
  \A c \in Code \ hurt :
    /\ recorded[c] <= bought[c] + given[c]
    /\ open[c] > 0 => Unrecorded(c)
    /\ pc \in {"idle", "listed"} /\ c \in prevOpen => Unrecorded(c)
    /\ pc = "listed" /\ c \in prevOpen => recorded[c] + hsnap[c] <= bought[c] + given[c]
    /\ pc = "detect" /\ c \in todo =>
         /\ open[c] = 0
         /\ c \in prev => recorded[c] + hsnap[c] <= bought[c] + given[c]
    /\ pc \notin {"idle", "listed"} /\ osnap[c] > 0 => Unrecorded(c)
    /\ pc # "idle" /\ hsnap[c] = 0 => Unrecorded(c)

BookInv == TypeInv /\ Books

LEMMA BookInit == Init => BookInv
<1> SUFFICES ASSUME Init
             PROVE  Books
  BY TypeInit DEF BookInv
<1> QED
  BY DEF Init, Books, Unrecorded, None

\* What a step outside the cycle does to a code: shares that enter the account
\* are counted, and no order is opened.
Counted(c) ==
  /\ bought[c] + given[c] <= bought'[c] + given'[c]
  /\ held'[c] + bought[c] + given[c] <= held[c] + bought'[c] + given'[c]
  /\ open'[c] > 0 => open[c] > 0

\* A step that leaves the cycle alone and changes quantities only so that
\* nothing enters the account without being counted.
LEMMA BookOutside ==
  ASSUME TypeInv, Books, UNCHANGED <<pc, prevOpen, locals, recorded, hurt>>,
         bought' \in [Code -> Nat], given' \in [Code -> Nat],
         held' \in [Code -> Nat], open' \in [Code -> Nat],
         \A c \in Code : Counted(c)
  PROVE  Books'
<1> SUFFICES ASSUME NEW c \in Code \ hurt
             PROVE  /\ recorded'[c] <= bought'[c] + given'[c]
                    /\ open'[c] > 0 => Unrecorded(c)'
                    /\ pc' \in {"idle", "listed"} /\ c \in prevOpen' => Unrecorded(c)'
                    /\ pc' = "listed" /\ c \in prevOpen' =>
                         recorded'[c] + hsnap'[c] <= bought'[c] + given'[c]
                    /\ pc' = "detect" /\ c \in todo' =>
                         /\ open'[c] = 0
                         /\ c \in prev' => recorded'[c] + hsnap'[c] <= bought'[c] + given'[c]
                    /\ pc' \notin {"idle", "listed"} /\ osnap'[c] > 0 => Unrecorded(c)'
                    /\ pc' # "idle" /\ hsnap'[c] = 0 => Unrecorded(c)'
  BY DEF Books
<1>1. /\ bought[c] \in Nat /\ given[c] \in Nat /\ held[c] \in Nat /\ open[c] \in Nat
      /\ recorded[c] \in Nat /\ hsnap[c] \in Nat
      /\ bought'[c] \in Nat /\ given'[c] \in Nat /\ held'[c] \in Nat /\ open'[c] \in Nat
  BY DEF TypeInv, TypeOK
<1>2. Unrecorded(c) => Unrecorded(c)'
  BY <1>1 DEF Unrecorded, Counted
<1> QED
  BY <1>1, <1>2 DEF Books, locals, lists, Counted

\* A step of the cycle that moves no shares and records nothing.
LEMMA BookInside ==
  ASSUME TypeInv, Books, UNCHANGED <<held, bought, given, recorded>>
  PROVE  /\ \A c \in Code \ hurt : recorded'[c] <= bought'[c] + given'[c]
         /\ \A c \in Code : Unrecorded(c)' <=> Unrecorded(c)
  BY DEF Books, Unrecorded

\* What the cycle reads and records.
LEMMA BookReading ==
  ASSUME TypeInv, Books, Reading \/ Crash \/ (\E c \in Code : Detect(c))
  PROVE  Books'
<1> USE DEF TypeInv
<1>0. /\ \A c \in Code : /\ held[c] \in Nat /\ open[c] \in Nat /\ bought[c] \in Nat
                         /\ given[c] \in Nat /\ recorded[c] \in Nat /\ hsnap[c] \in Nat
      /\ \A c \in Code : filled[c] \in Nat
  BY DEF TypeOK
<1>1. CASE ListHoldings
  BY <1>0, <1>1 DEF ListHoldings, Books, Unrecorded, market, ledger, history
<1>2. CASE ListUnfilled(open) \/ ListNothing
  <2>1. PICK listing : ListUnfilled(listing)
    BY <1>2 DEF ListNothing
  <2>2. /\ \A c \in Code \ hurt' : c \notin hurt /\ listing[c] = open[c]
        /\ pc = "listed" /\ pc' = "detect" /\ osnap' = listing /\ prev' = prevOpen
        /\ todo' = (Of(hsnap) \cap owned) \ Of(listing)
        /\ UNCHANGED <<held, open, prevOpen, hsnap, bought, given, recorded>>
    BY <2>1 DEF ListUnfilled, market, ledger
  <2>3. ASSUME NEW c \in Code \ hurt'
        PROVE  c \in todo' => open[c] = 0
    BY <1>0, <2>2, <2>3 DEF Of
  <2> QED
    BY <1>0, <2>2, <2>3 DEF Books, Unrecorded
<1>3. CASE GiveUp
  BY <1>3, ForgetType DEF GiveUp, Books, Unrecorded, market, ledger, history
<1>4. ASSUME NEW c \in Code, Detect(c)
      PROVE  Books'
  <2>1. /\ pc = "detect" /\ c \in todo /\ osnap[c] = 0 /\ hsnap[c] > 0
        /\ c \notin hurt => open[c] = 0
        /\ c \notin hurt /\ c \in prev => recorded[c] + hsnap[c] <= bought[c] + given[c]
    BY <1>4 DEF Detect, Books, Loops, Of, TypeOK
  <2>2. /\ c \notin hurt => recorded'[c] <= bought[c] + given[c]
        /\ \A d \in Code : d # c => recorded'[d] = recorded[d]
    BY <1>0, <1>4, <2>1 DEF Detect, Books, TypeOK
  <2>3. /\ UNCHANGED <<held, open, bought, given, pc, hsnap, osnap, prev, prevOpen, hurt>>
        /\ todo' = todo \ {c}
    BY <1>4 DEF Detect, market, lists
  <2> QED
    BY <2>1, <2>2, <2>3 DEF Books, Unrecorded
\* what a dead cycle had not seen held it cannot have recorded
<1>5. CASE Crash
  <2>1. /\ pc' = "idle" /\ pc # "idle" /\ hurt' = hurt \cup (prevOpen \cap Of(hsnap))
        /\ UNCHANGED <<held, open, prevOpen, bought, given, recorded>>
    BY <1>5, ForgetType DEF Crash, market, ledger
  <2>2. \A c \in Code \ hurt' : c \notin hurt /\ (c \in prevOpen => hsnap[c] = 0)
    BY <1>0, <2>1 DEF Of
  <2> QED
    BY <2>1, <2>2 DEF Books, Unrecorded
<1> QED
  BY <1>1, <1>2, <1>3, <1>4, <1>5 DEF Reading

\* Orders.
LEMMA BookOrdering ==
  ASSUME TypeInv, Books, Ordering \/ StayOut
  PROVE  Books'
<1> USE DEF TypeInv
<1>0. \A c \in Code : /\ open[c] \in Nat /\ hsnap[c] \in Nat /\ osnap[c] \in Nat
  BY DEF TypeOK
<1>1. UNCHANGED <<held, bought, given, recorded, hurt>>
  BY DEF Ordering, StayOut, Plan, Review, Drop, CancelTimesOut, ResizeCancel, Place, NotPlaced,
         NoRoom, ResizeBuy, BuyTimesOut, Mark, Done, Count, market, history
<1>2. /\ \A c \in Code \ hurt : recorded'[c] <= bought'[c] + given'[c]
      /\ \A c \in Code : Unrecorded(c)' <=> Unrecorded(c)
  BY <1>1, BookInside
<1>3. ASSUME pc' \notin {"idle", "listed", "detect"}, pc \notin {"idle", "listed"},
             hsnap' = hsnap,
             \A c \in Code \ hurt : open'[c] > 0 => Unrecorded(c),
             \A c \in Code \ hurt : osnap'[c] > 0 => Unrecorded(c)
      PROVE  Books'
  BY <1>1, <1>2, <1>3 DEF Books
<1>4. ASSUME NEW c \in Code, Drop(c)
      PROVE  Books'
  <2>1. \A d \in Code : open'[d] <= open[d] /\ open'[d] \in Nat
    BY <1>4, CancelType DEF Drop
  <2> QED
    BY <1>0, <1>3, <1>4, <2>1 DEF Drop, Books, TypeOK
<1>5. ASSUME NEW c \in Code, CancelTimesOut(c) \/ ResizeCancel(c)
      PROVE  Books'
  <2>1. \A d \in Code : open'[d] <= open[d] /\ open'[d] \in Nat
    BY <1>5, CancelType DEF CancelTimesOut, ResizeCancel
  <2>2. osnap' = osnap /\ hsnap' = hsnap
    BY <1>5 DEF CancelTimesOut, ResizeCancel, lists
  <2> QED
    BY <1>0, <1>3, <1>5, <2>1, <2>2 DEF CancelTimesOut, ResizeCancel, Books
<1>6. CASE ResizeBuy \/ BuyTimesOut
  <2>1. (cur \notin hurt => Unrecorded(cur)) /\ pc = "again"
    BY <1>6 DEF ResizeBuy, BuyTimesOut, Loops, Books, Of, TypeOK
  <2>2. \A d \in Code \ hurt : open'[d] > 0 => Unrecorded(d)
    BY <1>6, <2>1, ResizeOrderType DEF ResizeBuy, BuyTimesOut, Books, TypeOK
  <2>3. \A d \in Code \ hurt : osnap'[d] > 0 => Unrecorded(d)
    BY <1>6, <2>1 DEF ResizeBuy, BuyTimesOut, Books, TypeOK, lists
  <2> QED
    BY <1>3, <1>6, <2>1, <2>2, <2>3 DEF ResizeBuy, BuyTimesOut, lists
<1>7. ASSUME NEW c \in Code, Place(c)
      PROVE  Books'
  <2>1. c \notin hurt => Unrecorded(c)
    BY <1>0, <1>7 DEF Place, Loops, Of, Books
  <2>2. \A d \in Code \ hurt : open'[d] > 0 => Unrecorded(d)
    BY <1>7, <2>1 DEF Place, Books, TypeOK
  <2> QED
    BY <1>3, <1>7, <2>2 DEF Place, Books, lists
<1>8. CASE Mark \/ (\E c \in Code : NotPlaced(c)) \/ (\E off \in SUBSET Code : Review(off))
           \/ (\E money \in 0 .. MAX_OPEN_ORDERS : Count(money))
           \/ (\E chosen \in SUBSET waiting : Plan(chosen))
  <2>1. /\ pc' \notin {"idle", "listed", "detect"} /\ pc \notin {"idle", "listed"}
        /\ UNCHANGED <<open, osnap, hsnap>>
    BY <1>8 DEF Mark, NotPlaced, Review, Count, Plan, lists, market
  <2> QED
    BY <1>3, <2>1 DEF Books
<1>9. CASE NoRoom \/ StayOut \/ Done
  <2>1. /\ pc' = "idle" /\ pc \notin {"idle", "listed"} /\ open' = open
        /\ prevOpen' = Of(osnap) \/ prevOpen' = Of(osnap) \cup newly
    BY <1>9, ForgetType DEF NoRoom, StayOut, Done, market
  <2>2. \A c \in newly : pc # "idle" /\ hsnap[c] = 0
    BY <1>0 DEF Loops, Of, TypeOK
  <2>3. \A c \in Code \ hurt : c \in prevOpen' => Unrecorded(c)
    BY <2>1, <2>2 DEF Books, Of
  <2> QED
    BY <1>1, <1>2, <2>1, <2>3 DEF Books
<1> QED
  BY <1>4, <1>5, <1>6, <1>7, <1>8, <1>9 DEF Ordering

\* The other actors.
LEMMA BookOthers ==
  ASSUME TypeInv, TypeInv', Books, Others
  PROVE  Books'
<1> USE DEF TypeInv
<1>0. \A c \in Code : /\ held[c] \in Nat /\ open[c] \in Nat /\ bought[c] \in Nat
                      /\ given[c] \in Nat
  BY DEF TypeOK
<1>1. UNCHANGED <<pc, prevOpen, locals, recorded, hurt>>
  BY DEF Others, Close, Morning, Switch, Screen, UserCancel, ExitSell, ExitMiss, ExitRelease,
         UserBuy, Fill, UserSell, ledger, history
<1>2. ASSUME UNCHANGED <<held, bought, given>>,
             \A c \in Code : open'[c] = open[c] \/ open'[c] = 0
      PROVE  \A c \in Code : Counted(c)
  BY <1>0, <1>2 DEF Counted
<1>3. ASSUME \/ Close \/ Morning \/ Switch
             \/ \E limits \in SUBSET Code, old \in SUBSET owned : Screen(limits, old)
             \/ \E codes \in SUBSET Code : UserCancel(codes)
             \/ \E c \in Code : ExitMiss(c) \/ ExitRelease(c)
      PROVE  \A c \in Code : Counted(c)
  <2>1. UNCHANGED <<held, bought, given>>
    BY <1>3 DEF Close, Morning, Switch, Screen, UserCancel, ExitMiss, ExitRelease, market, history
  <2>2. CASE Close \/ (\E codes \in SUBSET Code : UserCancel(codes))
    BY <1>2, <2>1, <2>2 DEF Close, UserCancel, None
  <2>3. CASE open' = open
    BY <1>2, <2>1, <2>3
  <2> QED
    BY <1>3, <2>2, <2>3 DEF Morning, Switch, Screen, ExitMiss, ExitRelease, market
<1>4. ASSUME NEW c \in Code, ExitSell(c) \/ \E n \in 1 .. MaxBought : UserSell(c, n)
      PROVE  \A d \in Code : Counted(d)
  <2>1. held'[c] <= held[c] /\ held'[c] \in Nat /\ \A d \in Code \ {c} : held'[d] = held[d]
    BY <1>0, <1>4 DEF ExitSell, UserSell, TypeOK
  <2>2. UNCHANGED <<open, bought, given>>
    BY <1>4 DEF ExitSell, UserSell, history
  <2> QED
    BY <1>0, <2>1, <2>2 DEF Counted
<1>5. ASSUME NEW c \in Code, UserBuy(c)
      PROVE  \A d \in Code : Counted(d)
  BY <1>0, <1>5, BoundAssumption DEF UserBuy, TypeOK, Counted
<1>6. ASSUME NEW c \in Code, NEW n \in 1 .. MaxBought, Fill(c, n)
      PROVE  \A d \in Code : Counted(d)
  BY <1>0, <1>6, BoundAssumption DEF Fill, TypeOK, Counted
<1>7. \A c \in Code : Counted(c)
  BY <1>3, <1>4, <1>5, <1>6 DEF Others
<1> QED
  BY <1>1, <1>7, BookOutside DEF TypeOK

LEMMA BookStep == BookInv /\ [Next]_vars => BookInv'
<1> SUFFICES ASSUME Books, TypeInv, TypeInv', [Next]_vars
             PROVE  Books'
  BY TypeStep DEF BookInv
<1>1. CASE UNCHANGED vars
  BY <1>1 DEF vars, market, ledger, locals, lists, history, Books, Unrecorded
<1> QED
  BY <1>1, BookReading, BookOrdering, BookOthers DEF Next, Cycle

\* _take_fill_delta and _record_trade: the history never shows more shares of
\* a code than were bought, through refusals, cancellations that time out,
\* purchases of the user and cycles that die; of a code that a listing was wrong
\* about, or that a cycle had seen held before it died, it says nothing any
\* more (hurt), and TLC finds such a code recorded twice after either.
THEOREM HistoryWithinPurchases == Spec => []RecordedAtMostBought
<1>1. BookInv => RecordedAtMostBought
  BY DEF BookInv, Books, RecordedAtMostBought
<1> QED
  BY <1>1, BookInit, BookStep, PTL DEF Spec

(***************************************************************************)
(* Partial fills.                                                          *)
(***************************************************************************)

\* "The rest of a partial fill is kept": no step of the loops that cancel
\* touches the order of a code the account was seen to hold.
THEOREM PartialFillsKept == Spec => PartialFillKept
<1>1. ASSUME TypeInv, [Next]_vars, pc \in {"drop", "resize"}, todo' # todo,
             NEW c \in Of(hsnap)
      PROVE  open'[c] = open[c]
  <2> USE <1>1 DEF TypeInv
  <2>1. c \in Code /\ c \notin todo
    BY DEF Of, Loops
  <2>2. ASSUME NEW d \in Code, Drop(d) \/ CancelTimesOut(d) \/ ResizeCancel(d)
        PROVE  open'[c] = open[c]
    <3>1. d # c
      BY <2>1, <2>2 DEF Drop, CancelTimesOut, ResizeCancel
    <3> QED
      BY <2>1, <2>2, <3>1, CancelType DEF Drop, CancelTimesOut, ResizeCancel
  <2>3. CASE \/ NoRoom \/ Crash
             \/ \E off \in SUBSET Code : Review(off)
             \/ \E money \in 0 .. MAX_OPEN_ORDERS : Count(money)
    BY <2>3 DEF NoRoom, Crash, Review, Count, market
  <2>4. ~Reading /\ ~StayOut /\ ~(\E d \in Code : Detect(d))
    BY DEF Reading, ListHoldings, ListUnfilled, ListNothing, GiveUp, StayOut, Detect
  <2>5. Others => todo' = todo
    BY DEF Others, Close, Morning, Switch, Screen, UserCancel, ExitSell, ExitMiss, ExitRelease,
           UserBuy, Fill, UserSell, locals
  <2>6. /\ ~ResizeBuy /\ ~BuyTimesOut /\ ~Mark /\ ~Done
        /\ \A chosen \in SUBSET waiting : ~Plan(chosen)
        /\ \A d \in Code : ~Place(d) /\ ~NotPlaced(d)
    BY DEF ResizeBuy, BuyTimesOut, Mark, Done, Plan, Place, NotPlaced
  <2>7. Next
    BY DEF vars, locals
  <2> QED
    BY <2>2, <2>3, <2>4, <2>5, <2>6, <2>7 DEF Next, Cycle, Ordering
<1>2. TypeInv /\ [Next]_vars =>
        [(pc \in {"drop", "resize"}) /\ todo' # todo =>
           \A c \in Of(hsnap) : open'[c] = open[c]]_vars
  BY <1>1
<1> QED
  BY <1>2, TypeInvariant, PTL DEF Spec, PartialFillKept

(***************************************************************************)
(* The orders at the broker.  When the listing of the open orders can be   *)
(* trusted and no cancellation is refused, what the cycle listed covers    *)
(* what is open until it places orders of its own, and `placed` counts it  *)
(* from then on.                                                           *)
(***************************************************************************)
Trusted == "reject" \notin Env /\ "unlisted" \notin Env

Orders ==
  /\ \A c \in Code : open[c] <= Lot
  /\ Cardinality(Of(open)) <= MAX_OPEN_ORDERS
  /\ pc \in {"detect", "drop"} => \A c \in Code : open[c] <= osnap[c]
  /\ pc \in {"detect", "drop", "resize", "again"} =>
       Of(open) \subseteq Of(osnap) /\ Cardinality(Of(osnap)) <= MAX_OPEN_ORDERS
  /\ pc \in {"resize", "again"} => \A c \in todo : open[c] <= osnap[c]
  /\ pc = "again" => open[cur] = 0
  /\ pc \in {"place", "mark"} => \A c \in todo : open[c] = 0
  /\ pc = "place" => Cardinality(Of(open)) <= placed
  /\ pc = "mark" => Cardinality(Of(open)) <= placed + 1

OrderInv == TypeInv /\ Orders

\* Fewer codes, fewer of them; one code more, at most one more.
LEMMA FewerCodes ==
  ASSUME NEW f \in [Code -> Nat], NEW g \in [Code -> Nat], Of(f) \subseteq Of(g)
  PROVE  Cardinality(Of(f)) <= Cardinality(Of(g))
  BY OfFinite, FS_Subset

LEMMA OneCodeMore ==
  ASSUME NEW f \in [Code -> Nat], NEW g \in [Code -> Nat], NEW c \in Code,
         Of(f) \subseteq Of(g) \cup {c}
  PROVE  Cardinality(Of(f)) <= Cardinality(Of(g)) + 1
<1>1. IsFiniteSet(Of(g)) /\ Cardinality(Of(g)) \in Nat /\ Cardinality(Of(f)) \in Nat
  BY OfFinite
<1> DEFINE T == Of(g) \cup {c}
<1>2. /\ IsFiniteSet(T)
      /\ Cardinality(T) = IF c \in Of(g) THEN Cardinality(Of(g)) ELSE Cardinality(Of(g)) + 1
  BY <1>1, FS_AddElement
<1>3. Cardinality(Of(f)) <= Cardinality(T)
  BY <1>2, FS_Subset
<1> QED
  BY <1>1, <1>2, <1>3

\* A step that opens no order and leaves the cycle where it is.
LEMMA OrdersShrink ==
  ASSUME TypeInv, Orders, open' \in [Code -> Nat],
         \A c \in Code : open'[c] <= open[c],
         UNCHANGED <<pc, osnap, todo, cur, placed>>
  PROVE  Orders'
<1>1. \A c \in Code : open[c] \in Nat /\ osnap[c] \in Nat /\ open'[c] \in Nat
  BY DEF TypeInv, TypeOK
<1>2. Of(open') \subseteq Of(open)
  BY <1>1 DEF Of
<1>3. /\ Cardinality(Of(open')) <= Cardinality(Of(open))
      /\ Cardinality(Of(open)) \in Nat /\ Cardinality(Of(open')) \in Nat
  BY <1>2, FewerCodes, OfFinite DEF TypeInv, TypeOK
<1>4. placed \in Nat /\ cur \in Code /\ todo \subseteq Code /\ Lot \in Nat
      /\ MAX_OPEN_ORDERS \in Nat
  BY BoundAssumption DEF TypeInv, TypeOK
<1> QED
  BY <1>1, <1>2, <1>3, <1>4 DEF Orders

LEMMA OrderInit == Init => OrderInv
<1> SUFFICES ASSUME Init
             PROVE  Orders
  BY TypeInit DEF OrderInv
<1>1. Of(None) = {} /\ Cardinality({}) = 0
  BY FS_EmptySet DEF Of, None
<1> QED
  BY <1>1, BoundAssumption DEF Init, Orders, None

\* Reading, and the steps that end a cycle.
LEMMA OrdersAround ==
  ASSUME Trusted, TypeInv, Orders,
         \/ Reading \/ (\E c \in Code : Detect(c))
         \/ StayOut \/ NoRoom \/ Done \/ Crash
  PROVE  Orders'
<1>1. CASE GiveUp \/ StayOut \/ NoRoom \/ Done \/ Crash
  BY <1>1, ForgetType DEF GiveUp, StayOut, NoRoom, Done, Crash, Orders, market
<1>2. CASE ListHoldings
  BY <1>2 DEF ListHoldings, Orders, market
<1>3. CASE ListUnfilled(open)
  BY <1>3 DEF ListUnfilled, Orders, market, TypeInv, TypeOK
<1>4. ~ListNothing
  BY DEF Trusted, ListNothing
<1>5. ASSUME NEW c \in Code, Detect(c)
      PROVE  Orders'
  BY <1>5 DEF Detect, Orders, market, lists, counts
<1> QED
  BY <1>1, <1>2, <1>3, <1>4, <1>5 DEF Reading

\* A cancellation that is not refused takes the order away if no more was
\* opened since the listing.
LEMMA CancelsAll ==
  ASSUME Trusted, TypeInv, NEW c \in Code, open[c] <= osnap[c], Cancelled(c)
  PROVE  open' = [open EXCEPT ![c] = 0]
  BY DEF Trusted, Cancelled, Larger, TypeInv, TypeOK

\* Cancelling and resizing.
LEMMA OrdersResize ==
  ASSUME Trusted, TypeInv, TypeInv', Orders,
         \/ \E chosen \in SUBSET waiting : Plan(chosen)
         \/ \E off \in SUBSET Code : Review(off)
         \/ \E c \in Code : Drop(c) \/ CancelTimesOut(c) \/ ResizeCancel(c)
         \/ ResizeBuy \/ BuyTimesOut
  PROVE  Orders'
<1>0. /\ \A c \in Code : /\ open[c] \in Nat /\ osnap[c] \in Nat
                         /\ open'[c] \in Nat /\ osnap'[c] \in Nat
      /\ cur \in Code /\ todo \subseteq Code /\ Lot \in Nat \ {0} /\ MAX_OPEN_ORDERS \in Nat
      /\ open \in [Code -> Nat] /\ osnap \in [Code -> Nat]
      /\ open' \in [Code -> Nat] /\ osnap' \in [Code -> Nat]
  BY BoundAssumption DEF TypeInv, TypeOK
<1>1. /\ Cardinality(Of(open)) \in Nat /\ Cardinality(Of(osnap)) \in Nat
      /\ Cardinality(Of(open')) \in Nat /\ Cardinality(Of(osnap')) \in Nat
  BY <1>0, OfFinite
<1>2. CASE (\E chosen \in SUBSET waiting : Plan(chosen)) \/ (\E off \in SUBSET Code : Review(off))
  <2>1. /\ UNCHANGED <<open, osnap>>
        /\ \/ pc = "detect" /\ pc' = "drop"
           \/ pc = "drop" /\ pc' = "resize"
    BY <1>2 DEF Plan, Review, market, lists
  <2>2. todo' \subseteq Code
    BY DEF TypeInv, TypeOK
  <2> QED
    BY <1>0, <2>1, <2>2 DEF Orders
<1>3. ASSUME NEW c \in Code, Drop(c)
      PROVE  Orders'
  <2>1. open' = [open EXCEPT ![c] = 0] /\ osnap' = [osnap EXCEPT ![c] = 0]
    BY <1>3, CancelsAll DEF Drop, Orders
  <2>2. Of(open') \subseteq Of(open) /\ Of(osnap') \subseteq Of(osnap) /\ Of(open') \subseteq Of(osnap')
    BY <1>0, <1>3, <2>1 DEF Of, Drop, Orders
  <2>3. /\ Cardinality(Of(open')) <= Cardinality(Of(open))
        /\ Cardinality(Of(osnap')) <= Cardinality(Of(osnap))
    BY <1>0, <2>2, FewerCodes
  <2>4. \A d \in Code : open'[d] <= Lot /\ open'[d] <= osnap'[d]
    BY <1>0, <1>3, <2>1 DEF Drop, Orders
  <2>5. pc = "drop" /\ pc' = "drop"
    BY <1>3 DEF Drop
  <2>6. /\ Cardinality(Of(open')) <= MAX_OPEN_ORDERS
        /\ Cardinality(Of(osnap')) <= MAX_OPEN_ORDERS
    BY <1>0, <1>1, <2>3, <2>5 DEF Orders
  <2> QED
    BY <2>2, <2>4, <2>5, <2>6 DEF Orders
<1>4. ASSUME NEW c \in Code, CancelTimesOut(c)
      PROVE  Orders'
  <2>1. \A d \in Code : open'[d] <= open[d]
    BY <1>4, CancelType DEF CancelTimesOut
  <2>2. Of(open') \subseteq Of(open)
    BY <1>0, <2>1 DEF Of
  <2>3. Cardinality(Of(open')) <= Cardinality(Of(open))
    BY <1>0, <2>2, FewerCodes
  <2> QED
    BY <1>0, <1>1, <1>4, <2>1, <2>2, <2>3 DEF CancelTimesOut, Orders, lists
<1>5. ASSUME NEW c \in Code, ResizeCancel(c)
      PROVE  Orders'
  <2>1. open' = [open EXCEPT ![c] = 0]
    BY <1>5, CancelsAll DEF ResizeCancel, Orders
  <2>2. Of(open') \subseteq Of(open)
    BY <1>0, <2>1 DEF Of
  <2>3. Cardinality(Of(open')) <= Cardinality(Of(open))
    BY <1>0, <2>2, FewerCodes
  <2>4. /\ pc = "resize" /\ pc' = "again" /\ todo' = todo \ {c} /\ cur' = c /\ osnap' = osnap
    BY <1>5 DEF ResizeCancel, lists
  <2>5. \A d \in Code : open'[d] <= Lot /\ open'[d] <= open[d]
    BY <1>0, <2>1 DEF Orders
  <2>6. open'[c] = 0 /\ Cardinality(Of(open')) <= MAX_OPEN_ORDERS
    BY <1>0, <1>1, <2>1, <2>3 DEF Orders
  <2> QED
    BY <1>0, <2>2, <2>4, <2>5, <2>6 DEF Orders
<1>6. CASE ResizeBuy \/ BuyTimesOut
  <2>1. pc = "again" /\ pc' = "resize" /\ todo' = todo /\ cur \in Of(osnap) \ todo
    BY <1>6 DEF ResizeBuy, BuyTimesOut, TypeInv, Loops
  <2>2. /\ open'[cur] \in {0, Lot}
        /\ \A c \in Code : c # cur => open'[c] = open[c] /\ osnap'[c] = osnap[c]
        /\ osnap'[cur] > 0
    BY <1>0, <1>6, <2>1, ResizeOrderType DEF ResizeBuy, BuyTimesOut, Orders, lists, Of
  <2>3. Of(osnap') = Of(osnap) /\ Of(open') \subseteq Of(osnap')
    BY <1>0, <2>1, <2>2 DEF Of, Orders
  <2>4. Cardinality(Of(open')) <= Cardinality(Of(osnap'))
    BY <1>0, <2>3, FewerCodes
  <2> QED
    BY <1>0, <1>1, <2>1, <2>2, <2>3, <2>4 DEF Orders
<1> QED
  BY <1>2, <1>3, <1>4, <1>5, <1>6

\* Placing orders.
LEMMA OrdersPlace ==
  ASSUME Trusted, TypeInv, TypeInv', Orders,
         \/ \E money \in 0 .. MAX_OPEN_ORDERS : Count(money)
         \/ \E c \in Code : Place(c) \/ NotPlaced(c)
         \/ Mark
  PROVE  Orders'
<1>0. /\ \A c \in Code : open[c] \in Nat /\ osnap[c] \in Nat
      /\ todo \subseteq Code /\ Lot \in Nat \ {0} /\ MAX_OPEN_ORDERS \in Nat
      /\ open \in [Code -> Nat] /\ open' \in [Code -> Nat] /\ osnap \in [Code -> Nat]
      /\ placed \in Nat /\ slots \in 0 .. MAX_OPEN_ORDERS
  BY BoundAssumption DEF TypeInv, TypeOK
<1>1. /\ Cardinality(Of(open)) \in Nat /\ Cardinality(Of(open')) \in Nat
      /\ Cardinality(Of(osnap)) \in Nat
  BY <1>0, OfFinite
<1>2. ASSUME NEW money \in 0 .. MAX_OPEN_ORDERS, Count(money)
      PROVE  Orders'
  <2>1. /\ open' = open /\ placed' = Cardinality(Of(osnap)) /\ todo' \cap Of(osnap) = {}
        /\ todo' \subseteq Code /\ pc = "resize" /\ pc' = "place"
    BY <1>2 DEF Count, market, TypeInv, TypeOK
  <2>2. Cardinality(Of(open)) <= Cardinality(Of(osnap))
    BY <1>0, <2>1, FewerCodes DEF Orders
  <2>3. \A c \in todo' : open[c] = 0
    BY <1>0, <2>1 DEF Orders, Of
  <2> QED
    BY <1>0, <1>1, <2>1, <2>2, <2>3 DEF Orders
<1>3. ASSUME NEW c \in Code, Place(c)
      PROVE  Orders'
  <2>0. open[c] = 0
    BY <1>3 DEF Place, Orders
  <2>1. /\ open' = [open EXCEPT ![c] = Lot] /\ placed < slots
        /\ pc = "place" /\ pc' = "mark" /\ todo' = todo \ {c} /\ placed' = placed
    BY <1>0, <1>3, <2>0 DEF Place, counts
  <2>2. Of(open') \subseteq Of(open) \cup {c}
    BY <1>0, <2>1 DEF Of
  <2>3. Cardinality(Of(open')) <= Cardinality(Of(open)) + 1
    BY <1>0, <2>2, OneCodeMore
  <2>4. Cardinality(Of(open)) <= placed
    BY <2>1 DEF Orders
  <2> QED
    BY <1>0, <1>1, <2>1, <2>3, <2>4 DEF Orders
<1>4. ASSUME NEW c \in Code, NotPlaced(c)
      PROVE  Orders'
  BY <1>0, <1>4 DEF NotPlaced, Orders, market, counts
<1>5. CASE Mark
  BY <1>0, <1>1, <1>5 DEF Mark, Orders, market
<1> QED
  BY <1>2, <1>3, <1>4, <1>5

LEMMA OrderStep == Trusted /\ OrderInv /\ [Next]_vars => OrderInv'
<1> SUFFICES ASSUME Trusted, TypeInv, TypeInv', Orders, [Next]_vars
             PROVE  Orders'
  BY TypeStep DEF OrderInv
<1>1. CASE UNCHANGED vars
  BY <1>1 DEF vars, market, locals, lists, counts, Orders
<1>2. CASE Others
  <2>1. UNCHANGED <<pc, osnap, todo, cur, placed>>
    BY <1>2 DEF Others, Close, Morning, Switch, Screen, UserCancel, ExitSell, ExitMiss,
       ExitRelease, UserBuy, Fill, UserSell, locals, lists, counts
  <2>2. open' \in [Code -> Nat] /\ open \in [Code -> Nat]
    BY DEF TypeInv, TypeOK
  <2>3. CASE Close \/ (\E codes \in SUBSET Code : UserCancel(codes))
    <3>1. \A c \in Code : open'[c] <= open[c]
      BY <2>2, <2>3 DEF Close, UserCancel, None
    <3> QED
      BY <2>1, <2>2, <3>1, OrdersShrink
  <2>4. ASSUME NEW c \in Code, NEW n \in 1 .. MaxBought, Fill(c, n)
        PROVE  Orders'
    <3>1. \A d \in Code : open'[d] <= open[d]
      BY <2>2, <2>4, BoundAssumption DEF Fill
    <3> QED
      BY <2>1, <2>2, <3>1, OrdersShrink
  <2>5. CASE open' = open
    <3>1. \A c \in Code : open'[c] <= open[c]
      BY <2>2, <2>5
    <3> QED
      BY <2>1, <2>2, <3>1, OrdersShrink
  <2> QED
    BY <1>2, <2>3, <2>4, <2>5 DEF Others, Morning, Switch, Screen, ExitSell, ExitMiss,
       ExitRelease, UserBuy, UserSell, market
<1> QED
  BY <1>1, <1>2, OrdersAround, OrdersResize, OrdersPlace DEF Next, Cycle, Ordering

LEMMA OrderInvariant ==
  ASSUME Trusted
  PROVE  Spec => []OrderInv
<1>1. OrderInv /\ [Next]_vars => OrderInv'
  BY OrderStep
<1> QED
  BY <1>1, OrderInit, PTL DEF Spec

\* The job never has two orders open for a code, through resizes, orders whose
\* outcome it did not see, partial fills and cycles that die, provided the
\* broker lists the open orders and refuses no cancellation.
THEOREM NoSecondOrder ==
  ASSUME Trusted
  PROVE  Spec => []OneOrderPerCode
<1>1. OrderInv => OneOrderPerCode
  BY DEF OrderInv, Orders, OneOrderPerCode
<1> QED
  BY <1>1, OrderInvariant, PTL

\* Under the same condition MAX_OPEN_ORDERS bounds the codes with an open order,
\* those a dead cycle left included.
THEOREM OrdersWithinLimit ==
  ASSUME Trusted
  PROVE  Spec => []OpenWithinLimit
<1>1. OrderInv => OpenWithinLimit
  BY DEF OrderInv, Orders, OpenWithinLimit
<1> QED
  BY <1>1, OrderInvariant, PTL
=============================================================================
