---------------------------- MODULE V8ExitProofs ----------------------------
(***************************************************************************)
(* Proofs about the v8 exit job, for any codes, prices and bounds.         *)
(***************************************************************************)
EXTENDS V8Exit, TLAPS

Pos == Position \cup {NoPos}

(***************************************************************************)
(* What the operators on positions return.                                 *)
(***************************************************************************)

\* Registering a listed code yields a position.
LEMMA RegisteredType ==
  ASSUME NEW p \in Pos, NEW e \in Entry, NEW a \in Atr, NEW q \in Nat
  PROVE  Registered(p, e, a, q) \in Position
  BY PriceAssumption, NoPosAssumption
     DEF Registered, InitPos, Pos, Position, Watch

\* Every update of a position yields a position.
LEMMA UpdateType ==
  ASSUME NEW p \in Position, NEW x \in Nat, NEW last \in BOOLEAN, NEW w \in Watch
  PROVE  /\ Quoted(p, x) \in Position
         /\ Leaving(p) \in Position
         /\ Fired(p, last) \in Position
         /\ Taken(p, last) \in Position
         /\ Watched(p, w) \in Position
  BY DEF Quoted, Larger, Leaving, Fired, Taken, Watched, Position, Watch

\* The clock and the end of day job keep the file well typed.
LEMMA DayType ==
  ASSUME NEW p \in Pos, NEW hi \in Nat
  PROVE  /\ Aged(p) \in Pos /\ EndOfDay(p, hi) \in Pos
         /\ p \in Position => Aged(p) \in Position /\ EndOfDay(p, hi) \in Position
<1>1. CASE p = NoPos
  BY <1>1, NoPosAssumption DEF Aged, EndOfDay, Pos
<1>2. CASE p \in Position
  <2> DEFINE age == Smaller(p.age + 1, MAX_HOLD_DAYS)
             watch == IF p.watch = "today" THEN "earlier" ELSE p.watch
             top == Larger(p.peak, hi)
             armed == IF p.last_fire_peak # 0 /\ top > p.last_fire_peak
                        THEN TRUE ELSE p.trail_armed
  <2>1. age \in Nat /\ watch \in Watch
    BY <1>2, BoundAssumption DEF Smaller, Position, Watch
  <2>2. top \in Nat /\ armed \in BOOLEAN
    BY <1>2 DEF Larger, Position
  <2>3. Aged(p) = [p EXCEPT !.age = age, !.watch = watch]
    BY <1>2, NoPosAssumption DEF Aged
  <2>4. EndOfDay(p, hi) = IF hi = 0 THEN p
                          ELSE [p EXCEPT !.peak = top, !.trail_armed = armed]
    BY <1>2, NoPosAssumption DEF EndOfDay
  <2> HIDE DEF age, watch, top, armed
  <2>5. Aged(p) \in Position /\ EndOfDay(p, hi) \in Position
    BY ZenonT(60), <1>2, <2>1, <2>2, <2>3, <2>4 DEF Position
  <2> QED
    BY <2>5 DEF Pos
<1> QED
  BY <1>1, <1>2 DEF Pos

\* An order is for at least one share and for no more than are left.
LEMMA OrderSize ==
  ASSUME NEW s \in Nat, NEW n \in Nat \ {0}
  PROVE  Smaller(Half(s), n) \in 1 .. n
  BY DEF Smaller, Half, Larger

(***************************************************************************)
(* Type correctness.  It needs that no more shares are on sale than are    *)
(* held, and that only listed codes are looked at.                         *)
(***************************************************************************)
Covered == \A c \in Code : work[c] <= held[c]
Listed  == pc \notin Unread => \A c \in live : snap[c] > 0
TypeInv == TypeOK /\ Covered /\ Listed

\* A cycle that is over leaves canonical locals.
LEMMA ForgetType ==
  ASSUME Forget
  PROVE  /\ pc' = "idle" /\ st' \in [Code -> Pos] /\ snap' \in [Code -> Nat]
         /\ live' = {} /\ todo' = {} /\ cur' \in Code /\ px' = 0 /\ left' = 0
  BY CodeAssumption DEF Forget, NoState, NoListing, Pos

\* What the ledger holds.
LedgerType ==
  /\ owned \subseteq Code /\ lost \subseteq Code /\ dropping \subseteq Code
  /\ marked \in [Code -> 0 .. ORDER_LEDGER_TTL + 1]

\* Storing the ledger with some of its entries.
LEMMA KeepType ==
  ASSUME LedgerType, NEW kept \in SUBSET owned, Keep(kept), dropping' \subseteq Code
  PROVE  LedgerType'
  BY BoundAssumption DEF LedgerType, Keep

\* An order the broker accepted is covered by shares that are not on sale yet.
LEMMA AcceptedType ==
  ASSUME TypeInv, NEW n \in Nat, Accepted(n)
  PROVE  /\ work' \in [Code -> Nat] /\ held' = held /\ Covered'
         /\ sold' \subseteq Code /\ LedgerType'
         /\ UNCHANGED <<slot, openBuy, dropping, manual, file>>
<1>1. PICK readable \in Readable :
         /\ Keep(Entries(readable))
         /\ sold' = (IF readable THEN sold ELSE {}) \cup {cur}
  BY DEF Accepted
<1>2. LedgerType'
  BY <1>1, KeepType DEF TypeInv, TypeOK, LedgerType, Entries, Accepted
<1>3. sold' \subseteq Code
  BY <1>1 DEF TypeInv, TypeOK
<1> QED
  BY <1>2, <1>3 DEF TypeInv, TypeOK, Covered, Accepted, Sellable

LEMMA TypeInit == Init => TypeInv
  BY CodeAssumption, BoundAssumption
     DEF Init, TypeInv, TypeOK, Covered, Listed, NoListing, NoState, Unseen,
         Slot, Stage, Unread

\* Beginning a cycle.
LEMMA TypeStart ==
  ASSUME TypeInv, List \/ ListEmpty \/ ReadFiles \/ GiveUp
  PROVE  TypeInv'
<1> USE DEF TypeInv
<1>1. CASE List \/ ListEmpty
  <2>1. /\ snap' \in [Code -> Nat] /\ badReplies' \in Nat /\ faults' = faults
        /\ pc' \in Unread /\ pc' \in Stage
        /\ UNCHANGED <<broker, shared, st, live, todo, cur, px, left, seen>>
    BY <1>1 DEF List, ListEmpty, NoListing, TypeOK, Stage, Unread, bounds
  <2> QED
    BY <2>1 DEF TypeOK, Covered, Listed, broker, shared, ledger
<1>2. CASE ReadFiles
  <2>1. live' \subseteq Code /\ todo' \subseteq live' /\ Listed'
    BY <1>2 DEF ReadFiles, Managed, Unfinished, Listed
  <2>2. TypeOK'
    BY <1>2, <2>1 DEF ReadFiles, TypeOK, Stage, Unread, broker, shared, ledger, bounds
  <2> QED
    BY <1>2, <2>1, <2>2 DEF ReadFiles, Covered, broker
<1>3. CASE GiveUp
  BY <1>3, ForgetType
     DEF GiveUp, TypeOK, Covered, Listed, Stage, Unread, broker, shared, ledger, bounds, Pos
<1> QED
  BY <1>1, <1>2, <1>3

\* Looking at a code.
LEMMA TypeLook ==
  ASSUME TypeInv, Look
  PROVE  TypeInv'
<1> PICK c \in Code, e \in Entry, a \in Atr :
         \/ \E x \in Price : Observe(c, e, a, x)
         \/ \E x \in Price \cup {0} : Skip(c, e, a, x)
  BY DEF Look
<1> DEFINE p == Registered(st[c], e, a, snap[c])
<1>1. p \in Position
  BY RegisteredType DEF TypeInv, TypeOK, Pos
<1>2. ASSUME NEW x \in Price, Observe(c, e, a, x)
      PROVE  TypeInv'
  <2>1. x \in Nat
    BY PriceAssumption
  <2>2. Quoted(p, x) \in Position
    BY <1>1, <2>1, UpdateType DEF Watch
  <2>3. st' = [st EXCEPT ![c] = Quoted(p, x)] /\ snap[c] > 0 /\ snap[c] \in Nat
    BY <1>2 DEF Observe, TypeInv, TypeOK, Listed, Unread
  <2>4. st' \in [Code -> Pos] /\ st'[c] # NoPos
    BY <2>2, <2>3, NoPosAssumption DEF Pos, TypeInv, TypeOK
  <2>5. seen' \in [Code -> [before : BOOLEAN, now : BOOLEAN, fired : Nat, takes : Nat]]
    <3> DEFINE low == BelowTrail(Quoted(p, x), x)
    <3>1. low \in BOOLEAN
      BY DEF BelowTrail
    <3>2. seen' = [seen EXCEPT ![c] = Noted(@, low)]
      BY <1>2 DEF Observe
    <3> HIDE DEF low
    <3> QED
      BY <3>1, <3>2 DEF Noted, TypeInv, TypeOK
  <2> QED
    BY <1>2, <2>1, <2>3, <2>4, <2>5
       DEF Observe, TypeInv, TypeOK, Covered, Listed, Stage, Unread, broker, shared,
           ledger, bounds, Pos
<1>3. ASSUME NEW x \in Price \cup {0}, Skip(c, e, a, x)
      PROVE  TypeInv'
  <2>1. st' = [st EXCEPT ![c] = p]
    BY <1>3 DEF Skip
  <2>2. st' \in [Code -> Pos]
    BY <1>1, <2>1 DEF Pos, TypeInv, TypeOK
  <2> QED
    BY <1>3, <2>2
       DEF Skip, TypeInv, TypeOK, Covered, Listed, broker, shared, ledger, bounds, Pos
<1> QED
  BY <1>2, <1>3

\* Going through the rules for one code.
LEMMA TypeRules ==
  ASSUME TypeInv, Rules
  PROVE  TypeInv'
<1> USE DEF TypeInv
<1>1. /\ st[cur] \in Position /\ left \in Nat \ {0} /\ cur \in Code
      /\ st[cur].shares0 \in Nat /\ pc \notin Unread
  BY DEF TypeOK, Unread, Rules, StopExit, StopRefused, StopHit, NoStop, TrailWatch,
         TrailWait, TrailFire, TrailHit, NoTrail, TakeProfit, NoTakeProfit,
         HoldExit, NoHoldExit, Position
<1> DEFINE n == Smaller(Half(st[cur].shares0), left)
<1>2. n \in 1 .. left
  BY <1>1, OrderSize
<1>3. ASSUME NEW p \in Position
      PROVE  [st EXCEPT ![cur] = p] \in [Code -> Pos]
  BY <1>3 DEF TypeOK, Pos
<1>4. ASSUME NEW s \in Stage, Goto(s)
      PROVE  TypeInv'
  BY <1>4, <1>1, NoPosAssumption
     DEF Goto, TypeOK, Covered, Listed, broker, shared, ledger, locals, bounds
<1>5. ASSUME ExitAll
      PROVE  TypeInv'
  <2>1. st' \in [Code -> Pos]
    BY <1>1, <1>3, <1>5, UpdateType DEF ExitAll, Watch
  <2>2. Covered' /\ work' \in [Code -> Nat] /\ sold' \subseteq Code /\ LedgerType'
    BY <1>1, <1>5, AcceptedType DEF ExitAll
  <2>3. UNCHANGED <<slot, held, openBuy, manual, file>>
    BY <1>5 DEF ExitAll, Accepted
  <2> QED
    BY <1>1, <1>5, <2>1, <2>2, <2>3
       DEF ExitAll, TypeOK, LedgerType, Listed, Stage, Unread, bounds, Pos
<1>6. CASE StopExit \/ HoldExit
  BY <1>5, <1>6 DEF StopExit, HoldExit
<1>7. CASE StopRefused \/ NoStop \/ TrailWait \/ NoTakeProfit \/ NoHoldExit
  BY <1>4, <1>7 DEF StopRefused, NoStop, TrailWait, NoTakeProfit, NoHoldExit, Stage
<1>8. CASE TrailWatch \/ NoTrail
  <2>1. st' \in [Code -> Pos] /\ st'[cur] # NoPos
    BY SMTT(40), <1>1, <1>3, <1>8, UpdateType, NoPosAssumption
       DEF TrailWatch, NoTrail, Watch, TypeOK, Pos
  <2> QED
    BY <1>1, <1>8, <2>1
       DEF TrailWatch, NoTrail, TypeOK, Covered, Listed, Stage, broker, shared, ledger,
           bounds, Pos
<1>9. CASE TrailFire
  <2>1. PICK last \in BOOLEAN : /\ last = (left = n)
                                /\ st' = [st EXCEPT ![cur] = Fired(@, last)]
    BY <1>9 DEF TrailFire
  <2>2. st' \in [Code -> Pos] /\ st'[cur] # NoPos
    BY <1>1, <1>3, <2>1, UpdateType, NoPosAssumption DEF Watch, TypeOK, Pos
  <2>3. Covered' /\ work' \in [Code -> Nat] /\ sold' \subseteq Code /\ LedgerType'
    BY <1>2, <1>9, AcceptedType DEF TrailFire
  <2>4. UNCHANGED <<slot, held, openBuy, manual, file>>
    BY <1>9 DEF TrailFire, Accepted
  <2>5. left' \in Nat /\ (pc' # "scan" => left' > 0) /\ pc' \in {"scan", "tp"}
    BY <1>1, <1>2, <1>9 DEF TrailFire
  <2>6. seen' \in [Code -> [before : BOOLEAN, now : BOOLEAN, fired : Nat, takes : Nat]]
    BY <1>1, <1>9 DEF TrailFire, TypeOK, Position, NotedFire
  <2> QED
    BY <1>1, <1>9, <2>2, <2>3, <2>4, <2>5, <2>6
       DEF TrailFire, TypeOK, LedgerType, Listed, Stage, bounds, Pos
<1>10. CASE TakeProfit
  <2>1. PICK last \in BOOLEAN : /\ last = (left = n)
                                /\ st' = [st EXCEPT ![cur] = Taken(@, last)]
    BY <1>10 DEF TakeProfit
  <2>2. st' \in [Code -> Pos] /\ st'[cur] # NoPos
    BY <1>1, <1>3, <2>1, UpdateType, NoPosAssumption DEF Watch, TypeOK, Pos
  <2>3. Covered' /\ work' \in [Code -> Nat] /\ sold' \subseteq Code /\ LedgerType'
    BY <1>2, <1>10, AcceptedType DEF TakeProfit
  <2>4. UNCHANGED <<slot, held, openBuy, manual, file>>
    BY <1>10 DEF TakeProfit, Accepted
  <2>5. left' \in Nat /\ (pc' # "scan" => left' > 0) /\ pc' \in {"scan", "hold"}
    BY <1>1, <1>2, <1>10 DEF TakeProfit
  <2>6. seen' \in [Code -> [before : BOOLEAN, now : BOOLEAN, fired : Nat, takes : Nat]]
    BY <1>1, <1>10 DEF TakeProfit, TypeOK, NotedTake
  <2> QED
    BY <1>1, <1>10, <2>2, <2>3, <2>4, <2>5, <2>6
       DEF TakeProfit, TypeOK, LedgerType, Listed, Stage, bounds, Pos
<1> QED
  BY <1>6, <1>7, <1>8, <1>9, <1>10 DEF Rules

\* The end of a cycle, and its death.
LEMMA TypeFinish ==
  ASSUME TypeInv, Finish \/ Crash
  PROVE  TypeInv'
<1> USE DEF TypeInv
<1>1. Forget
  BY DEF Finish, Crash
<1>2. CASE Finish
  <2>1. file' \in [Code -> Pos]
    BY <1>2 DEF Finish, TypeOK, Pos
  <2>2. LedgerType'
    <3>1. PICK readable \in Readable :
             LET gone == IF readable THEN {c \in Code \ live : Pending(st[c])} ELSE {} IN
               /\ owned' = owned \ gone
               /\ marked' = [c \in Code |-> IF c \in gone THEN 0 ELSE marked[c]]
      BY <1>2 DEF Finish
    <3> DEFINE gone == IF readable THEN {c \in Code \ live : Pending(st[c])} ELSE {}
    <3>2. owned' = owned \ gone /\ marked' = [c \in Code |-> IF c \in gone THEN 0 ELSE marked[c]]
      BY <3>1
    <3> HIDE DEF gone
    <3> QED
      BY <1>2, <3>2, BoundAssumption DEF Finish, TypeOK, LedgerType
  <2>3. seen' \in [Code -> [before : BOOLEAN, now : BOOLEAN, fired : Nat, takes : Nat]]
    BY <1>2 DEF Finish, TypeOK, Unseen
  <2> QED
    BY <1>1, <1>2, <2>1, <2>2, <2>3, ForgetType
       DEF Finish, TypeOK, LedgerType, Covered, Listed, Stage, Unread, broker, bounds, Pos
<1>3. CASE Crash
  BY <1>1, <1>3, ForgetType
     DEF Crash, TypeOK, Covered, Listed, Stage, Unread, broker, shared, ledger, bounds, Pos
<1> QED
  BY <1>2, <1>3

\* The end of day job.
LEMMA TypeEod ==
  ASSUME TypeInv, NEW high \in [Code -> Price \cup {0}], Eod(high)
  PROVE  TypeInv'
<1>1. ASSUME NEW c \in Code
      PROVE  EndOfDay(file[c], high[c]) \in Pos
  <2>1. high[c] \in Nat
    <3>1. high[c] \in Price \/ high[c] = 0
      OBVIOUS
    <3>2. \A x \in Price : x \in Nat
      BY PriceAssumption
    <3> QED
      BY <3>1, <3>2
  <2>2. file[c] \in Pos
    BY DEF TypeInv, TypeOK, Pos
  <2> QED
    BY <2>1, <2>2, DayType
<1>2. file' \in [Code -> Pos]
  BY <1>1 DEF Eod
<1> QED
  BY <1>2 DEF Eod, TypeInv, TypeOK, Covered, Listed, broker, ledger, locals, bounds, Pos

\* The clock, the broker and the other actors.
LEMMA TypeOthers ==
  ASSUME TypeInv, Broker \/ Others
  PROVE  TypeInv'
<1> USE DEF TypeInv
<1>2. CASE NextSlot
  <2>1. /\ work' \in [Code -> Nat] /\ openBuy' \in [Code -> Nat]
        /\ slot' \in Slot /\ Covered' /\ held' = held
    BY <1>2 DEF NextSlot, Expire, NoListing, Slot, TypeOK, Covered
  <2> QED
    BY <1>2, <2>1 DEF NextSlot, TypeOK, Listed, locals, bounds
<1>3. CASE NextDay
  <2>0. work' = NoListing /\ openBuy' = NoListing /\ slot' = "open" /\ held' = held
    BY <1>3 DEF NextDay, Expire
  <2>1. /\ work' \in [Code -> Nat] /\ openBuy' \in [Code -> Nat]
        /\ slot' \in Slot /\ Covered'
    BY <2>0 DEF NoListing, Slot, TypeOK, Covered
  <2>2. file' \in [Code -> Pos]
    BY <1>3, DayType DEF NextDay, TypeOK, Pos
  <2>3. seen' \in [Code -> [before : BOOLEAN, now : BOOLEAN, fired : Nat, takes : Nat]]
    BY <1>3 DEF NextDay, TypeOK
  <2>4. marked' \in [Code -> 0 .. ORDER_LEDGER_TTL + 1] /\ dropping' = {}
    <3>1. /\ dropping' = {} /\ owned \subseteq Code
          /\ marked' = [c \in Code |-> IF c \in owned THEN Smaller(marked[c] + 1, ORDER_LEDGER_TTL + 1)
                                                    ELSE 0]
      BY <1>3 DEF NextDay, TypeOK
    <3>2. \A c \in Code : Smaller(marked[c] + 1, ORDER_LEDGER_TTL + 1) \in 0 .. ORDER_LEDGER_TTL + 1
      BY BoundAssumption DEF TypeOK, Smaller
    <3>3. 0 \in 0 .. ORDER_LEDGER_TTL + 1
      BY BoundAssumption
    <3> QED
      BY <3>1, <3>2, <3>3
  <2> QED
    BY <1>3, <2>0, <2>1, <2>2, <2>3, <2>4 DEF NextDay, TypeOK, Listed, locals, bounds, Pos
<1>4. ASSUME NEW c \in Code, NEW n \in 1 .. 2 * Lot, SellFill(c, n)
      PROVE  TypeInv'
  <2>1. held[c] \in Nat /\ work[c] \in Nat /\ work[c] <= held[c] /\ n \in Nat /\ n <= work[c]
    BY <1>4 DEF SellFill, TypeOK, Covered
  <2>2. held' \in [Code -> Nat] /\ work' \in [Code -> Nat] /\ Covered'
    BY <1>4, <2>1 DEF SellFill, TypeOK, Covered
  <2> QED
    BY <1>4, <2>2 DEF SellFill, TypeOK, Listed, shared, ledger, locals, bounds
<1>5. ASSUME NEW c \in Code, NEW n \in 1 .. 2 * Lot, BuyFill(c, n)
      PROVE  TypeInv'
  <2>1. held[c] \in Nat /\ openBuy[c] \in Nat /\ n \in Nat /\ n <= openBuy[c]
    BY <1>5 DEF BuyFill, TypeOK
  <2>2. held' \in [Code -> Nat] /\ openBuy' \in [Code -> Nat] /\ Covered'
    BY <1>5, <2>1 DEF BuyFill, TypeOK, Covered
  <2> QED
    BY <1>5, <2>2 DEF BuyFill, TypeOK, Listed, shared, ledger, locals, bounds
<1>6. ASSUME NEW c \in Code, BuyOrder(c) \/ BuyCancel(c)
      PROVE  TypeInv'
  <2>1. CASE BuyOrder(c)
    <3>1. PICK readable \in Readable :
             /\ owned' = Entries(readable) \cup {c}
             /\ marked' = [d \in Code |-> IF d \in Entries(readable) THEN marked[d] ELSE 0]
             /\ lost' = (lost \cup {d \in owned \ Entries(readable) :
                                       held[d] > 0 \/ openBuy[d] > 0}) \ {c}
             /\ sold' = IF readable THEN sold ELSE {}
      BY <2>1 DEF BuyOrder
    <3>2. Entries(readable) \subseteq owned
      BY DEF Entries
    <3>3. LedgerType' /\ sold' \subseteq Code
      BY <2>1, <3>1, <3>2, BoundAssumption DEF BuyOrder, TypeOK, LedgerType
    <3> QED
      BY <2>1, <3>3, BoundAssumption
         DEF BuyOrder, TypeOK, LedgerType, Covered, Listed, locals, bounds
  <2>2. CASE BuyCancel(c)
    <3>1. \E kept \in SUBSET owned : Keep(kept)
      BY <2>2 DEF BuyCancel
    <3>2. LedgerType'
      BY <2>2, <3>1, KeepType DEF BuyCancel, TypeOK, LedgerType
    <3>3. openBuy' \in [Code -> Nat]
      BY <2>2 DEF BuyCancel, TypeOK
    <3> QED
      BY <2>2, <3>2, <3>3 DEF BuyCancel, TypeOK, LedgerType, Covered, Listed, locals, bounds
  <2> QED
    BY <1>6, <2>1, <2>2
<1>9. CASE BuyList
  BY <1>9 DEF BuyList, TypeOK, Covered, Listed, broker, locals, bounds
<1>10. CASE Screened
  <2>1. \E kept \in SUBSET owned : Keep(kept)
    BY <1>10 DEF Screened, Entries
  <2>2. LedgerType'
    BY <1>10, <2>1, KeepType DEF Screened, TypeOK, LedgerType
  <2>3. sold' \subseteq Code
    BY <1>10 DEF Screened, TypeOK
  <2> QED
    BY <1>10, <2>2, <2>3 DEF Screened, TypeOK, LedgerType, Covered, Listed, locals, bounds
<1>7. ASSUME NEW c \in Code, UserBuy(c) \/ UserCancel(c)
      PROVE  TypeInv'
  <2>1. held[c] \in Nat /\ work[c] \in Nat /\ Lot \in Nat
    BY BoundAssumption DEF TypeOK
  <2>2. CASE UserBuy(c)
    <3>1. held' \in [Code -> Nat] /\ Covered' /\ manual' \subseteq Code
      BY <2>1, <2>2 DEF UserBuy, TypeOK, Covered
    <3> QED
      BY <2>2, <3>1 DEF UserBuy, TypeOK, Listed, ledger, locals, bounds
  <2>3. CASE UserCancel(c)
    <3>0. held' = held
      BY <2>3 DEF UserCancel
    <3>1. work' \in [Code -> Nat] /\ openBuy' \in [Code -> Nat] /\ Covered'
      <4>1. CASE work' = [work EXCEPT ![c] = 0] /\ openBuy' = openBuy
        BY <2>1, <3>0, <4>1 DEF TypeOK, Covered
      <4>2. CASE openBuy' = [openBuy EXCEPT ![c] = 0] /\ work' = work
        BY <3>0, <4>2 DEF TypeOK, Covered
      <4> QED
        BY <2>3, <4>1, <4>2 DEF UserCancel
    <3> QED
      BY <2>3, <3>0, <3>1 DEF UserCancel, TypeOK, Listed, shared, ledger, locals, bounds
  <2> QED
    BY <1>7, <2>2, <2>3
<1>8. ASSUME NEW c \in Code, NEW n \in 1 .. 2 * Lot, UserSell(c, n)
      PROVE  TypeInv'
  <2>1. /\ held[c] \in Nat /\ work[c] \in Nat /\ work[c] <= held[c]
        /\ n \in Nat /\ n <= held[c] - work[c]
    BY <1>8 DEF UserSell, Sellable, TypeOK, Covered
  <2>2. held' \in [Code -> Nat] /\ Covered'
    BY <1>8, <2>1 DEF UserSell, TypeOK, Covered
  <2> QED
    BY <1>8, <2>2 DEF UserSell, TypeOK, Listed, ledger, locals, bounds
<1> QED
  BY <1>2, <1>3, <1>4, <1>5, <1>6, <1>7, <1>8, <1>9, <1>10 DEF Broker, Others

LEMMA TypeStep == TypeInv /\ [Next]_vars => TypeInv'
<1> SUFFICES ASSUME TypeInv, [Next]_vars
             PROVE  TypeInv'
  OBVIOUS
<1>1. CASE List \/ ListEmpty \/ ReadFiles \/ GiveUp
  BY <1>1, TypeStart
<1>3. CASE Look \/ Rules \/ Finish \/ Crash
  BY <1>3, TypeLook, TypeRules, TypeFinish
<1>4. CASE UNCHANGED vars
  BY <1>4 DEF vars, broker, shared, ledger, locals, bounds, TypeInv, TypeOK, Covered, Listed
<1> QED
  BY <1>1, <1>3, <1>4, TypeEod, TypeOthers DEF Next, Cycle

\* The state of the exit job is always what its code takes it for; in
\* particular a rule is only ever judged for a registered position with
\* shares left to sell.
THEOREM TypeCorrect == Spec => []TypeOK
<1>1. TypeInv => TypeOK
  BY DEF TypeInv
<1> QED
  BY <1>1, TypeInit, TypeStep, PTL DEF Spec

(***************************************************************************)
(* A line that has fired is armed again only above the peak it fired at.   *)
(***************************************************************************)
HighInv == TypeInv /\ ArmedAtNewHigh

\* The cycle's updates keep it.
LEMMA UpdateHigh ==
  ASSUME NEW p \in Position, HighSinceFire(p),
         NEW x \in Nat, NEW last \in BOOLEAN, NEW w \in Watch
  PROVE  /\ HighSinceFire(Quoted(p, x))
         /\ HighSinceFire(Leaving(p))
         /\ p.trail_armed => HighSinceFire(Fired(p, last))
         /\ HighSinceFire(Taken(p, last))
         /\ HighSinceFire(Watched(p, w))
<1> USE DEF HighSinceFire, Position
<1>1. HighSinceFire(Quoted(p, x))
  BY NoPosAssumption DEF Quoted, Larger
<1>2. HighSinceFire(Leaving(p)) /\ HighSinceFire(Taken(p, last)) /\ HighSinceFire(Watched(p, w))
  BY NoPosAssumption DEF Leaving, Taken, Watched
<1>3. ASSUME p.trail_armed
      PROVE  HighSinceFire(Fired(p, last))
  BY <1>3, NoPosAssumption DEF Fired
<1> QED
  BY <1>1, <1>2, <1>3

\* So does registering a code.
LEMMA RegisteredHigh ==
  ASSUME NEW p \in Pos, HighSinceFire(p), NEW e \in Entry, NEW a \in Atr, NEW q \in Nat
  PROVE  HighSinceFire(Registered(p, e, a, q))
<1>1. CASE p = NoPos
  BY <1>1, PriceAssumption DEF Registered, InitPos, HighSinceFire
<1>2. CASE p \in Position
  BY <1>2, NoPosAssumption DEF Registered, HighSinceFire, Position
<1> QED
  BY <1>1, <1>2 DEF Pos

\* And the clock and the end of day job.
LEMMA DayHigh ==
  ASSUME NEW p \in Pos, HighSinceFire(p), NEW hi \in Nat
  PROVE  HighSinceFire(Aged(p)) /\ HighSinceFire(EndOfDay(p, hi))
<1>1. CASE p = NoPos
  BY <1>1 DEF Aged, EndOfDay, HighSinceFire
<1>2. CASE p \in Position
  <2> DEFINE age == Smaller(p.age + 1, MAX_HOLD_DAYS)
             watch == IF p.watch = "today" THEN "earlier" ELSE p.watch
             top == Larger(p.peak, hi)
             armed == IF p.last_fire_peak # 0 /\ top > p.last_fire_peak
                        THEN TRUE ELSE p.trail_armed
  <2>1. Aged(p) = [p EXCEPT !.age = age, !.watch = watch]
    BY <1>2, NoPosAssumption DEF Aged
  <2>2. /\ top \in Nat /\ top >= p.peak /\ p.last_fire_peak \in Nat
        /\ armed => p.trail_armed \/ top > p.last_fire_peak
        /\ p.trail_armed => armed
    BY <1>2 DEF Larger, Position
  <2>3. EndOfDay(p, hi) = IF hi = 0 THEN p
                          ELSE [p EXCEPT !.peak = top, !.trail_armed = armed]
    BY <1>2, NoPosAssumption DEF EndOfDay
  <2> HIDE DEF age, watch, top, armed
  <2>4. HighSinceFire(Aged(p))
    BY <1>2, <2>1, NoPosAssumption DEF HighSinceFire, Position
  <2>5. HighSinceFire(EndOfDay(p, hi))
    BY <1>2, <2>2, <2>3, NoPosAssumption DEF HighSinceFire, Position
  <2> QED
    BY <2>4, <2>5
<1> QED
  BY <1>1, <1>2 DEF Pos

\* A cycle step that changes the copy of one position only.
LEMMA HighOne ==
  ASSUME ArmedAtNewHigh, NEW c \in Code, NEW q, HighSinceFire(q),
         st \in [Code -> Pos], st' = [st EXCEPT ![c] = q], file' = file
  PROVE  ArmedAtNewHigh'
  BY DEF ArmedAtNewHigh

LEMMA HighStep == HighInv /\ [Next]_vars => ArmedAtNewHigh'
<1> USE DEF Unread
<1> SUFFICES ASSUME TypeInv, ArmedAtNewHigh, [Next]_vars
             PROVE  ArmedAtNewHigh'
  BY DEF HighInv
<1>1. /\ st \in [Code -> Pos] /\ file \in [Code -> Pos] /\ cur \in Code
      /\ \A c \in Code : HighSinceFire(st[c]) /\ HighSinceFire(file[c])
  BY DEF TypeInv, TypeOK, ArmedAtNewHigh, Pos
<1>2. CASE UNCHANGED <<st, file>>
  BY <1>2 DEF ArmedAtNewHigh
<1>3. ASSUME st' = NoState, \A c \in Code : HighSinceFire(file'[c])
      PROVE  ArmedAtNewHigh'
  BY <1>3 DEF ArmedAtNewHigh, NoState, HighSinceFire
<1>4. CASE List \/ ListEmpty \/ ReadFiles \/ GiveUp
  <2>1. (st' \in {st, file} \/ st' = NoState) /\ file' = file
    BY <1>4 DEF List, ListEmpty, ReadFiles, GiveUp, Forget, shared
  <2> QED
    BY <1>1, <1>3, <2>1 DEF ArmedAtNewHigh
<1>5. CASE Look
  <2> PICK c \in Code, e \in Entry, a \in Atr :
           \/ \E x \in Price : Observe(c, e, a, x)
           \/ \E x \in Price \cup {0} : Skip(c, e, a, x)
    BY <1>5 DEF Look
  <2> DEFINE p == Registered(st[c], e, a, snap[c])
  <2>1. p \in Position /\ HighSinceFire(p)
    BY <1>1, RegisteredType, RegisteredHigh DEF TypeInv, TypeOK
  <2>2. ASSUME NEW x \in Price, Observe(c, e, a, x)
        PROVE  ArmedAtNewHigh'
    <3>1. st' = [st EXCEPT ![c] = Quoted(p, x)] /\ file' = file
      BY <2>2 DEF Observe, shared
    <3>2. x \in Nat
      BY PriceAssumption
    <3>3. HighSinceFire(Quoted(p, x))
      BY <2>1, <3>2, UpdateHigh DEF Watch
    <3> QED
      BY <1>1, <3>1, <3>3, HighOne
  <2>3. ASSUME NEW x \in Price \cup {0}, Skip(c, e, a, x)
        PROVE  ArmedAtNewHigh'
    <3>1. st' = [st EXCEPT ![c] = p] /\ file' = file
      BY <2>3 DEF Skip, shared
    <3> QED
      BY <1>1, <2>1, <3>1, HighOne
  <2> QED
    BY <2>2, <2>3
<1>6. CASE Rules
  <2>1. st[cur] \in Position
    BY <1>6 DEF TypeInv, TypeOK, Rules, StopExit, StopRefused, StopHit, NoStop,
         TrailWatch, TrailWait, TrailFire, TrailHit, NoTrail, TakeProfit,
         NoTakeProfit, HoldExit, NoHoldExit
  <2>2. CASE StopRefused \/ NoStop \/ TrailWait \/ NoTakeProfit \/ NoHoldExit
    BY <1>2, <2>2 DEF StopRefused, NoStop, TrailWait, NoTakeProfit, NoHoldExit,
                      Goto, shared, locals
  <2>3. CASE StopExit \/ HoldExit
    <3>1. st' = [st EXCEPT ![cur] = Leaving(@)] /\ file' = file
      BY <2>3 DEF StopExit, HoldExit, ExitAll, Accepted
    <3> QED
      BY <1>1, <2>1, <3>1, HighOne, UpdateHigh DEF Watch
  <2>4. CASE TrailWatch \/ NoTrail
    <3>1. PICK w \in Watch : st' = [st EXCEPT ![cur] = Watched(@, w)] /\ file' = file
      BY <2>4 DEF TrailWatch, NoTrail, Watch, shared
    <3> QED
      BY <1>1, <2>1, <3>1, HighOne, UpdateHigh
  <2>5. CASE TrailFire
    <3>1. PICK last \in BOOLEAN : st' = [st EXCEPT ![cur] = Fired(@, last)]
      BY <2>5 DEF TrailFire
    <3>2. file' = file /\ st[cur].trail_armed
      BY <2>5 DEF TrailFire, TrailHit, BelowTrail, Accepted
    <3> QED
      BY <1>1, <2>1, <3>1, <3>2, HighOne, UpdateHigh DEF Watch
  <2>6. CASE TakeProfit
    <3>1. PICK last \in BOOLEAN : st' = [st EXCEPT ![cur] = Taken(@, last)]
      BY <2>6 DEF TakeProfit
    <3>2. file' = file
      BY <2>6 DEF TakeProfit, Accepted
    <3> QED
      BY <1>1, <2>1, <3>1, <3>2, HighOne, UpdateHigh DEF Watch
  <2> QED
    BY <1>6, <2>2, <2>3, <2>4, <2>5, <2>6 DEF Rules
<1>7. CASE Finish
  <2>1. /\ st' = NoState
        /\ file' = [c \in Code |-> IF c \in live THEN st[c] ELSE NoPos]
    BY <1>7 DEF Finish, Forget
  <2>2. ASSUME NEW c \in Code
        PROVE  HighSinceFire(file'[c])
    BY <1>1, <2>1 DEF HighSinceFire
  <2> QED
    BY <1>3, <2>1, <2>2
<1>8. CASE Crash
  BY <1>1, <1>3, <1>8 DEF Crash, Forget, shared
<1>9. ASSUME NEW high \in [Code -> Price \cup {0}], Eod(high)
      PROVE  ArmedAtNewHigh'
  <2>1. st' = st /\ file' = [c \in Code |-> EndOfDay(file[c], high[c])]
    BY <1>9 DEF Eod, locals
  <2>2. ASSUME NEW c \in Code
        PROVE  HighSinceFire(EndOfDay(file[c], high[c]))
    <3>1. high[c] \in Price \/ high[c] = 0
      OBVIOUS
    <3>2. \A x \in Price : x \in Nat
      BY PriceAssumption
    <3>3. high[c] \in Nat
      BY <3>1, <3>2
    <3> QED
      BY <1>1, <3>3, DayHigh
  <2> QED
    BY <1>1, <2>1, <2>2 DEF ArmedAtNewHigh
<1>10. CASE NextDay
  <2>1. st' = st /\ file' = [c \in Code |-> Aged(file[c])]
    BY <1>10 DEF NextDay, locals
  <2> QED
    BY <1>1, <2>1, DayHigh DEF ArmedAtNewHigh
<1>11. CASE Others \/ (Broker /\ ~NextDay)
  <2>1. UNCHANGED <<st, file>>
    BY <1>11 DEF Others, Broker, NextSlot, SellFill, BuyFill, BuyOrder, BuyCancel,
                 BuyList, Screened, UserBuy, UserSell, UserCancel, shared, locals
  <2> QED
    BY <1>2, <2>1
<1>12. CASE UNCHANGED vars
  BY <1>2, <1>12 DEF vars, shared, locals
<1> QED
  BY <1>4, <1>5, <1>6, <1>7, <1>8, <1>9, <1>10, <1>11, <1>12 DEF Next, Cycle

LEMMA HighInit == Init => HighInv
<1>1. Init => ArmedAtNewHigh
  BY DEF Init, ArmedAtNewHigh, HighSinceFire, NoState
<1> QED
  BY <1>1, TypeInit DEF HighInv

LEMMA HighInvariant == Spec => []HighInv
<1>1. HighInv /\ [Next]_vars => HighInv'
  BY HighStep, TypeStep DEF HighInv
<1> QED
  BY <1>1, HighInit, PTL DEF Spec

\* In the file and in the copy of a running cycle, a trailing line is armed
\* only above the peak it last fired at, through crashes, empty listings and
\* whatever the user does.
THEOREM ArmedOnlyAboveLastFire == Spec => []ArmedAtNewHigh
<1>1. HighInv => ArmedAtNewHigh
  BY DEF HighInv
<1> QED
  BY <1>1, HighInvariant, PTL

(***************************************************************************)
(* Nothing more is ordered for a code whose full exit has been saved.      *)
(***************************************************************************)

\* The running cycle passes over a code whose exit the file says is pending.
PassedOver ==
  pc \notin Unread => \A c \in Code : Pending(file[c]) =>
                        c \notin todo /\ (pc # "scan" => cur # c)

QuietInv == TypeInv /\ PassedOver

LEMMA PassedOverStep == QuietInv /\ [Next]_vars => PassedOver'
<1> SUFFICES ASSUME TypeInv, PassedOver, [Next]_vars
             PROVE  PassedOver'
  BY DEF QuietInv
<1>1. CASE List \/ ListEmpty \/ ReadFiles \/ GiveUp
  <2>1. \/ pc' \in Unread
        \/ /\ file' = file /\ pc' = "scan"
           /\ \A c \in todo' : ~Pending(file[c])
    BY <1>1 DEF List, ListEmpty, ReadFiles, GiveUp, Forget, Unread, Unfinished, shared
  <2> QED
    BY <2>1 DEF PassedOver
<1>2. CASE Look
  <2>1. PICK c \in todo :
           /\ file' = file /\ pc = "scan" /\ todo' = todo \ {c}
           /\ pc' = "scan" \/ cur' = c
    BY <1>2 DEF Look, Observe, Skip, shared
  <2>2. \A d \in Code : Pending(file'[d]) <=> Pending(file[d])
    BY <2>1 DEF Pending
  <2>3. \A d \in Code : Pending(file[d]) => d \notin todo
    BY <2>1 DEF PassedOver, Unread
  <2>4. \A d \in Code : Pending(file'[d]) =>
                          d \notin todo' /\ (pc' # "scan" => cur' # d)
    <3> SUFFICES ASSUME NEW d \in Code, Pending(file'[d])
                 PROVE  d \notin todo' /\ (pc' # "scan" => cur' # d)
      OBVIOUS
    <3>1. d \notin todo
      BY <2>2, <2>3
    <3> QED
      BY <2>1, <3>1
  <2> QED
    BY <2>4 DEF PassedOver
<1>3. CASE Rules
  <2>1. /\ file' = file /\ cur' = cur /\ todo' = todo
        /\ pc \notin Unread \cup {"scan"}
    BY <1>3 DEF Unread, Rules, StopExit, StopRefused, StopHit, NoStop, TrailWatch,
         TrailWait, TrailFire, TrailHit, NoTrail, TakeProfit, NoTakeProfit,
         HoldExit, NoHoldExit, Goto, ExitAll, Accepted, shared, locals
  <2> QED
    BY <2>1 DEF PassedOver
<1>4. CASE Finish \/ Crash
  BY <1>4 DEF Finish, Crash, Forget, PassedOver, Unread
<1>5. CASE \E high \in [Code -> Price \cup {0}] : Eod(high)
  BY <1>5 DEF Eod, PassedOver, Unread
<1>6. CASE NextDay
  BY <1>6 DEF NextDay, PassedOver, Unread
<1>7. CASE Others \/ (Broker /\ ~NextDay) \/ UNCHANGED vars
  <2>1. UNCHANGED <<pc, file, todo, cur>>
    BY <1>7 DEF Others, Broker, NextSlot, SellFill, BuyFill, BuyOrder, BuyCancel,
                BuyList, Screened, UserBuy, UserSell, UserCancel, vars, shared, locals
  <2> QED
    BY <2>1 DEF PassedOver
<1> QED
  BY <1>1, <1>2, <1>3, <1>4, <1>5, <1>6, <1>7 DEF Next, Cycle

\* A sell order is only ever added for the code the rules look at.
LEMMA OrderForCur ==
  ASSUME TypeInv, [Next]_vars, NEW c \in Code, work'[c] > work[c]
  PROVE  Rules /\ c = cur
<1>1. work \in [Code -> Nat] /\ cur \in Code
  BY DEF TypeInv, TypeOK
<1>2. CASE Rules
  <2>1. \/ work' = work
        \/ \E n : work' = [work EXCEPT ![cur] = @ + n]
    BY <1>2 DEF Rules, StopExit, StopRefused, NoStop, TrailWatch,
         TrailWait, TrailFire, NoTrail, TakeProfit, NoTakeProfit,
         HoldExit, NoHoldExit, Goto, ExitAll, Accepted, broker
  <2> QED
    BY <1>1, <1>2, <2>1
<1>3. CASE NextSlot \/ NextDay
  <2>1. work' = work \/ work' = NoListing
    BY <1>3 DEF NextSlot, NextDay, Expire
  <2> QED
    BY <1>1, <2>1 DEF NoListing
<1>4. ASSUME NEW d \in Code, NEW n \in 1 .. 2 * Lot, SellFill(d, n)
      PROVE  FALSE
  BY <1>1, <1>4 DEF SellFill
<1>5. ASSUME NEW d \in Code, UserCancel(d)
      PROVE  FALSE
  BY <1>1, <1>5 DEF UserCancel
<1>6. CASE \/ List \/ ListEmpty \/ ReadFiles \/ GiveUp \/ Look \/ Finish \/ Crash
           \/ \E high \in [Code -> Price \cup {0}] : Eod(high)
           \/ UNCHANGED vars
  <2>1. work' = work
    BY <1>6 DEF List, ListEmpty, ReadFiles, GiveUp, Look, Observe, Skip, Finish, Crash,
                Eod, vars, broker
  <2> QED
    BY <1>1, <2>1
<1>7. ASSUME NEW d \in Code, NEW n \in 1 .. 2 * Lot,
             \/ BuyFill(d, n) \/ BuyOrder(d) \/ BuyCancel(d) \/ UserBuy(d)
             \/ UserSell(d, n)
      PROVE  FALSE
  <2>1. work' = work
    BY <1>7 DEF BuyFill, BuyOrder, BuyCancel, UserBuy, UserSell
  <2> QED
    BY <1>1, <2>1
<1>8. CASE Broker
  BY <1>3, <1>4, <1>7, <1>8 DEF Broker
<1>9. CASE Others
  <2>1. work' = work \/ \E d \in Code : UserCancel(d)
    BY <1>9 DEF Others, BuyOrder, BuyCancel, BuyList, Screened, UserBuy, UserSell, broker
  <2> QED
    BY <1>1, <1>5, <2>1
<1>10. CASE Cycle
  BY <1>2, <1>6, <1>10 DEF Cycle
<1> QED
  BY <1>6, <1>8, <1>9, <1>10 DEF Next

LEMMA QuietInvariant == Spec => []QuietInv
<1>1. Init => PassedOver
  BY DEF Init, PassedOver, Unread
<1>2. Init => QuietInv
  BY <1>1, TypeInit DEF QuietInv
<1>3. QuietInv /\ [Next]_vars => QuietInv'
  BY PassedOverStep, TypeStep DEF QuietInv
<1> QED
  BY <1>2, <1>3, PTL DEF Spec

\* Once a full exit is in the state file no further sell order goes out for
\* the code, whatever order the jobs, the broker and the user move in.
THEOREM QuietWhileExitingHolds == Spec => QuietWhileExiting
<1> DEFINE Quiet == \A c \in Code : work'[c] > work[c] => ~Pending(file[c])
<1>1. QuietInv /\ [Next]_vars => [Quiet]_vars
  <2> SUFFICES ASSUME TypeInv, PassedOver, [Next]_vars, NEW c \in Code,
                      work'[c] > work[c], Pending(file[c])
               PROVE  FALSE
    BY DEF QuietInv
  <2>1. Rules /\ c = cur
    BY OrderForCur
  <2>2. pc \notin Unread \cup {"scan"}
    BY <2>1 DEF Unread, Rules, StopExit, StopRefused, StopHit, NoStop, TrailWatch,
         TrailWait, TrailFire, TrailHit, NoTrail, TakeProfit, NoTakeProfit,
         HoldExit, NoHoldExit
  <2> QED
    BY <2>1, <2>2 DEF PassedOver
<1> QED
  BY <1>1, QuietInvariant, PTL DEF Spec, QuietWhileExiting

(***************************************************************************)
(* What the file and the copy remember of the orders sent, when no cycle   *)
(* dies before it saves.                                                   *)
(***************************************************************************)

\* The position says what was sent for the holding.
Remembers(s, p) ==
  /\ p = NoPos => s.fired = 0 /\ s.takes = 0
  /\ p # NoPos => /\ s.fired = p.last_fire_peak
                  /\ s.takes = IF p.tp_done THEN 1 ELSE 0

\* the position the job goes by: its copy while a cycle runs
Current == IF pc \in Unread THEN file ELSE st

Memory    == \A c \in Code : Remembers(seen[c], Current[c])
MemoryInv == HighInv /\ Memory

Seen == [before : BOOLEAN, now : BOOLEAN, fired : Nat, takes : Nat]

\* What the updates of a position do to the memory of it.
LEMMA UpdateMemory ==
  ASSUME NEW p \in Position, NEW s \in Seen, Remembers(s, p),
         NEW x \in Nat, NEW b \in BOOLEAN, NEW last \in BOOLEAN, NEW w \in Watch
  PROVE  /\ Remembers(Noted(s, b), Quoted(p, x))
         /\ Remembers(s, Leaving(p))
         /\ Remembers(s, Watched(p, w))
         /\ Remembers(NotedFire(s, p.peak), Fired(p, last))
         /\ ~p.tp_done => Remembers(NotedTake(s), Taken(p, last))
<1>1. /\ Quoted(p, x) # NoPos /\ Leaving(p) # NoPos /\ Watched(p, w) # NoPos
      /\ Fired(p, last) # NoPos /\ Taken(p, last) # NoPos /\ p # NoPos
  BY UpdateType, NoPosAssumption
<1>2. s.fired = p.last_fire_peak /\ s.takes = IF p.tp_done THEN 1 ELSE 0
  BY <1>1 DEF Remembers
<1>3. Remembers(Noted(s, b), Quoted(p, x))
  BY <1>1, <1>2 DEF Remembers, Noted, Quoted, Position, Seen
<1>4. Remembers(s, Leaving(p)) /\ Remembers(s, Watched(p, w))
  BY <1>1, <1>2 DEF Remembers, Leaving, Watched, Position
<1>5. Remembers(NotedFire(s, p.peak), Fired(p, last))
  BY <1>1, <1>2 DEF Remembers, NotedFire, Fired, Position, Seen
<1>6. ASSUME ~p.tp_done
      PROVE  Remembers(NotedTake(s), Taken(p, last))
  BY <1>1, <1>2, <1>6 DEF Remembers, NotedTake, Taken, Position, Seen
<1> QED
  BY <1>3, <1>4, <1>5, <1>6

\* Registering a code keeps the memory of it.
LEMMA RegisteredMemory ==
  ASSUME NEW p \in Pos, NEW s \in Seen, Remembers(s, p),
         NEW e \in Entry, NEW a \in Atr, NEW q \in Nat
  PROVE  Remembers(s, Registered(p, e, a, q))
<1>1. Registered(p, e, a, q) # NoPos
  BY RegisteredType, NoPosAssumption
<1>2. CASE p = NoPos
  <2>1. Registered(p, e, a, q) = InitPos(e, a, q)
    BY <1>2 DEF Registered
  <2>2. InitPos(e, a, q).last_fire_peak = 0 /\ ~InitPos(e, a, q).tp_done
    BY DEF InitPos
  <2> QED
    BY <1>1, <1>2, <2>1, <2>2 DEF Remembers
<1>3. CASE p \in Position
  BY <1>1, <1>3, NoPosAssumption DEF Remembers, Registered, Position
<1> QED
  BY <1>2, <1>3 DEF Pos

\* The end of day job and the clock keep the memory.
LEMMA EndMemory ==
  ASSUME NEW p \in Pos, NEW s \in Seen, Remembers(s, p), NEW hi \in Nat
  PROVE  /\ Remembers(s, EndOfDay(p, hi))
         /\ Remembers([s EXCEPT !.before = FALSE, !.now = FALSE], Aged(p))
<1> DEFINE t == [s EXCEPT !.before = FALSE, !.now = FALSE]
<1>1. t.fired = s.fired /\ t.takes = s.takes
  BY DEF Seen
<1>3. CASE p = NoPos
  <2>1. Aged(p) = NoPos /\ EndOfDay(p, hi) = NoPos
    BY <1>3 DEF Aged, EndOfDay
  <2> QED
    BY <1>1, <1>3, <2>1 DEF Remembers
<1>4. CASE p \in Position
  <2>1. p # NoPos /\ s.fired = p.last_fire_peak /\ s.takes = IF p.tp_done THEN 1 ELSE 0
    BY <1>4, NoPosAssumption DEF Remembers
  <2> DEFINE age == Smaller(p.age + 1, MAX_HOLD_DAYS)
             watch == IF p.watch = "today" THEN "earlier" ELSE p.watch
             top == Larger(p.peak, hi)
             armed == IF p.last_fire_peak # 0 /\ top > p.last_fire_peak
                        THEN TRUE ELSE p.trail_armed
  <2>3. Aged(p) = [p EXCEPT !.age = age, !.watch = watch]
    BY <2>1 DEF Aged
  <2>4. EndOfDay(p, hi) = IF hi = 0 THEN p
                          ELSE [p EXCEPT !.peak = top, !.trail_armed = armed]
    BY <2>1 DEF EndOfDay
  <2> HIDE DEF age, watch, top, armed
  <2>5. /\ Aged(p).last_fire_peak = p.last_fire_peak
        /\ Aged(p).tp_done = p.tp_done
        /\ EndOfDay(p, hi).last_fire_peak = p.last_fire_peak
        /\ EndOfDay(p, hi).tp_done = p.tp_done
    BY <1>4, <2>3, <2>4 DEF Position
  <2>6. Aged(p) # NoPos /\ EndOfDay(p, hi) # NoPos
    BY <1>4, DayType, NoPosAssumption DEF Pos
  <2> HIDE DEF t
  <2>7. Remembers(s, EndOfDay(p, hi)) /\ Remembers(t, Aged(p))
    BY <1>1, <2>1, <2>5, <2>6 DEF Remembers
  <2> QED
    BY <2>7 DEF t
<1> QED
  BY <1>3, <1>4 DEF Pos

LEMMA MemoryStep ==
  ASSUME Faults = 0
  PROVE  MemoryInv /\ [Next]_vars => Memory'
<1> USE DEF Unread
<1> SUFFICES ASSUME TypeInv, Memory, [Next]_vars
             PROVE  Memory'
  BY DEF MemoryInv, HighInv
<1>1. /\ st \in [Code -> Pos] /\ file \in [Code -> Pos] /\ cur \in Code
      /\ seen \in [Code -> Seen]
  BY DEF TypeInv, TypeOK, Pos, Seen
<1>2. CASE UNCHANGED <<st, file, seen, pc>>
  BY <1>2 DEF Memory, Current
<1>3. CASE List \/ ListEmpty \/ ReadFiles \/ GiveUp
  <2>1. /\ pc \in Unread /\ file' = file /\ seen' = seen
        /\ pc' \in Unread \/ (pc' = "scan" /\ st' = file)
    BY <1>3 DEF List, ListEmpty, ReadFiles, GiveUp, Forget, Unread, shared
  <2> QED
    BY <2>1 DEF Unread, Memory, Current
\* one position and what is remembered of it change within a cycle
<1>4. ASSUME NEW c \in Code, NEW q, NEW s, Remembers(s, q),
             pc \notin Unread, pc' \notin Unread,
             st' = [st EXCEPT ![c] = q], seen' = [seen EXCEPT ![c] = s]
      PROVE  Memory'
  BY <1>1, <1>4 DEF Memory, Current
<1>5. CASE Look
  <2> PICK c \in Code, e \in Entry, a \in Atr :
           \/ \E x \in Price : Observe(c, e, a, x)
           \/ \E x \in Price \cup {0} : Skip(c, e, a, x)
    BY <1>5 DEF Look
  <2> DEFINE p == Registered(st[c], e, a, snap[c])
  <2>1. pc = "scan"
    BY DEF Observe, Skip
  <2>2. p \in Position /\ Remembers(seen[c], p) /\ seen[c] \in Seen
    <3>1. snap[c] \in Nat /\ 0 \in Nat /\ Remembers(seen[c], st[c])
      BY <2>1 DEF TypeInv, TypeOK, Memory, Current, Unread
    <3> QED
      BY <1>1, <3>1, RegisteredType, RegisteredMemory
  <2>3. ASSUME NEW x \in Price, Observe(c, e, a, x)
        PROVE  Memory'
    <3> DEFINE b == BelowTrail(Quoted(p, x), x)
    <3>1. /\ st' = [st EXCEPT ![c] = Quoted(p, x)] /\ pc' = "stop"
          /\ seen' = [seen EXCEPT ![c] = Noted(seen[c], b)]
      BY <2>3 DEF Observe
    <3>2. x \in Nat
      BY PriceAssumption
    <3>3. b \in BOOLEAN
      BY DEF BelowTrail
    <3> HIDE DEF p, b
    <3>4. Remembers(Noted(seen[c], b), Quoted(p, x))
      BY <2>2, <3>2, <3>3, UpdateMemory DEF Watch
    <3> QED
      BY <1>4, <2>1, <3>1, <3>4
  <2>4. ASSUME NEW x \in Price \cup {0}, Skip(c, e, a, x)
        PROVE  Memory'
    <3>1. /\ st' = [st EXCEPT ![c] = p] /\ pc' = "scan"
          /\ seen' = [seen EXCEPT ![c] = seen[c]]
      BY <1>1, <2>4 DEF Skip
    <3> HIDE DEF p
    <3> QED
      BY <1>4, <2>1, <2>2, <3>1
  <2> QED
    BY <2>3, <2>4
<1>6. CASE Rules
  <2>1. st[cur] \in Position /\ pc \notin Unread
    BY <1>6 DEF TypeInv, TypeOK, Rules, StopExit, StopRefused, StopHit, NoStop,
         TrailWatch, TrailWait, TrailFire, TrailHit, NoTrail, TakeProfit,
         NoTakeProfit, HoldExit, NoHoldExit
  <2>2. Remembers(seen[cur], st[cur]) /\ seen[cur] \in Seen
    BY <1>1, <2>1 DEF Memory, Current
  <2>3. CASE StopRefused \/ NoStop \/ TrailWait \/ NoTakeProfit \/ NoHoldExit
    <3>1. /\ st' = [st EXCEPT ![cur] = st[cur]] /\ pc' \notin Unread
          /\ seen' = [seen EXCEPT ![cur] = seen[cur]]
      BY <1>1, <2>3 DEF StopRefused, NoStop, TrailWait, NoTakeProfit, NoHoldExit,
                        Goto, Unread, locals
    <3> QED
      BY <1>1, <1>4, <2>1, <2>2, <3>1
  <2>4. CASE StopExit \/ HoldExit
    <3>1. /\ st' = [st EXCEPT ![cur] = Leaving(st[cur])] /\ pc' \notin Unread
          /\ seen' = [seen EXCEPT ![cur] = seen[cur]]
      BY <1>1, <2>4 DEF StopExit, HoldExit, ExitAll
    <3>2. Remembers(seen[cur], Leaving(st[cur]))
      BY <2>1, <2>2, UpdateMemory DEF Watch
    <3> QED
      BY <1>1, <1>4, <2>1, <3>1, <3>2
  <2>5. CASE TrailWatch \/ NoTrail
    <3>1. PICK w \in Watch :
             /\ st' = [st EXCEPT ![cur] = Watched(st[cur], w)] /\ pc' \notin Unread
             /\ seen' = [seen EXCEPT ![cur] = seen[cur]]
      BY <1>1, <2>5 DEF TrailWatch, NoTrail, Watch
    <3>2. Remembers(seen[cur], Watched(st[cur], w))
      BY <2>1, <2>2, UpdateMemory
    <3> QED
      BY <1>1, <1>4, <2>1, <3>1, <3>2
  <2>6. CASE TrailFire
    <3>1. PICK last \in BOOLEAN :
             /\ st' = [st EXCEPT ![cur] = Fired(st[cur], last)] /\ pc' \notin Unread
             /\ seen' = [seen EXCEPT ![cur] = NotedFire(seen[cur], st[cur].peak)]
      BY <2>6 DEF TrailFire
    <3>2. Remembers(NotedFire(seen[cur], st[cur].peak), Fired(st[cur], last))
      BY <2>1, <2>2, UpdateMemory DEF Watch
    <3> QED
      BY <1>1, <1>4, <2>1, <3>1, <3>2
  <2>7. CASE TakeProfit
    <3>1. PICK last \in BOOLEAN :
             /\ st' = [st EXCEPT ![cur] = Taken(st[cur], last)] /\ pc' \notin Unread
             /\ seen' = [seen EXCEPT ![cur] = NotedTake(seen[cur])]
      BY <2>7 DEF TakeProfit
    <3>2. ~st[cur].tp_done
      BY <2>7 DEF TakeProfit, AtTarget
    <3>3. Remembers(NotedTake(seen[cur]), Taken(st[cur], last))
      BY <2>1, <2>2, <3>2, UpdateMemory DEF Watch
    <3> QED
      BY <1>1, <1>4, <2>1, <3>1, <3>3
  <2> QED
    BY <1>6, <2>3, <2>4, <2>5, <2>6, <2>7 DEF Rules
<1>7. CASE Finish
  <2>1. /\ pc \notin Unread /\ pc' = "idle"
        /\ file' = [c \in Code |-> IF c \in live THEN st[c] ELSE NoPos]
        /\ seen' = [c \in Code |-> IF c \in live THEN seen[c] ELSE Unseen]
    BY <1>7 DEF Finish, Forget
  <2>2. Remembers(Unseen, NoPos)
    BY DEF Remembers, Unseen
  <2> QED
    BY <2>1, <2>2 DEF Memory, Current
\* no cycle dies before it saves
<1>8. CASE Crash
  BY <1>8 DEF Crash, TypeInv, TypeOK
<1>9. ASSUME NEW high \in [Code -> Price \cup {0}], Eod(high)
      PROVE  Memory'
  <2>1. /\ pc = "idle" /\ pc' = "idle" /\ seen' = seen
        /\ file' = [c \in Code |-> EndOfDay(file[c], high[c])]
    BY <1>9 DEF Eod
  <2>2. ASSUME NEW c \in Code
        PROVE  Remembers(seen[c], EndOfDay(file[c], high[c]))
    <3>1. high[c] \in Price \/ high[c] = 0
      OBVIOUS
    <3>2. \A x \in Price : x \in Nat
      BY PriceAssumption
    <3>3. high[c] \in Nat
      BY <3>1, <3>2
    <3>4. Remembers(seen[c], file[c])
      BY <2>1 DEF Memory, Current
    <3> QED
      BY <1>1, <3>3, <3>4, EndMemory
  <2> QED
    BY <2>1, <2>2 DEF Memory, Current
<1>10. CASE NextDay
  <2>1. /\ pc = "idle" /\ pc' = "idle"
        /\ file' = [c \in Code |-> Aged(file[c])]
        /\ seen' = [c \in Code |-> [seen[c] EXCEPT !.before = FALSE, !.now = FALSE]]
    BY <1>10 DEF NextDay
  <2>2. ASSUME NEW c \in Code
        PROVE  Remembers([seen[c] EXCEPT !.before = FALSE, !.now = FALSE], Aged(file[c]))
    <3>1. Remembers(seen[c], file[c]) /\ 0 \in Nat
      BY <2>1 DEF Memory, Current
    <3> QED
      BY <1>1, <3>1, EndMemory
  <2> QED
    BY <2>1, <2>2 DEF Memory, Current
<1>11. CASE Others \/ (Broker /\ ~NextDay)
  <2>1. UNCHANGED <<st, file, seen, pc>>
    BY <1>11 DEF Others, Broker, NextSlot, SellFill, BuyFill, BuyOrder, BuyCancel,
                 BuyList, Screened, UserBuy, UserSell, UserCancel, shared, locals
  <2> QED
    BY <1>2, <2>1
<1>12. CASE UNCHANGED vars
  BY <1>2, <1>12 DEF vars, shared, locals
<1> QED
  BY <1>3, <1>5, <1>6, <1>7, <1>8, <1>9, <1>10, <1>11, <1>12 DEF Next, Cycle

LEMMA MemoryInvariant ==
  ASSUME Faults = 0
  PROVE  Spec => []MemoryInv
<1>1. Init => MemoryInv
  <2>1. Init => Memory
    BY DEF Init, Memory, Current, Remembers, NoState, Unseen
  <2> QED
    BY <2>1, HighInit DEF MemoryInv
<1>2. MemoryInv /\ [Next]_vars => MemoryInv'
  BY MemoryStep, HighStep, TypeStep DEF MemoryInv, HighInv
<1> QED
  BY <1>1, <1>2, PTL DEF Spec

\* When every cycle lives to save its copy, half of a holding is sold at the
\* +20% target once and never again, whatever the broker and the user do.
THEOREM TakeProfitAtMostOnce ==
  ASSUME Faults = 0
  PROVE  Spec => []TakeProfitOnce
<1>1. MemoryInv => TakeProfitOnce
  <2> SUFFICES ASSUME Memory, NEW c \in Code
               PROVE  seen[c].takes <= 1
    BY DEF MemoryInv, TakeProfitOnce
  <2>1. Remembers(seen[c], Current[c])
    BY DEF Memory
  <2>2. seen[c].takes = 0 \/ seen[c].takes = 1
    BY <2>1 DEF Remembers
  <2> QED
    BY <2>2
<1> QED
  BY <1>1, MemoryInvariant, PTL

\* When every cycle lives to save its copy, each trailing order of a holding
\* is for a peak above the peaks of all those before it.
THEOREM EachTrailAtNewHigh ==
  ASSUME Faults = 0
  PROVE  Spec => TrailFiresAtNewHigh
<1> USE DEF Unread
<1> DEFINE High == pc = "trail" /\ work'[cur] > work[cur]
                     => st[cur].peak > seen[cur].fired
<1>1. MemoryInv /\ [Next]_vars => [High]_vars
  <2> SUFFICES ASSUME MemoryInv, [Next]_vars, pc = "trail", work'[cur] > work[cur]
               PROVE  st[cur].peak > seen[cur].fired
    OBVIOUS
  <2>1. cur \in Code /\ st[cur] # NoPos /\ TypeInv /\ ArmedAtNewHigh /\ Memory
    BY DEF MemoryInv, HighInv, TypeInv, TypeOK
  <2>2. Rules
    BY <2>1, OrderForCur
  <2>3. work' # work
    BY <2>1 DEF TypeInv, TypeOK
  <2>4. TrailFire
    BY <2>2, <2>3 DEF Rules, StopExit, StopRefused, StopHit, NoStop, TrailWatch,
         TrailWait, NoTrail, TakeProfit, NoTakeProfit, HoldExit, NoHoldExit,
         Goto, broker
  <2>5. st[cur].trail_armed
    BY <2>4 DEF TrailFire, TrailHit, BelowTrail
  <2>6. st[cur].peak > st[cur].last_fire_peak
    BY <2>1, <2>5 DEF ArmedAtNewHigh, HighSinceFire
  <2>7. seen[cur].fired = st[cur].last_fire_peak
    BY <2>1 DEF Memory, Current, Remembers
  <2> QED
    BY <2>6, <2>7
<1> QED
  BY <1>1, MemoryInvariant, PTL DEF Spec, TrailFiresAtNewHigh
(***************************************************************************)
(* Ownership lasts as long as the shares of an exit.                       *)
(***************************************************************************)

\* A code the running cycle manages, or the file knows, is owned while the
\* account shows shares of it or a purchase of it is on its way, or else it was
\* lost to another job.
Kept(c)  == held[c] > 0 \/ openBuy[c] > 0 => c \in owned \cup lost
OwnInv   == /\ TypeInv
            /\ \A c \in live : Kept(c)
            /\ \A c \in Code : file[c] # NoPos => Kept(c)

\* When nothing but the exit job gives up the ownership of a code, what is
\* kept stays kept.
LEMMA KeptSteady ==
  ASSUME OwnInv, UNCHANGED <<live, file>>,
         \A c \in Code : Kept(c) => Kept(c)'
  PROVE  /\ \A c \in live' : Kept(c)'
         /\ \A c \in Code : file'[c] # NoPos => Kept(c)'
  BY DEF OwnInv, TypeInv, TypeOK

\* A ledger stored without some entries counts them as lost.
LEMMA KeptKeep ==
  ASSUME TypeInv, NEW kept \in SUBSET owned, Keep(kept), held' = held,
         NEW c \in Code, Kept(c), openBuy'[c] > 0 => openBuy[c] > 0
  PROVE  Kept(c)'
  BY DEF Keep, Kept

LEMMA KeptCycle ==
  ASSUME OwnInv, Cycle
  PROVE  /\ \A c \in live' : Kept(c)'
         /\ \A c \in Code : file'[c] # NoPos => Kept(c)'
<1>1. live \subseteq Code
  BY DEF OwnInv, TypeInv, TypeOK
<1>2. CASE List \/ ListEmpty \/ ReadFiles \/ GiveUp
  <2>1. /\ live' = live \/ live' \subseteq owned
        /\ UNCHANGED <<held, openBuy, owned, lost, file>>
    BY <1>2 DEF List, ListEmpty, ReadFiles, GiveUp, Forget, Managed, Entries, broker,
                shared, ledger
  <2> QED
    BY <2>1 DEF Kept, OwnInv
<1>3. CASE Look \/ Rules
  <2>1. /\ UNCHANGED <<held, openBuy, live, file>>
        /\ UNCHANGED <<owned, lost>> \/ \E readable \in Readable : Keep(Entries(readable))
    <3>1. CASE Look
      BY <3>1 DEF Look, Observe, Skip, broker, shared, ledger
    <3>2. CASE Rules
      BY <3>2 DEF Rules, StopExit, StopRefused, NoStop, TrailWatch,
         TrailWait, TrailFire, NoTrail, TakeProfit, NoTakeProfit, HoldExit, NoHoldExit,
         Goto, ExitAll, Accepted, broker, shared, ledger, locals
    <3> QED
      BY <1>3, <3>1, <3>2
  <2>2. \A c \in Code : Kept(c) => Kept(c)'
    <3>1. CASE UNCHANGED <<owned, lost>>
      BY <2>1, <3>1 DEF Kept
    <3>2. ASSUME NEW readable \in Readable, Keep(Entries(readable))
          PROVE  \A c \in Code : Kept(c) => Kept(c)'
      BY <2>1, <3>2, KeptKeep DEF Entries, OwnInv
    <3> QED
      BY <2>1, <3>1, <3>2
  <2> QED
    BY <2>1, <2>2, KeptSteady
<1>4. CASE Finish
  <2>1. /\ live' = {} /\ UNCHANGED <<held, openBuy, lost>>
        /\ \A c \in live : c \in owned => c \in owned'
        /\ \A c \in Code : file'[c] # NoPos => c \in live
    BY <1>4 DEF Finish, Forget, broker
  <2> QED
    BY <2>1 DEF Kept, OwnInv
<1>5. CASE Crash
  <2>1. live' = {} /\ UNCHANGED <<held, openBuy, owned, lost, file>>
    BY <1>5 DEF Crash, Forget, broker, shared, ledger
  <2> QED
    BY <2>1 DEF Kept, OwnInv
<1> QED
  BY <1>2, <1>3, <1>4, <1>5 DEF Cycle

LEMMA KeptOthers ==
  ASSUME OwnInv, "user" \notin Env, Broker \/ Others
  PROVE  /\ \A c \in live' : Kept(c)'
         /\ \A c \in Code : file'[c] # NoPos => Kept(c)'
<1>1. held \in [Code -> Nat] /\ openBuy \in [Code -> Nat] /\ owned \subseteq Code /\ TypeInv
  BY DEF OwnInv, TypeInv, TypeOK
<1>2. CASE NextSlot
  <2>1. /\ UNCHANGED <<held, owned, lost, live, file>>
        /\ openBuy' = openBuy \/ openBuy' = NoListing
    BY <1>2 DEF NextSlot, Expire, locals
  <2> QED
    BY <1>1, <2>1, KeptSteady DEF Kept, NoListing
<1>3. CASE NextDay
  <2>1. /\ UNCHANGED <<held, owned, lost, live>> /\ openBuy' = NoListing
        /\ file' = [c \in Code |-> Aged(file[c])]
    BY <1>3 DEF NextDay, Expire, locals
  <2>2. \A c \in Code : Kept(c) => Kept(c)'
    BY <1>1, <2>1 DEF Kept, NoListing
  <2>3. \A c \in Code : file'[c] # NoPos => file[c] # NoPos
    BY <2>1 DEF Aged
  <2> QED
    BY <2>1, <2>2, <2>3 DEF OwnInv, TypeInv, TypeOK
<1>4. ASSUME NEW d \in Code, NEW n \in 1 .. 2 * Lot, SellFill(d, n) \/ BuyFill(d, n)
      PROVE  UNCHANGED <<live, file>> /\ \A c \in Code : Kept(c) => Kept(c)'
  <2>1. UNCHANGED <<live, file, owned, lost>>
    BY <1>4 DEF SellFill, BuyFill, shared, ledger, locals
  <2>2. n \in Nat /\ n > 0
    BY BoundAssumption
  <2>3. CASE SellFill(d, n)
    <3>1. held' = [held EXCEPT ![d] = @ - n] /\ openBuy' = openBuy /\ n \in 1 .. work[d]
      BY <2>3 DEF SellFill
    <3> QED
      BY <1>1, <2>1, <2>2, <3>1 DEF Kept, TypeInv, Covered
  <2>4. CASE BuyFill(d, n)
    <3>1. /\ held' = [held EXCEPT ![d] = @ + n] /\ openBuy' = [openBuy EXCEPT ![d] = @ - n]
          /\ openBuy[d] > 0
      BY <1>1, <2>4 DEF BuyFill
    <3> QED
      BY <1>1, <2>1, <2>2, <3>1 DEF Kept
  <2> QED
    BY <1>4, <2>1, <2>3, <2>4
\* an order marks its code, and a failed reading loses all the others
<1>5. ASSUME NEW d \in Code, BuyOrder(d)
      PROVE  UNCHANGED <<live, file>> /\ \A c \in Code : Kept(c) => Kept(c)'
  <2>1. /\ UNCHANGED <<live, file, held>>
        /\ openBuy' = [openBuy EXCEPT ![d] = Lot]
    BY <1>5 DEF BuyOrder, locals
  <2>2. PICK rest \in SUBSET owned :
           /\ owned' = rest \cup {d}
           /\ lost' = (lost \cup {c \in owned \ rest :
                                      held[c] > 0 \/ openBuy[c] > 0}) \ {d}
    BY <1>5 DEF BuyOrder, Entries
  <2> QED
    BY <1>1, <2>1, <2>2 DEF Kept
<1>6. ASSUME NEW d \in Code, BuyCancel(d)
      PROVE  UNCHANGED <<live, file>> /\ \A c \in Code : Kept(c) => Kept(c)'
  <2>1. /\ UNCHANGED <<live, file, held>>
        /\ openBuy' = [openBuy EXCEPT ![d] = 0] \/ openBuy' = openBuy
        /\ \E kept \in SUBSET owned : Keep(kept)
    BY <1>6 DEF BuyCancel, locals
  <2>2. \A c \in Code : openBuy'[c] > 0 => openBuy[c] > 0
    BY <1>1, <2>1
  <2> QED
    BY <1>1, <2>1, <2>2, KeptKeep
<1>7. CASE BuyList
  <2>1. UNCHANGED <<live, file, held, openBuy, owned, lost>>
    BY <1>7 DEF BuyList, broker, locals
  <2> QED
    BY <2>1, KeptSteady DEF Kept
<1>8. CASE Screened
  <2>1. /\ UNCHANGED <<live, file, held, openBuy>>
        /\ \E kept \in SUBSET owned : Keep(kept)
    BY <1>8 DEF Screened, Entries, locals
  <2>2. \A c \in Code : Kept(c) => Kept(c)'
    BY <1>1, <2>1, KeptKeep
  <2> QED
    BY <2>1, <2>2, KeptSteady
<1>9. CASE Broker
  BY <1>2, <1>3, <1>4, <1>9, KeptSteady DEF Broker
<1>10. CASE Others
  <2>1. BuyList \/ Screened \/ \E d \in Code : BuyOrder(d) \/ BuyCancel(d)
    BY <1>10 DEF Others, UserBuy, UserSell, UserCancel
  <2> QED
    BY <1>5, <1>6, <1>7, <1>8, <2>1, KeptSteady
<1> QED
  BY <1>9, <1>10

LEMMA OwnStep ==
  ASSUME "user" \notin Env
  PROVE  OwnInv /\ [Next]_vars => OwnInv'
<1> SUFFICES ASSUME OwnInv, [Next]_vars
             PROVE  /\ \A c \in live' : Kept(c)'
                    /\ \A c \in Code : file'[c] # NoPos => Kept(c)'
  BY TypeStep DEF OwnInv
<1>1. CASE \E high \in [Code -> Price \cup {0}] : Eod(high)
  <2>1. /\ UNCHANGED <<held, openBuy, owned, lost, live>>
        /\ \A c \in Code : file'[c] # NoPos => file[c] # NoPos
    BY <1>1 DEF Eod, EndOfDay, broker, ledger, locals
  <2> QED
    BY <2>1 DEF Kept, OwnInv
<1>2. CASE UNCHANGED vars
  BY <1>2, KeptSteady DEF vars, broker, shared, ledger, locals, Kept
<1> QED
  BY <1>1, <1>2, KeptCycle, KeptOthers DEF Next

\* Without purchases of the user's own, an exit that the state file calls pending
\* keeps its ownership until the last share is sold, whichever cycle dies and
\* whichever listing comes back empty, unless another job took the entry from the
\* ledger: run_v8_screen by its age, the buy job with an order it dropped, or
\* whoever stored a ledger it had not been able to read.
THEOREM OwnedUntilSold ==
  ASSUME "user" \notin Env
  PROVE  Spec => []OwnedWhileExiting
<1>1. Init => OwnInv
  BY TypeInit DEF Init, OwnInv, NoState
<1>2. OwnInv => OwnedWhileExiting
  BY DEF OwnInv, OwnedWhileExiting, Pending, Kept
<1> QED
  BY <1>1, <1>2, OwnStep, PTL DEF Spec

(***************************************************************************)
(* A trailing order is confirmed by two quotes of the day.                 *)
(***************************************************************************)

\* The stop line lies above the trailing line, as it does for a narrow true
\* range: no quote then reaches the trailing rule and is under its line.
Narrow(p) == 200 * p.atr < p.peak

\* What a watch of today says: the line is armed and the last look saw it
\* crossed.  A stop order that is refused leaves the watch on although the
\* quote was above the line, but only where the stop line is the higher one.
Confirmed(p, low) ==
  p # NoPos /\ p.watch = "today" => p.trail_armed /\ (Narrow(p) \/ low)

\* what the last look saw; the look before it while the rules go by this one
LastLow(c) ==
  IF pc \in {"stop", "trail"} /\ c = cur THEN seen[c].before ELSE seen[c].now

Watches    == \A c \in Code : Confirmed(Current[c], LastLow(c))
QuoteKnown == pc \in {"stop", "trail"} => seen[cur].now = BelowTrail(st[cur], px)
PastStop   == pc = "trail" => ~BelowStop(st[cur], px)
ConfirmInv == TypeInv /\ Watches /\ QuoteKnown /\ PastStop

\* What the updates of a position do to its watch.
LEMMA UpdateConfirmed ==
  ASSUME NEW p \in Position, NEW low \in BOOLEAN, NEW x \in Nat, NEW last \in BOOLEAN
  PROVE  /\ Confirmed(p, low) => /\ Confirmed(Quoted(p, x), low)
                                 /\ Confirmed(Leaving(p), low)
                                 /\ Confirmed(Taken(p, last), low)
         /\ Confirmed(Fired(p, last), low)
         /\ Confirmed(Watched(p, "none"), low)
         /\ p.trail_armed => Confirmed(Watched(p, "today"), TRUE)
<1>1. p # NoPos
  BY NoPosAssumption
<1>2. ASSUME Confirmed(p, low)
      PROVE  /\ Confirmed(Quoted(p, x), low)
             /\ Confirmed(Leaving(p), low)
             /\ Confirmed(Taken(p, last), low)
  <2>1. /\ Quoted(p, x).watch = p.watch /\ Quoted(p, x).trail_armed = p.trail_armed
        /\ Narrow(p) => Narrow(Quoted(p, x))
    BY DEF Quoted, Larger, Narrow, Position
  <2>2. /\ Leaving(p).watch = p.watch /\ Leaving(p).trail_armed = p.trail_armed
        /\ Narrow(p) => Narrow(Leaving(p))
    BY DEF Leaving, Narrow, Position
  <2>3. /\ Taken(p, last).watch = p.watch /\ Taken(p, last).trail_armed = p.trail_armed
        /\ Narrow(p) => Narrow(Taken(p, last))
    BY DEF Taken, Narrow, Position
  <2> QED
    BY <1>1, <1>2, <2>1, <2>2, <2>3 DEF Confirmed
<1>3. Fired(p, last).watch = "none" /\ Watched(p, "none").watch = "none"
  BY DEF Fired, Watched, Position
<1>4. Watched(p, "today").trail_armed = p.trail_armed
  BY DEF Watched, Position
<1> QED
  BY <1>2, <1>3, <1>4 DEF Confirmed

\* Registering a code keeps its watch; a new position has none.
LEMMA RegisteredConfirmed ==
  ASSUME NEW p \in Pos, NEW low \in BOOLEAN, Confirmed(p, low),
         NEW e \in Entry, NEW a \in Atr, NEW q \in Nat
  PROVE  Confirmed(Registered(p, e, a, q), low)
<1> DEFINE r == Registered(p, e, a, q)
<1>1. CASE p = NoPos
  <2>1. r.watch = "none"
    BY <1>1 DEF Registered, InitPos
  <2> QED
    BY <2>1 DEF Confirmed
<1>2. CASE p \in Position
  <2>1. r.watch = p.watch /\ r.trail_armed = p.trail_armed /\ (Narrow(p) => Narrow(r))
    BY <1>2, NoPosAssumption DEF Registered, Narrow, Position
  <2> QED
    BY <1>2, <2>1, NoPosAssumption DEF Confirmed
<1> QED
  BY <1>1, <1>2 DEF Pos

\* The end of day job keeps a watch, the clock puts an end to it.
LEMMA EndConfirmed ==
  ASSUME NEW p \in Pos, NEW low \in BOOLEAN, NEW hi \in Nat
  PROVE  /\ Confirmed(p, low) => Confirmed(EndOfDay(p, hi), low)
         /\ Confirmed(Aged(p), low)
<1>1. CASE p = NoPos
  BY <1>1 DEF Aged, EndOfDay, Confirmed
<1>2. CASE p \in Position
  <2>1. p # NoPos
    BY <1>2, NoPosAssumption
  <2> DEFINE age == Smaller(p.age + 1, MAX_HOLD_DAYS)
             watch == IF p.watch = "today" THEN "earlier" ELSE p.watch
             top == Larger(p.peak, hi)
             armed == IF p.last_fire_peak # 0 /\ top > p.last_fire_peak
                        THEN TRUE ELSE p.trail_armed
  <2>2. Aged(p) = [p EXCEPT !.age = age, !.watch = watch] /\ watch # "today"
    BY <2>1 DEF Aged
  <2>3. EndOfDay(p, hi) = IF hi = 0 THEN p
                          ELSE [p EXCEPT !.peak = top, !.trail_armed = armed]
    BY <2>1 DEF EndOfDay
  <2>4. top \in Nat /\ top >= p.peak /\ (p.trail_armed => armed)
    BY <1>2 DEF Larger, Position
  <2> HIDE DEF age, watch, top, armed
  <2>5. Aged(p).watch # "today"
    BY <1>2, <2>2 DEF Position
  <2>6. /\ EndOfDay(p, hi).watch = p.watch
        /\ p.trail_armed => EndOfDay(p, hi).trail_armed
        /\ Narrow(p) => Narrow(EndOfDay(p, hi))
    BY <1>2, <2>3, <2>4 DEF Narrow, Position
  <2> QED
    BY <2>1, <2>5, <2>6 DEF Confirmed
<1> QED
  BY <1>1, <1>2 DEF Pos

\* Above the trailing line and yet at the stop line: the true range is narrow.
LEMMA StopAboveTrail ==
  ASSUME NEW p \in Position, NEW x \in Nat, p.trail_armed
  PROVE  /\ BelowStop(p, x) /\ ~BelowTrail(p, x) => Narrow(p)
         /\ BelowTrail(p, x) /\ ~BelowStop(p, x) => ~Narrow(p)
  BY DEF BelowStop, BelowTrail, Narrow, ATR_MULT, Position

LEMMA WatchesLook ==
  ASSUME ConfirmInv, Look
  PROVE  Watches' /\ QuoteKnown' /\ PastStop'
<1> USE DEF Unread
<1>1. /\ st \in [Code -> Pos] /\ cur \in Code /\ seen \in [Code -> Seen]
  BY DEF ConfirmInv, TypeInv, TypeOK, Pos, Seen
<1> PICK c \in Code, e \in Entry, a \in Atr :
         \/ \E x \in Price : Observe(c, e, a, x)
         \/ \E x \in Price \cup {0} : Skip(c, e, a, x)
  BY DEF Look
<1> DEFINE p == Registered(st[c], e, a, snap[c])
<1>2. pc = "scan" /\ snap[c] \in Nat
  BY DEF Observe, Skip, ConfirmInv, TypeInv, TypeOK
<1>3. \A d \in Code : Confirmed(st[d], seen[d].now) /\ seen[d].now \in BOOLEAN
  BY <1>1, <1>2 DEF ConfirmInv, Watches, Current, LastLow, Seen
<1>4. p \in Position /\ Confirmed(p, seen[c].now)
  BY <1>1, <1>2, <1>3, RegisteredType, RegisteredConfirmed
<1>5. ASSUME NEW x \in Price, Observe(c, e, a, x)
      PROVE  Watches' /\ QuoteKnown' /\ PastStop'
  <2> DEFINE b == BelowTrail(Quoted(p, x), x)
  <2>1. /\ st' = [st EXCEPT ![c] = Quoted(p, x)] /\ pc' = "stop"
        /\ seen' = [seen EXCEPT ![c] = Noted(seen[c], b)]
        /\ cur' = c /\ px' = x
    BY <1>5 DEF Observe
  <2>2. x \in Nat
    BY PriceAssumption
  <2> HIDE DEF p
  <2>3. Confirmed(Quoted(p, x), seen[c].now)
    BY <1>3, <1>4, <2>2, UpdateConfirmed
  <2>4. QuoteKnown' /\ PastStop'
    BY <1>1, <2>1 DEF QuoteKnown, PastStop, Noted, Seen
  <2> HIDE DEF b
  <2>5. \A d \in Code : st'[d] = IF d = c THEN Quoted(p, x) ELSE st[d]
    BY <1>1, <2>1
  <2>6. \A d \in Code : LastLow(d)' = seen[d].now
    BY <1>1, <2>1 DEF LastLow, Noted, Seen
  <2>7. Watches'
    BY <1>3, <2>1, <2>3, <2>5, <2>6 DEF Watches, Current
  <2> QED
    BY <2>4, <2>7
<1>6. ASSUME NEW x \in Price \cup {0}, Skip(c, e, a, x)
      PROVE  Watches' /\ QuoteKnown' /\ PastStop'
  <2>1. st' = [st EXCEPT ![c] = p] /\ pc' = "scan" /\ seen' = seen
    BY <1>2, <1>6 DEF Skip
  <2> HIDE DEF p
  <2> QED
    BY <1>1, <1>3, <1>4, <2>1 DEF Watches, Current, LastLow, QuoteKnown, PastStop
<1> QED
  BY <1>5, <1>6

LEMMA WatchesRules ==
  ASSUME ConfirmInv, Rules
  PROVE  Watches' /\ QuoteKnown' /\ PastStop'
<1> USE DEF Unread
<1> DEFINE p == st[cur]
<1>1. /\ st \in [Code -> Pos] /\ cur \in Code /\ seen \in [Code -> Seen] /\ px \in Nat
  BY DEF ConfirmInv, TypeInv, TypeOK, Pos, Seen
<1>2. p \in Position /\ pc \notin Unread
  BY DEF ConfirmInv, TypeInv, TypeOK, Rules, StopExit, StopRefused, StopHit, NoStop,
         TrailWatch, TrailWait, TrailFire, TrailHit, NoTrail, TakeProfit,
         NoTakeProfit, HoldExit, NoHoldExit
<1>3. /\ seen[cur].now \in BOOLEAN /\ seen[cur].before \in BOOLEAN
      /\ Confirmed(p, LastLow(cur)) /\ LastLow(cur) \in BOOLEAN
  BY <1>1, <1>2 DEF ConfirmInv, Watches, Current, LastLow, Seen
\* one position changes and what was seen of the others stays
<1>4. ASSUME NEW q, NEW s, pc' \notin Unread, cur' = cur,
             st' = [st EXCEPT ![cur] = q], seen' = [seen EXCEPT ![cur] = s],
             Confirmed(q, LastLow(cur)')
      PROVE  Watches'
  <2>1. \A d \in Code \ {cur} : Confirmed(st[d], seen[d].now)
    BY <1>2 DEF ConfirmInv, Watches, Current, LastLow
  <2> QED
    BY <1>1, <1>4, <2>1 DEF Watches, Current, LastLow
<1>5. CASE StopExit \/ StopRefused
  <2>1. pc = "stop" /\ pc' = "scan" /\ cur' = cur /\ seen' = seen /\ BelowStop(p, px)
    BY <1>5 DEF StopExit, StopRefused, StopHit, ExitAll, Goto, Unread, locals
  <2>2. st' = [st EXCEPT ![cur] = Leaving(p)] \/ st' = [st EXCEPT ![cur] = p]
    BY <1>1, <1>5 DEF StopExit, StopRefused, ExitAll, Goto, Unread, locals
  <2>3. LastLow(cur)' = seen[cur].now /\ seen' = [seen EXCEPT ![cur] = seen[cur]]
    BY <1>1, <2>1 DEF LastLow
  <2>4. seen[cur].now = BelowTrail(p, px)
    BY <2>1 DEF ConfirmInv, QuoteKnown
  <2> HIDE DEF p
  <2>5. Confirmed(p, seen[cur].now)
    <3> SUFFICES ASSUME p # NoPos, p.watch = "today"
                 PROVE  p.trail_armed /\ (Narrow(p) \/ seen[cur].now)
      BY DEF Confirmed
    <3>1. p.trail_armed
      BY <1>3 DEF Confirmed
    <3> QED
      BY <1>1, <1>2, <2>1, <2>4, <3>1, StopAboveTrail
  <2>6. Confirmed(Leaving(p), seen[cur].now)
    BY <1>2, <1>3, <2>5, UpdateConfirmed
  <2> QED
    BY <1>4, <2>1, <2>2, <2>3, <2>5, <2>6 DEF QuoteKnown, PastStop
<1>6. CASE NoStop
  <2>1. /\ pc = "stop" /\ pc' = "trail" /\ ~BelowStop(p, px)
        /\ UNCHANGED <<st, cur, seen, px>>
    BY <1>6 DEF NoStop, Goto, Unread, locals
  <2>2. LastLow(cur)' = LastLow(cur)
    BY <2>1 DEF LastLow
  <2>3. st' = [st EXCEPT ![cur] = p] /\ seen' = [seen EXCEPT ![cur] = seen[cur]]
    BY <1>1, <2>1
  <2>4. Watches'
    BY <1>3, <1>4, <2>1, <2>2, <2>3
  <2> QED
    BY <2>1, <2>4 DEF QuoteKnown, PastStop, ConfirmInv
<1>7. CASE TrailWatch \/ TrailWait
  <2>1. /\ pc = "trail" /\ pc' = "tp" /\ cur' = cur /\ seen' = seen /\ BelowTrail(p, px)
        /\ st' = [st EXCEPT ![cur] = Watched(p, "today")] \/ st' = [st EXCEPT ![cur] = p]
    BY <1>1, <1>7 DEF TrailWatch, TrailWait, TrailHit, Goto, Unread, locals
  <2>2. LastLow(cur)' = seen[cur].now /\ seen' = [seen EXCEPT ![cur] = seen[cur]]
    BY <1>1, <2>1 DEF LastLow
  <2>3. p.trail_armed /\ seen[cur].now = BelowTrail(p, px)
    BY <2>1 DEF BelowTrail, ConfirmInv, QuoteKnown
  <2> HIDE DEF p
  <2>4. seen[cur].now = TRUE
    BY <1>3, <2>1, <2>3
  <2>5. Confirmed(p, TRUE)
    BY <2>3 DEF Confirmed
  <2>6. Confirmed(Watched(p, "today"), TRUE)
    BY <1>2, <2>3, UpdateConfirmed
  <2> QED
    BY <1>4, <2>1, <2>2, <2>4, <2>5, <2>6 DEF QuoteKnown, PastStop
<1>8. CASE TrailFire \/ NoTrail
  <2>1. \E last \in BOOLEAN, s \in Seen :
           /\ pc' \in {"scan", "tp"} /\ cur' = cur
           /\ st' = [st EXCEPT ![cur] = Fired(p, last)]
              \/ st' = [st EXCEPT ![cur] = Watched(p, "none")]
           /\ seen' = [seen EXCEPT ![cur] = s]
    <3>1. CASE TrailFire
      <4>1. /\ pc' \in {"scan", "tp"} /\ cur' = cur
            /\ \E last \in BOOLEAN : st' = [st EXCEPT ![cur] = Fired(p, last)]
            /\ seen' = [seen EXCEPT ![cur] = NotedFire(seen[cur], p.peak)]
        BY <3>1 DEF TrailFire
      <4>2. NotedFire(seen[cur], p.peak) \in Seen
        BY <1>1, <1>2 DEF NotedFire, Seen, Position
      <4> QED
        BY <4>1, <4>2
    <3>2. CASE NoTrail
      <4>1. /\ pc' = "tp" /\ cur' = cur /\ st' = [st EXCEPT ![cur] = Watched(p, "none")]
            /\ seen' = [seen EXCEPT ![cur] = seen[cur]] /\ seen[cur] \in Seen
        BY <1>1, <3>2 DEF NoTrail
      <4> QED
        BY <4>1
    <3> QED
      BY <1>8, <3>1, <3>2
  <2> PICK last \in BOOLEAN, s \in Seen :
           /\ pc' \in {"scan", "tp"} /\ cur' = cur
           /\ st' = [st EXCEPT ![cur] = Fired(p, last)]
              \/ st' = [st EXCEPT ![cur] = Watched(p, "none")]
           /\ seen' = [seen EXCEPT ![cur] = s]
    BY <2>1
  <2>2. LastLow(cur)' = s.now /\ s.now \in BOOLEAN
    BY <1>1 DEF LastLow, Seen
  <2> HIDE DEF p
  <2>3. /\ Confirmed(Fired(p, last), LastLow(cur)')
        /\ Confirmed(Watched(p, "none"), LastLow(cur)')
    BY <1>1, <1>2, <2>2, UpdateConfirmed
  <2> QED
    BY <1>4, <2>3 DEF QuoteKnown, PastStop
<1>9. CASE TakeProfit \/ NoTakeProfit \/ HoldExit \/ NoHoldExit
  <2>1. /\ pc \in {"tp", "hold"} /\ pc' \in {"scan", "hold"} /\ cur' = cur
        /\ \/ \E last \in BOOLEAN : st' = [st EXCEPT ![cur] = Taken(p, last)]
           \/ st' = [st EXCEPT ![cur] = Leaving(p)]
           \/ st' = [st EXCEPT ![cur] = p]
        /\ \/ seen' = [seen EXCEPT ![cur] = NotedTake(seen[cur])]
           \/ seen' = [seen EXCEPT ![cur] = seen[cur]]
    BY <1>1, <1>9 DEF TakeProfit, NoTakeProfit, HoldExit, NoHoldExit, ExitAll, Goto, Unread, locals
  <2>2. LastLow(cur)' = LastLow(cur)
    BY <1>1, <2>1 DEF LastLow, NotedTake, Seen
  <2> HIDE DEF p
  <2>3. /\ \A last \in BOOLEAN : Confirmed(Taken(p, last), LastLow(cur))
        /\ Confirmed(Leaving(p), LastLow(cur))
    BY <1>1, <1>2, <1>3, UpdateConfirmed
  <2> QED
    BY <1>3, <1>4, <2>1, <2>2, <2>3 DEF QuoteKnown, PastStop
<1> QED
  BY <1>5, <1>6, <1>7, <1>8, <1>9 DEF Rules

LEMMA WatchesStep ==
  ASSUME Faults = 0
  PROVE  ConfirmInv /\ [Next]_vars => ConfirmInv'
<1> USE DEF Unread
<1> SUFFICES ASSUME ConfirmInv, [Next]_vars
             PROVE  Watches' /\ QuoteKnown' /\ PastStop'
  BY TypeStep DEF ConfirmInv
<1>1. file \in [Code -> Pos] /\ seen \in [Code -> Seen]
  BY DEF ConfirmInv, TypeInv, TypeOK, Pos, Seen
<1>2. CASE UNCHANGED <<st, file, seen, pc, cur, px>>
  BY <1>2 DEF ConfirmInv, Watches, Current, LastLow, QuoteKnown, PastStop
<1>3. CASE List \/ ListEmpty \/ ReadFiles \/ GiveUp
  <2>1. /\ pc \in Unread /\ file' = file /\ seen' = seen
        /\ pc' \in Unread \/ (pc' = "scan" /\ st' = file)
    BY <1>3 DEF List, ListEmpty, ReadFiles, GiveUp, Forget, Unread, shared
  <2> QED
    BY <2>1 DEF Unread, ConfirmInv, Watches, Current, LastLow, QuoteKnown, PastStop
<1>4. CASE Finish
  <2>1. /\ pc = "scan" /\ pc' = "idle"
        /\ file' = [c \in Code |-> IF c \in live THEN st[c] ELSE NoPos]
        /\ seen' = [c \in Code |-> IF c \in live THEN seen[c] ELSE Unseen]
    BY <1>4 DEF Finish, Forget
  <2>2. \A c \in Code : Confirmed(st[c], seen[c].now)
    BY <2>1 DEF ConfirmInv, Watches, Current, LastLow
  <2>3. \A low : Confirmed(NoPos, low)
    BY DEF Confirmed
  <2> QED
    BY <2>1, <2>2, <2>3 DEF Watches, Current, LastLow, QuoteKnown, PastStop
\* no cycle dies before it saves
<1>5. CASE Crash
  BY <1>5 DEF Crash, ConfirmInv, TypeInv, TypeOK
<1>6. ASSUME NEW high \in [Code -> Price \cup {0}], Eod(high)
      PROVE  Watches' /\ QuoteKnown' /\ PastStop'
  <2>1. /\ pc = "idle" /\ pc' = "idle" /\ seen' = seen
        /\ file' = [c \in Code |-> EndOfDay(file[c], high[c])]
    BY <1>6 DEF Eod
  <2>2. ASSUME NEW c \in Code
        PROVE  Confirmed(EndOfDay(file[c], high[c]), seen[c].now)
    <3>1. high[c] \in Price \/ high[c] = 0
      OBVIOUS
    <3>2. \A x \in Price : x \in Nat
      BY PriceAssumption
    <3>3. high[c] \in Nat
      BY <3>1, <3>2
    <3>4. Confirmed(file[c], seen[c].now) /\ seen[c].now \in BOOLEAN
      BY <1>1, <2>1 DEF ConfirmInv, Watches, Current, LastLow, Seen
    <3> QED
      BY <1>1, <3>3, <3>4, EndConfirmed
  <2> QED
    BY <2>1, <2>2 DEF Watches, Current, LastLow, QuoteKnown, PastStop
<1>7. CASE NextDay
  <2>1. /\ pc = "idle" /\ pc' = "idle"
        /\ file' = [c \in Code |-> Aged(file[c])]
        /\ \A c \in Code : seen'[c].now = FALSE
    BY <1>1, <1>7 DEF NextDay, Seen
  <2>2. \A c \in Code : Confirmed(Aged(file[c]), FALSE)
    BY <1>1, EndConfirmed, 0 \in Nat
  <2> QED
    BY <2>1, <2>2 DEF Watches, Current, LastLow, QuoteKnown, PastStop
<1>8. CASE Others \/ (Broker /\ ~NextDay)
  <2>1. UNCHANGED <<st, file, seen, pc, cur, px>>
    BY <1>8 DEF Others, Broker, NextSlot, SellFill, BuyFill, BuyOrder, BuyCancel,
                BuyList, Screened, UserBuy, UserSell, UserCancel, shared, locals
  <2> QED
    BY <1>2, <2>1
<1>9. CASE UNCHANGED vars
  BY <1>2, <1>9 DEF vars, shared, locals
<1> QED
  BY <1>3, <1>4, <1>5, <1>6, <1>7, <1>8, <1>9, WatchesLook, WatchesRules DEF Next, Cycle

\* When every cycle lives to save its copy, a trailing order follows two quotes
\* of the day, one after the other, under the line: neither a single bad tick,
\* nor a watch left from yesterday, nor one that a refused stop order left on,
\* sells anything.
THEOREM EachTrailConfirmed ==
  ASSUME Faults = 0
  PROVE  Spec => TrailConfirmed
<1> USE DEF Unread
<1> DEFINE Sound == pc = "trail" /\ work'[cur] > work[cur]
                      => seen[cur].before /\ seen[cur].now
<1>1. Init => ConfirmInv
  <2>1. Init => Watches /\ QuoteKnown /\ PastStop
    BY DEF Init, Watches, Current, Confirmed, NoState, QuoteKnown, PastStop
  <2> QED
    BY <2>1, TypeInit DEF ConfirmInv
<1>2. ConfirmInv /\ [Next]_vars => [Sound]_vars
  <2> SUFFICES ASSUME ConfirmInv, [Next]_vars, pc = "trail", work'[cur] > work[cur]
               PROVE  seen[cur].before /\ seen[cur].now
    OBVIOUS
  <2>1. /\ cur \in Code /\ st[cur] \in Position /\ TypeInv /\ px \in Nat
        /\ seen[cur].now \in BOOLEAN /\ seen[cur].before \in BOOLEAN
    BY DEF ConfirmInv, TypeInv, TypeOK
  <2>2. Rules /\ work' # work
    BY <2>1, OrderForCur DEF TypeInv, TypeOK
  <2>3. TrailFire
    BY <2>2 DEF Rules, StopExit, StopRefused, StopHit, NoStop, TrailWatch,
         TrailWait, NoTrail, TakeProfit, NoTakeProfit, HoldExit, NoHoldExit,
         Goto, broker
  <2>4. BelowTrail(st[cur], px) /\ st[cur].watch = "today"
    BY <2>3 DEF TrailFire, TrailHit, Watching
  <2>5. seen[cur].now = BelowTrail(st[cur], px) /\ ~BelowStop(st[cur], px)
    BY DEF ConfirmInv, QuoteKnown, PastStop
  <2>6. ~Narrow(st[cur])
    BY <2>1, <2>4, <2>5, StopAboveTrail DEF BelowTrail
  <2>7. Confirmed(st[cur], seen[cur].before)
    BY <2>1 DEF ConfirmInv, Watches, Current, LastLow
  <2>8. seen[cur].before
    BY <2>1, <2>4, <2>6, <2>7, NoPosAssumption DEF Confirmed
  <2> QED
    BY <2>4, <2>5, <2>8
<1> QED
  BY <1>1, <1>2, WatchesStep, PTL DEF Spec, TrailConfirmed
=============================================================================
