-------------------------- MODULE LegacyExitProofs --------------------------
(***************************************************************************)
(* Proofs about the legacy exit job, for any codes and bounds.             *)
(***************************************************************************)
EXTENDS LegacyExit, TLAPS

Pos    == Position \cup {NoPos}
Sights == {"low", "fine", "odd"}

(***************************************************************************)
(* What the operators on positions return.                                 *)
(***************************************************************************)

\* A look leaves a position of exactly the shares it saw, not an exited one.
LEMMA SyncedType ==
  ASSUME NEW p \in Pos, NEW c \in Code, NEW q \in 0..MaxHeld
  PROVE  /\ Synced(p, c, q) \in Position
         /\ Synced(p, c, q).rem = q /\ ~Synced(p, c, q).exited
  BY LegacyAssumption, NoPosAssumption DEF Synced, Fresh, Pos, Position, Watch

\* What the evaluation writes into a position keeps its type.
LEMMA UpdateType ==
  ASSUME NEW p \in Position, NEW w \in Watch
  PROVE  /\ [p EXCEPT !.watch = w] \in Position
         /\ [p EXCEPT !.rem = 0, !.exited = TRUE, !.soldSince = TRUE] \in Position
<1>1. 0 \in 0..MaxHeld
  BY LegacyAssumption
<1>2. [p EXCEPT !.watch = w] \in Position
  BY DEF Position
<1>3. [p EXCEPT !.rem = 0, !.exited = TRUE, !.soldSince = TRUE] \in Position
  BY <1>1 DEF Position
<1> QED
  BY <1>2, <1>3

\* The clock keeps the type of a position.
LEMMA AgedType ==
  ASSUME NEW p \in Pos
  PROVE  Aged(p) \in Pos
<1>1. CASE p = NoPos
  BY <1>1 DEF Aged, Pos
<1>2. CASE p \in Position
  <2> DEFINE age == Smaller(p.age + 1, MAX_HOLD_DAYS)
             watch == IF p.watch = "no" THEN "no" ELSE "old"
  <2>1. age \in 0..MAX_HOLD_DAYS
    BY <1>2, LegacyAssumption DEF Smaller, Position
  <2>2. watch \in Watch
    BY DEF Watch
  <2>3. Aged(p) = [p EXCEPT !.age = age, !.watch = watch]
    BY <1>2, NoPosAssumption DEF Aged
  <2> HIDE DEF age, watch
  <2> QED
    BY <1>2, <2>1, <2>2, <2>3 DEF Position, Pos
<1> QED
  BY <1>1, <1>2 DEF Pos

\* Taking back a purchase that was never filled keeps the type of a position.
LEMMA ReversedType ==
  ASSUME NEW p \in Pos
  PROVE  Reversed(p) \in Pos
<1>1. CASE p = NoPos \/ p.exited
  BY <1>1 DEF Reversed
<1>2. CASE p \in Position /\ ~p.exited
  <2>1. p.rem \in 0..MaxHeld
    BY <1>2 DEF Position
  <2>2. p.rem > Lot => p.rem - Lot \in 0..MaxHeld
    BY <2>1, LegacyAssumption
  <2>3. p.rem <= Lot \/ p.rem > Lot
    BY <2>1, LegacyAssumption
  <2>4. p.rem > Lot => [p EXCEPT !.rem = @ - Lot] \in Position
    BY <1>2, <2>2 DEF Position
  <2> QED
    BY <1>2, <2>3, <2>4, NoPosAssumption DEF Reversed, Pos
<1> QED
  BY <1>1, <1>2 DEF Pos

\* A recorded sale keeps the type of the states it is written to.
LEMMA NotedType ==
  ASSUME NEW s \in [Code -> Pos], NEW c \in Code
  PROVE  /\ Noted(s, c) \in [Code -> Pos]
         /\ \A d \in Code \ {c} : Noted(s, c)[d] = s[d]
         /\ s[c] = NoPos => Noted(s, c)[c] = NoPos
         /\ s[c] # NoPos => Noted(s, c)[c] = [s[c] EXCEPT !.soldSince = TRUE]
<1>1. CASE s[c] = NoPos
  BY <1>1 DEF Noted
<1>2. CASE s[c] # NoPos
  <2> DEFINE q == [s[c] EXCEPT !.soldSince = TRUE]
  <2>1. Noted(s, c) = [s EXCEPT ![c] = q]
    BY <1>2 DEF Noted
  <2>2. q \in Position
    BY <1>2 DEF Pos, Position
  <2> HIDE DEF q
  <2>3. Noted(s, c) \in [Code -> Pos] /\ Noted(s, c)[c] = q
    BY <2>1, <2>2 DEF Pos
  <2> QED
    BY <1>2, <2>1, <2>3 DEF q
<1> QED
  BY <1>1, <1>2

(***************************************************************************)
(* Type correctness.  The bound on the shares needs that what is on order  *)
(* fits too, and that no more is on sale, or v8's, than there is.          *)
(***************************************************************************)
Fits    == \A c \in Code : /\ selling[c] <= held[c] /\ v8share[c] <= held[c]
                          /\ held[c] + buying[c] <= MaxHeld
TypeInv == TypeOK /\ Fits

LEMMA TypeInit == Init => TypeInv
  BY LegacyAssumption
     DEF Init, TypeInv, TypeOK, Fits, None, NoState, AnyCode, Unborn

\* A file of owners reads as what it holds, or as empty.
LEMMA ReadType ==
  ASSUME NEW codes \in SUBSET Code
  PROVE  \A read \in Read(codes) : read = codes \/ read = {}
  BY DEF Read

\* What a look changes.
LEMMA LookType ==
  ASSUME TypeInv, NEW c \in Code, NEW p \in Position, NEW sight, Look(c, p, sight)
  PROVE  /\ mem' \in [Code -> Pos] /\ todo' \subseteq Code
         /\ low' \in [Code -> {"no", "new", "ripe"}]
         /\ born' \in [Code -> 0..Unborn] /\ looked' \in [Code -> 0..MaxHeld]
         /\ UNCHANGED <<KIWOOM_ENV, buying, ledgers, pc, hsnap, vsnap, msnap, copy,
                        faults, request, v8share, lost, held>>
<1>1. mem' \in [Code -> Pos] /\ todo' \subseteq Code
  BY DEF Look, TypeInv, TypeOK, Pos
<1>2. low' \in [Code -> {"no", "new", "ripe"}]
  <2> DEFINE l == CASE sight = "fine" -> "no"
                    [] sight = "low" /\ low[c] = "no" -> "new"
                    [] OTHER -> low[c]
  <2>1. l \in {"no", "new", "ripe"}
    BY DEF TypeInv, TypeOK
  <2>2. low' = [low EXCEPT ![c] = l]
    BY DEF Look
  <2> HIDE DEF l
  <2> QED
    BY <2>1, <2>2 DEF TypeInv, TypeOK
<1>3. born' \in [Code -> 0..Unborn] /\ looked' \in [Code -> 0..MaxHeld]
  <2> DEFINE new == held[c] > 0 /\ selling[c] = 0 /\ hsnap[c] > looked[c]
             b == IF p.exited \/ (new /\ p.soldSince) THEN Unborn
                  ELSE IF new THEN 0 ELSE born[c]
             l == IF new THEN hsnap[c] ELSE looked[c]
  <2>1. b \in 0..Unborn /\ l \in 0..MaxHeld
    BY LegacyAssumption DEF TypeInv, TypeOK, Unborn
  <2>2. born' = [born EXCEPT ![c] = b] /\ looked' = [looked EXCEPT ![c] = l]
    BY DEF Look
  <2> HIDE DEF b, l
  <2> QED
    BY <2>1, <2>2 DEF TypeInv, TypeOK
<1> QED
  BY <1>1, <1>2, <1>3 DEF Look

\* The looks of the evaluation.
LEMMA TypeLooks ==
  ASSUME TypeInv, NEW c \in Code,
         \/ LookOdd(c) \/ LookLow(c) \/ LookFine(c)
         \/ \E s \in Sight : Sell(c, s) \/ SellRefused(c, s)
  PROVE  TypeInv'
<1> DEFINE p == Synced(mem[c], c, hsnap[c])
<1>1. /\ p \in Position /\ p.rem \in 0..MaxHeld
      /\ \A w \in Watch : [p EXCEPT !.watch = w] \in Position
      /\ [p EXCEPT !.rem = 0, !.exited = TRUE, !.soldSince = TRUE] \in Position
  <2>1. mem[c] \in Pos /\ hsnap[c] \in 0..MaxHeld
    BY DEF TypeInv, TypeOK, Pos
  <2>2. p \in Position /\ p.rem = hsnap[c]
    BY <2>1, SyncedType
  <2>3. "no" \in Watch
    BY DEF Watch
  <2> HIDE DEF p
  <2> QED
    BY <2>1, <2>2, <2>3, UpdateType
\* a look that sells nothing
<1>2. ASSUME NEW q \in Position, NEW s, Look(c, q, s), Quiet
      PROVE  TypeInv'
  <2>1. /\ mem' \in [Code -> Pos] /\ todo' \subseteq Code
        /\ low' \in [Code -> {"no", "new", "ripe"}]
        /\ born' \in [Code -> 0..Unborn] /\ looked' \in [Code -> 0..MaxHeld]
        /\ UNCHANGED <<KIWOOM_ENV, buying, ledgers, pc, hsnap, vsnap, msnap, copy,
                       faults, request, v8share, lost, held>>
    BY <1>2, LookType
  <2> QED
    BY <1>2, <2>1 DEF Quiet, TypeInv, TypeOK, Fits, Pos, ledgers, trades, request
<1>3. CASE LookOdd(c)
  <2>1. Look(c, p, "odd") /\ Quiet
    BY <1>3 DEF LookOdd
  <2> QED
    BY <1>1, <1>2, <2>1
<1>4. CASE LookLow(c) \/ LookFine(c)
  <2>1. \E w \in Watch, s \in Sights : Look(c, [p EXCEPT !.watch = w], s) /\ Quiet
    BY <1>4 DEF LookLow, LookFine, Watch, Sights
  <2> HIDE DEF p
  <2> QED
    BY <1>1, <1>2, <2>1
<1>5. ASSUME NEW s \in Sight, Sell(c, s)
      PROVE  TypeInv'
  <2> DEFINE q == [p EXCEPT !.rem = 0, !.exited = TRUE, !.soldSince = TRUE]
  <2>1. /\ Look(c, q, s) /\ selling[c] + p.rem <= held[c]
        /\ selling' = [selling EXCEPT ![c] = @ + p.rem]
        /\ soldToday' = soldToday \cup {c} /\ file' = Noted(file, c) /\ record' = record
    BY <1>5 DEF Sell
  <2>2. /\ mem' \in [Code -> Pos] /\ todo' \subseteq Code
        /\ low' \in [Code -> {"no", "new", "ripe"}]
        /\ born' \in [Code -> 0..Unborn] /\ looked' \in [Code -> 0..MaxHeld]
        /\ UNCHANGED <<KIWOOM_ENV, buying, ledgers, pc, hsnap, vsnap, msnap, copy,
                       faults, request, v8share, lost, held>>
    <3>1. q \in Position
      BY <1>1
    <3> HIDE DEF q
    <3> QED
      BY <2>1, <3>1, LookType
  <2>3. file' \in [Code -> Pos]
    BY <2>1, NotedType DEF TypeInv, TypeOK, Pos
  <2> HIDE DEF p, q
  <2>4. selling' \in [Code -> 0..MaxHeld] /\ \A d \in Code : selling'[d] <= held[d]
    <3> DEFINE n == selling[c] + p.rem
    <3>1. /\ selling \in [Code -> 0..MaxHeld] /\ held \in [Code -> 0..MaxHeld]
          /\ \A d \in Code : selling[d] <= held[d]
      BY DEF TypeInv, TypeOK, Fits
    <3>2. n \in 0..MaxHeld /\ n <= held[c]
      BY <1>1, <2>1, <3>1, LegacyAssumption
    <3>3. selling' = [selling EXCEPT ![c] = n]
      BY <2>1
    <3> HIDE DEF n
    <3> QED
      BY <3>1, <3>2, <3>3
  <2> QED
    BY <2>1, <2>2, <2>3, <2>4 DEF TypeInv, TypeOK, Fits, Pos, ledgers, request
<1>6. ASSUME NEW s \in Sight, SellRefused(c, s)
      PROVE  TypeInv'
  <2>1. /\ Quiet
        /\ Look(c, p, s) \/ Look(c, [p EXCEPT !.watch = "no"], s)
    BY <1>6 DEF SellRefused, Sights, Sight
  <2>2. [p EXCEPT !.watch = "no"] \in Position
    BY <1>1 DEF Watch
  <2> HIDE DEF p
  <2> QED
    BY <1>1, <1>2, <2>1, <2>2
<1> QED
  BY <1>3, <1>4, <1>5, <1>6

\* The rest of the cycle.
LEMMA TypeCycle ==
  ASSUME TypeInv,
         \/ List \/ ListPart \/ ReadFiles \/ Looked \/ ReleaseLoad \/ ReleaseSave
         \/ Tidy \/ Save \/ Die
  PROVE  TypeInv'
<1> USE DEF TypeInv, TypeOK, Fits, account, ledgers, trades, request, memory
<1>1. CASE List \/ ListPart
  <2>1. PICK gap : ListWithout(gap)
    BY <1>1 DEF List, ListPart
  <2>2. hsnap' \in [Code -> 0..MaxHeld]
    BY <2>1, LegacyAssumption DEF ListWithout
  <2> QED
    BY <2>1, <2>2 DEF ListWithout
<1>2. CASE ReadFiles
  <2>1. PICK mine \in Read(owned), theirs \in Read(manual) :
          /\ mem' = file /\ vsnap' = mine /\ msnap' = theirs
          /\ todo' = Of(hsnap) \ (mine \cup theirs)
          /\ lost' = lost \cup ((owned \cap Of(hsnap)) \ mine)
    BY <1>2 DEF ReadFiles
  <2>2. mine \subseteq Code /\ theirs \subseteq Code
    BY ReadType
  <2> QED
    BY <1>2, <2>1, <2>2 DEF ReadFiles, Of
<1>3. CASE Looked \/ ReleaseLoad \/ ReleaseSave
  BY <1>3, ReadType DEF Looked, ReleaseLoad, ReleaseSave
<1>4. CASE Tidy
  <2>1. mem' \in [Code -> Position \cup {NoPos}]
    BY <1>4 DEF Tidy
  <2>2. record' \in [Code -> {"no", "open", "filled"}]
    BY <1>4 DEF Tidy
  <2> QED
    BY <1>4, <2>1, <2>2 DEF Tidy
<1>5. CASE Save \/ Die
  <2>1. /\ pc' = "idle" /\ mem' \in [Code -> Position \cup {NoPos}]
        /\ hsnap' \in [Code -> 0..MaxHeld]
        /\ vsnap' = {} /\ msnap' = {} /\ todo' = {} /\ copy' = {}
    BY <1>5, LegacyAssumption DEF Save, Die, Forget, NoState, None
  <2>2. file' \in [Code -> Position \cup {NoPos}] /\ faults' \in 0..Faults
    BY <1>5, LegacyAssumption DEF Save, Die, NoState
  <2>3. UNCHANGED <<account, ledgers, trades, request, memory>>
    BY <1>5 DEF Save, Die
  <2> QED
    BY <2>1, <2>2, <2>3
<1> QED
  BY <1>1, <1>2, <1>3, <1>4, <1>5

\* Shares leave the account: what is on sale and what is v8's still fits.
LEMMA LeftType ==
  ASSUME TypeInv, NEW c \in Code, NEW n \in 0..MaxHeld, NEW s \in 0..n, Left(c, n, s),
         n + buying[c] <= MaxHeld, buying' = buying
  PROVE  /\ held' \in [Code -> 0..MaxHeld] /\ selling' \in [Code -> 0..MaxHeld]
         /\ born' \in [Code -> 0..Unborn] /\ looked' \in [Code -> 0..MaxHeld]
         /\ v8share' \in [Code -> 0..MaxHeld] /\ low' = low /\ lost' = lost /\ Fits'
<1> USE DEF TypeInv, TypeOK, Fits
<1>1. s \in 0..MaxHeld /\ n - s \in 0..MaxHeld /\ n - s <= n
  BY LegacyAssumption
<1>2. /\ held' \in [Code -> 0..MaxHeld] /\ selling' \in [Code -> 0..MaxHeld]
      /\ born' \in [Code -> 0..Unborn] /\ low' = low /\ lost' = lost
  BY <1>1, LegacyAssumption DEF Left, Unborn
<1>3. looked' \in [Code -> 0..MaxHeld] /\ v8share' \in [Code -> 0..MaxHeld]
  BY <1>1 DEF Left, Smaller
<1>4. \A d \in Code : held'[d] + buying[d] <= MaxHeld /\ selling'[d] <= held'[d]
  BY DEF Left
<1>5. \A d \in Code : v8share'[d] <= held'[d]
  <2>1. ASSUME NEW d \in Code, d # c
        PROVE  v8share'[d] <= held'[d]
    BY <2>1 DEF Left
  <2>2. v8share'[c] = Smaller(v8share[c], n - s) /\ held'[c] = n
    BY DEF Left
  <2>3. v8share'[c] <= held'[c]
    BY <1>1, <2>2 DEF Smaller
  <2> QED
    BY <2>1, <2>3
<1> QED
  BY <1>2, <1>3, <1>4, <1>5

\* The clock and the broker.
LEMMA TypeBroker ==
  ASSUME TypeInv, NEW c \in Code,
         \/ Confirm(c) \/ NextDay \/ FillSale(c) \/ FillBuy(c) \/ Settle(c) \/ Finalize(c)
  PROVE  TypeInv'
<1> USE DEF TypeInv, TypeOK, Fits, account, ledgers, trades, cycle, request, memory
<1>1. CASE Confirm(c)
  <2>1. low' \in [Code -> {"no", "new", "ripe"}]
    BY <1>1 DEF Confirm
  <2>2. file' \in [Code -> Position \cup {NoPos}]
    <3>1. file[c] # NoPos /\ file' = [file EXCEPT ![c].watch = "ripe"]
      BY <1>1 DEF Confirm
    <3>2. [file[c] EXCEPT !.watch = "ripe"] \in Position
      BY <3>1, UpdateType DEF Watch
    <3> QED
      BY <3>1, <3>2
  <2> QED
    BY <1>1, <2>1, <2>2 DEF Confirm
<1>2. CASE NextDay
  <2>1. file' \in [Code -> Position \cup {NoPos}]
    BY <1>2, AgedType DEF NextDay, Pos
  <2>2. born' \in [Code -> 0..Unborn] /\ low' \in [Code -> {"no", "new", "ripe"}]
    BY <1>2, LegacyAssumption DEF NextDay, Smaller, Unborn
  <2>3. /\ selling' \in [Code -> 0..MaxHeld] /\ buying' \in [Code -> 0..MaxHeld]
        /\ Fits'
    BY <1>2, LegacyAssumption DEF NextDay, None
  <2> QED
    BY <1>2, <2>1, <2>2, <2>3 DEF NextDay
<1>3. CASE FillSale(c)
  <2> DEFINE n == held[c] - selling[c]
  <2>1. Left(c, n, 0) /\ UNCHANGED <<KIWOOM_ENV, buying, file, ledgers, trades, cycle, request>>
    BY <1>3 DEF FillSale
  <2>2. n \in 0..MaxHeld /\ n + buying[c] <= MaxHeld /\ 0 \in 0..n
    BY LegacyAssumption
  <2> HIDE DEF n
  <2>3. /\ held' \in [Code -> 0..MaxHeld] /\ selling' \in [Code -> 0..MaxHeld]
        /\ born' \in [Code -> 0..Unborn] /\ looked' \in [Code -> 0..MaxHeld]
        /\ v8share' \in [Code -> 0..MaxHeld] /\ low' = low /\ lost' = lost /\ Fits'
    BY <2>1, <2>2, LeftType
  <2> QED
    BY <2>1, <2>3
<1>4. CASE FillBuy(c)
  <2>1. v8share' \in [Code -> 0..MaxHeld] /\ \A d \in Code : v8share'[d] <= held'[d]
    <3> DEFINE n == IF KIWOOM_ENV = "real" THEN v8share[c] + buying[c] ELSE v8share[c]
    <3>1. n \in 0..MaxHeld /\ n <= held[c] + buying[c]
      BY LegacyAssumption
    <3>2. /\ v8share' = [v8share EXCEPT ![c] = n]
          /\ held' = [held EXCEPT ![c] = held[c] + buying[c]]
      BY <1>4 DEF FillBuy
    <3> HIDE DEF n
    <3> QED
      BY <3>1, <3>2
  <2>2. held' \in [Code -> 0..MaxHeld] /\ buying' \in [Code -> 0..MaxHeld] /\ Fits'
    BY <1>4, <2>1, LegacyAssumption DEF FillBuy
  <2>3. record' \in [Code -> {"no", "open", "filled"}]
    BY <1>4 DEF FillBuy
  <2> QED
    BY <1>4, <2>1, <2>2, <2>3 DEF FillBuy
<1>5. CASE Settle(c)
  BY <1>5 DEF Settle
<1>6. CASE Finalize(c)
  <2>1. file' \in [Code -> Position \cup {NoPos}]
    BY <1>6, ReversedType DEF Finalize, Pos
  <2>2. buying' \in [Code -> 0..MaxHeld] /\ Fits'
    BY <1>6, LegacyAssumption DEF Finalize
  <2> QED
    BY <1>6, <2>1, <2>2 DEF Finalize
<1> QED
  BY <1>1, <1>2, <1>3, <1>4, <1>5, <1>6

\* The mock purchase job, v8 and the user.
LEMMA TypeOthers ==
  ASSUME TypeInv, NEW c \in Code,
         \/ FireBuy(c) \/ V8Order(c) \/ V8Mark(c) \/ V8Track(c) \/ V8Sell(c) \/ V8Release(c)
         \/ V8Drop(c) \/ V8Forget(c) \/ UserBuy(c) \/ UserSell(c) \/ UserLoad \/ UserSave
  PROVE  TypeInv'
<1> USE DEF TypeInv, TypeOK, Fits, account, ledgers, trades, cycle, request, memory
<1>1. CASE FireBuy(c) \/ V8Order(c)
  <2>1. Lot \in 0..MaxHeld /\ held[c] + Lot <= MaxHeld
    BY <1>1, LegacyAssumption DEF FireBuy, V8Order, Room
  <2>2. buying' = [buying EXCEPT ![c] = Lot] /\ UNCHANGED <<held, selling, v8share>>
    BY <1>1 DEF FireBuy, V8Order
  <2>3. buying' \in [Code -> 0..MaxHeld] /\ Fits'
    BY <2>1, <2>2
  <2>4. CASE FireBuy(c)
    <3>1. Fresh(c, Lot) \in Position
      BY <2>1, LegacyAssumption DEF Fresh, Position, Watch
    <3>2. file' \in [Code -> Position \cup {NoPos}]
      BY <2>4, <3>1 DEF FireBuy
    <3>3. record' \in [Code -> {"no", "open", "filled"}]
      BY <2>4 DEF FireBuy
    <3> QED
      BY <2>3, <2>4, <3>2, <3>3 DEF FireBuy
  <2>5. CASE V8Order(c)
    BY <2>3, <2>5 DEF V8Order
  <2> QED
    BY <1>1, <2>4, <2>5
<1>2. CASE V8Mark(c) \/ V8Track(c) \/ V8Release(c) \/ V8Drop(c) \/ V8Forget(c)
  <2>1. owned' \subseteq Code /\ lost' \subseteq Code /\ tracked' \subseteq Code
    BY <1>2 DEF V8Mark, V8Track, V8Release, V8Drop, V8Forget, Unnamed
  <2>2. buying' \in [Code -> 0..MaxHeld] /\ \A d \in Code : buying'[d] <= buying[d]
    BY <1>2, LegacyAssumption DEF V8Mark, V8Track, V8Release, V8Drop, V8Forget
  <2>3. Fits'
    BY <1>2, <2>2, LegacyAssumption DEF V8Mark, V8Track, V8Release, V8Drop, V8Forget
  <2> QED
    BY <1>2, <2>1, <2>2, <2>3 DEF V8Mark, V8Track, V8Release, V8Drop, V8Forget
<1>3. CASE V8Sell(c)
  <2>1. /\ Left(c, selling[c], selling[c]) /\ buying' = buying
        /\ file' = Noted(file, c) /\ mem' = Noted(mem, c)
    BY <1>3 DEF V8Sell
  <2>2. selling[c] \in 0..MaxHeld /\ selling[c] \in 0..selling[c]
        /\ selling[c] + buying[c] <= MaxHeld
    BY LegacyAssumption
  <2>3. /\ held' \in [Code -> 0..MaxHeld] /\ selling' \in [Code -> 0..MaxHeld]
        /\ born' \in [Code -> 0..Unborn] /\ looked' \in [Code -> 0..MaxHeld]
        /\ v8share' \in [Code -> 0..MaxHeld] /\ low' = low /\ lost' = lost /\ Fits'
    BY <2>1, <2>2, LeftType
  <2>4. file' \in [Code -> Position \cup {NoPos}] /\ mem' \in [Code -> Position \cup {NoPos}]
    BY <2>1, NotedType DEF Pos
  <2> QED
    BY <1>3, <2>3, <2>4 DEF V8Sell
<1>4. CASE UserBuy(c)
  <2>1. held[c] + Lot \in 0..MaxHeld /\ held[c] + Lot + buying[c] <= MaxHeld
        /\ held[c] <= held[c] + Lot
    BY <1>4, LegacyAssumption DEF UserBuy, Room
  <2>2. held' = [held EXCEPT ![c] = held[c] + Lot] /\ UNCHANGED <<selling, buying, memory>>
    BY <1>4 DEF UserBuy
  <2>3. held' \in [Code -> 0..MaxHeld] /\ Fits'
    BY <2>1, <2>2
  <2> QED
    BY <1>4, <2>3 DEF UserBuy
<1>5. CASE UserSell(c)
  <2>1. PICK n \in 1..(held[c] - selling[c]) : Left(c, held[c] - n, selling[c])
    BY <1>5 DEF UserSell
  <2> DEFINE m == held[c] - n
  <2>2. m \in 0..MaxHeld /\ selling[c] \in 0..m /\ m + buying[c] <= MaxHeld
    BY <2>1, LegacyAssumption
  <2>3. Left(c, m, selling[c]) /\ buying' = buying
    BY <1>5, <2>1 DEF UserSell
  <2> HIDE DEF m
  <2>4. /\ held' \in [Code -> 0..MaxHeld] /\ selling' \in [Code -> 0..MaxHeld]
        /\ born' \in [Code -> 0..Unborn] /\ looked' \in [Code -> 0..MaxHeld]
        /\ v8share' \in [Code -> 0..MaxHeld] /\ low' = low /\ lost' = lost /\ Fits'
    BY <2>2, <2>3, LeftType
  <2>5. file' \in [Code -> Position \cup {NoPos}] /\ mem' \in [Code -> Position \cup {NoPos}]
    BY <1>5, NotedType DEF UserSell, Pos
  <2>6. manual' \subseteq Code
    BY <1>5 DEF UserSell
  <2> QED
    BY <1>5, <2>4, <2>5, <2>6 DEF UserSell
<1>6. CASE UserLoad
  <2>1. ucopy' \subseteq Code /\ ucode' \in Code /\ upc' \in {"idle", "loaded"}
    BY <1>6, ReadType, LegacyAssumption DEF UserLoad, Done, AnyCode
  <2> QED
    BY <1>6, <2>1 DEF UserLoad
<1>7. CASE UserSave
  BY <1>7, LegacyAssumption DEF UserSave, Done, AnyCode
<1> QED
  BY <1>1, <1>2, <1>3, <1>4, <1>5, <1>6, <1>7

LEMMA TypeStep == TypeInv /\ [Next]_vars => TypeInv'
<1> SUFFICES ASSUME TypeInv, [Next]_vars
             PROVE  TypeInv'
  OBVIOUS
<1>1. CASE UNCHANGED vars
  BY <1>1 DEF vars, account, ledgers, trades, cycle, request, memory, TypeInv, TypeOK, Fits
<1>2. AnyCode \in Code
  BY LegacyAssumption DEF AnyCode
<1> QED
  BY <1>1, <1>2, TypeLooks, TypeCycle, TypeBroker, TypeOthers DEF Next

\* Whatever dies, fails or comes late, the legacy exit works on positions and
\* quantities that its code expects, and no more shares are on sale or counted
\* as v8's than the account holds.
THEOREM TypeCorrect == Spec => []TypeOK
<1>1. TypeInv => TypeOK
  BY DEF TypeInv
<1> QED
  BY <1>1, TypeInit, TypeStep, PTL DEF Spec

(***************************************************************************)
(* Shares that v8 bought are never put on sale while the ledger names      *)
(* their code, when no cycle dies, no order is late and the user sells     *)
(* nothing.  The argument follows the position by which the cycle decides: *)
(* only one that is Ready sells, and a Ready position of a code that v8    *)
(* may order does not exist.  A code that was lost is so only until v8     *)
(* orders it again: what is known of its position once its shares are gone *)
(* does not rest on the ledger.                                            *)
(***************************************************************************)
Calm == Faults = 0 /\ "late" \notin Env /\ "usersell" \notin Env

\* the positions the cycle goes by: the file, then its copy of it
Current == IF pc \in {"idle", "listed"} THEN file ELSE mem

\* a look may sell it
Ready(p) == p # NoPos /\ ~p.exited /\ (Overdue(p) \/ p.watch = "ripe")

\* the history shows how its shares left
Known(p) == p # NoPos => p.soldSince

Claims == KIWOOM_ENV = "mock" => owned = {} /\ marking = {}

\* v8's shares and orders are claimed, or lost; a position whose exit is on its
\* way, or that v8 has ordered, is not ready; the cycle does not look at ready
\* positions of v8's; and when nothing is held, v8 can order only what is not
\* ready.
Shares(c) ==
  /\ c \notin lost => selling[c] + v8share[c] <= held[c]
  /\ v8share[c] > 0 => c \in owned \cup marking \cup lost
  /\ KIWOOM_ENV = "real" /\ buying[c] > 0 => c \in owned \cup marking \cup lost
  /\ selling[c] > 0 => c \in soldToday /\ Known(Current[c]) /\ ~Ready(Current[c])
  /\ c \in marking \ lost => ~Ready(Current[c])
  /\ pc = "look" /\ c \in todo => hsnap[c] > 0
  /\ pc = "look" /\ c \in todo /\ Ready(mem[c]) => c \notin (owned \cup marking) \ lost
  /\ KIWOOM_ENV = "real" /\ held[c] = 0 => Known(Current[c])
  /\ KIWOOM_ENV = "real" /\ held[c] = 0 /\ c \notin v8sold => ~Ready(Current[c])
  /\ KIWOOM_ENV = "real" /\ held[c] = 0 /\ pc \in {"listed", "look"} /\ hsnap[c] > 0
       => c \in soldToday

AllShares == \A c \in Code : Shares(c)
SharesInv == TypeInv /\ Claims /\ AllShares

\* A look finds a position ready only if it was, and keeps what is known of it.
LEMMA SyncedReady ==
  ASSUME NEW p \in Pos, NEW c \in Code, NEW q \in 0..MaxHeld
  PROVE  LET r == Synced(p, c, q) IN
         /\ r.watch = "ripe" => Ready(p) /\ p.watch = "ripe"
         /\ Overdue(r) => Ready(p) /\ Overdue(p)
         /\ Known(p) /\ c \in soldToday => r.soldSince
<1> DEFINE r == Synced(p, c, q)
<1>1. CASE r = Fresh(c, q)
  <2>1. r.watch = "no" /\ r.age = 0 /\ r.soldSince = (c \in soldToday)
    BY <1>1 DEF Fresh
  <2>2. ~Overdue(r)
    BY <2>1, LegacyAssumption DEF Overdue
  <2> QED
    BY <2>1, <2>2
<1>2. CASE r # Fresh(c, q)
  <2>1. p # NoPos /\ ~p.exited /\ r = [p EXCEPT !.rem = q]
    BY <1>2 DEF Synced
  <2>2. p \in Position
    BY <2>1 DEF Pos
  <2>3. r.watch = p.watch /\ r.age = p.age /\ r.soldSince = p.soldSince
    BY <2>1, <2>2 DEF Position
  <2> QED
    BY <2>1, <2>3 DEF Ready, Known, Overdue
<1> QED
  BY <1>1, <1>2

\* What becomes of a position outside the looks.
LEMMA UpdateReady ==
  ASSUME NEW p \in Pos
  PROVE  /\ ~Ready(NoPos) /\ Known(NoPos)
         /\ Ready(Reversed(p)) => Ready(p)
         /\ Known(p) => Known(Reversed(p))
         /\ p # NoPos => LET q == [p EXCEPT !.soldSince = TRUE] IN
                           Known(q) /\ (Ready(q) => Ready(p))
<1>1. ~Ready(NoPos) /\ Known(NoPos)
  BY DEF Ready, Known
<1>2. CASE p = NoPos
  BY <1>1, <1>2 DEF Reversed
<1>3. CASE p \in Position
  <2>1. LET q == [p EXCEPT !.soldSince = TRUE] IN
          q.soldSince /\ q.exited = p.exited /\ q.age = p.age /\ q.watch = p.watch
    BY <1>3 DEF Position
  <2>2. \/ Reversed(p) = NoPos \/ Reversed(p) = p
        \/ Reversed(p) = [p EXCEPT !.rem = @ - Lot]
    BY <1>3 DEF Reversed
  <2>3. LET q == [p EXCEPT !.rem = @ - Lot] IN
          /\ q.soldSince = p.soldSince /\ q.exited = p.exited
          /\ q.age = p.age /\ q.watch = p.watch
    BY <1>3 DEF Position
  <2>4. p # NoPos
    BY <1>3, NoPosAssumption
  <2> QED
    BY <1>1, <2>1, <2>2, <2>3, <2>4 DEF Ready, Known, Overdue
<1> QED
  BY <1>2, <1>3 DEF Pos

\* A recorded sale is known, and makes nothing ready.
LEMMA NotedReady ==
  ASSUME NEW s \in [Code -> Pos], NEW c \in Code
  PROVE  /\ Known(Noted(s, c)[c])
         /\ \A d \in Code : /\ Ready(Noted(s, c)[d]) => Ready(s[d])
                            /\ Known(s[d]) => Known(Noted(s, c)[d])
<1> DEFINE t == Noted(s, c)
<1>1. /\ \A d \in Code \ {c} : t[d] = s[d]
      /\ s[c] = NoPos => t[c] = NoPos
      /\ s[c] # NoPos => t[c] = [s[c] EXCEPT !.soldSince = TRUE]
  BY NotedType
<1>2. Known(t[c]) /\ (Ready(t[c]) => Ready(s[c]))
  <2> DEFINE p == s[c]
  <2>1. p \in Pos
    OBVIOUS
  <2>2. p # NoPos => LET q == [p EXCEPT !.soldSince = TRUE] IN
                       Known(q) /\ (Ready(q) => Ready(p))
    BY <2>1, UpdateReady
  <2>3. ~Ready(NoPos) /\ Known(NoPos)
    BY DEF Ready, Known
  <2> HIDE DEF t
  <2> QED
    BY <1>1, <2>2, <2>3
<1> HIDE DEF t
<1>3. \A d \in Code : (Ready(t[d]) => Ready(s[d])) /\ (Known(s[d]) => Known(t[d]))
  BY <1>1, <1>2
<1> QED
  BY <1>2, <1>3 DEF t

\* What a look that sells nothing leaves.
LEMMA LookReady ==
  ASSUME TypeInv, NEW c \in Code,
         \/ LookOdd(c) \/ LookLow(c) \/ LookFine(c)
         \/ \E s \in Sight : SellRefused(c, s)
  PROVE  \E q \in Position, s \in Sights :
            /\ Look(c, q, s) /\ Quiet
            /\ Ready(q) => Ready(mem[c])
            /\ Known(mem[c]) /\ c \in soldToday => Known(q)
<1> DEFINE p == Synced(mem[c], c, hsnap[c])
<1>1. /\ p \in Position
      /\ p.watch = "ripe" => Ready(mem[c])
      /\ Overdue(p) => Ready(mem[c])
      /\ Known(mem[c]) /\ c \in soldToday => p.soldSince
  BY SyncedType, SyncedReady DEF TypeInv, TypeOK, Pos
<1>2. /\ Ready(p) => Ready(mem[c])
      /\ Known(mem[c]) /\ c \in soldToday => Known(p)
  BY <1>1 DEF Ready, Known
<1> HIDE DEF p
<1>3. ASSUME NEW w \in {"new", "no"}
      PROVE  LET q == [p EXCEPT !.watch = w] IN
             /\ q \in Position
             /\ Ready(q) => Ready(mem[c])
             /\ Known(mem[c]) /\ c \in soldToday => Known(q)
  <2> DEFINE q == [p EXCEPT !.watch = w]
  <2>1. q \in Position /\ q.watch = w /\ q.age = p.age /\ q.soldSince = p.soldSince
    BY <1>1 DEF Position, Watch
  <2> QED
    BY <1>1, <2>1 DEF Ready, Known, Overdue
<1> USE DEF p
<1>4. CASE LookOdd(c)
  <2>1. Look(c, p, "odd") /\ Quiet /\ "odd" \in Sights
    BY <1>4 DEF LookOdd, Sights
  <2> HIDE DEF p
  <2> QED
    BY <1>1, <1>2, <2>1
<1>5. CASE LookLow(c) \/ LookFine(c)
  <2>1. PICK w \in {"new", "no"}, s \in Sights : Look(c, [p EXCEPT !.watch = w], s) /\ Quiet
    BY <1>5 DEF LookLow, LookFine, Sights
  <2> HIDE DEF p
  <2> QED
    BY <1>3, <2>1
<1>6. ASSUME NEW s \in Sight, SellRefused(c, s)
      PROVE  \E q \in Position, t \in Sights :
                /\ Look(c, q, t) /\ Quiet
                /\ Ready(q) => Ready(mem[c])
                /\ Known(mem[c]) /\ c \in soldToday => Known(q)
  <2>1. Quiet /\ (Look(c, p, s) \/ Look(c, [p EXCEPT !.watch = "no"], s))
    BY <1>6 DEF SellRefused
  <2>2. s \in Sights
    BY DEF Sights, Sight
  <2> HIDE DEF p
  <2> QED
    BY <1>1, <1>2, <1>3, <2>1, <2>2
<1> QED
  BY <1>4, <1>5, <1>6

\* The evaluation.
LEMMA SharesLooks ==
  ASSUME SharesInv, NEW c \in Code,
         \/ LookOdd(c) \/ LookLow(c) \/ LookFine(c)
         \/ \E s \in Sight : Sell(c, s) \/ SellRefused(c, s)
  PROVE  AllShares'
<1>1. /\ held \in [Code -> Nat] /\ selling \in [Code -> Nat] /\ v8share \in [Code -> Nat]
      /\ hsnap \in [Code -> Nat] /\ mem \in [Code -> Pos] /\ TypeInv
  BY LegacyAssumption DEF SharesInv, TypeInv, TypeOK, Pos
<1>2. CASE \/ LookOdd(c) \/ LookLow(c) \/ LookFine(c)
           \/ \E s \in Sight : SellRefused(c, s)
  <2>1. PICK q \in Position, s \in Sights :
            /\ Look(c, q, s) /\ Quiet
            /\ Ready(q) => Ready(mem[c])
            /\ Known(mem[c]) /\ c \in soldToday => Known(q)
    BY <1>1, <1>2, LookReady
  <2>2. /\ pc = "look" /\ c \in todo /\ todo' = todo \ {c} /\ mem' = [mem EXCEPT ![c] = q]
        /\ UNCHANGED <<KIWOOM_ENV, held, selling, buying, v8share, lost, owned, marking,
                       v8sold, soldToday, pc, hsnap>>
    BY <2>1 DEF Look, Quiet, ledgers, trades
  <2>3. mem'[c] = q /\ \A d \in Code \ {c} : mem'[d] = mem[d]
    BY <1>1, <2>2
  <2>4. pc' = "look" /\ Current' = mem' /\ Current = mem
    BY <2>2 DEF Current
  <2>5. Shares(c)'
    <3>1. Shares(c)
      BY DEF SharesInv, AllShares
    <3>2. held[c] = 0 /\ KIWOOM_ENV = "real" => c \in soldToday
      BY <2>2, <3>1 DEF Shares
    <3> QED
      BY <2>1, <2>2, <2>3, <2>4, <3>1, <3>2 DEF Shares
  <2>6. ASSUME NEW d \in Code \ {c}
        PROVE  Shares(d)'
    <3>1. Shares(d)
      BY DEF SharesInv, AllShares
    <3> QED
      BY <2>2, <2>3, <2>4, <3>1 DEF Shares
  <2> QED
    BY <2>5, <2>6 DEF AllShares
<1>3. ASSUME NEW s \in Sight, Sell(c, s)
      PROVE  AllShares'
  <2> DEFINE p == Synced(mem[c], c, hsnap[c])
             q == [p EXCEPT !.rem = 0, !.exited = TRUE, !.soldSince = TRUE]
  <2>1. /\ p.rem = hsnap[c] /\ p \in Position
        /\ p.watch = "ripe" => Ready(mem[c])
        /\ Overdue(p) => Ready(mem[c])
    BY <1>1, SyncedType, SyncedReady DEF TypeInv, TypeOK
  <2>2. Ready(mem[c])
    BY <1>3, <2>1 DEF Sell, Due, Sight
  <2>3. /\ q.exited /\ q.soldSince
    BY <2>1 DEF Position
  <2>4. /\ Look(c, q, s) /\ selling[c] + p.rem <= held[c]
        /\ selling' = [selling EXCEPT ![c] = @ + p.rem]
        /\ soldToday' = soldToday \cup {c}
    BY <1>3 DEF Sell
  <2> HIDE DEF p, q
  <2>5. ~Ready(q) /\ Known(q)
    BY <2>3 DEF Ready, Known
  <2>6. /\ pc = "look" /\ c \in todo /\ todo' = todo \ {c} /\ mem' = [mem EXCEPT ![c] = q]
        /\ UNCHANGED <<KIWOOM_ENV, held, buying, v8share, lost, owned, marking, v8sold, pc,
                       hsnap>>
    BY <2>4 DEF Look, ledgers
  <2>7. mem'[c] = q /\ \A d \in Code \ {c} : mem'[d] = mem[d] /\ selling'[d] = selling[d]
    BY <1>1, <2>4, <2>6
  <2>8. pc' = "look" /\ Current' = mem' /\ Current = mem
    BY <2>6 DEF Current
  <2>9. Shares(c)'
    <3>1. Shares(c)
      BY DEF SharesInv, AllShares
    <3>2. c \notin lost => v8share[c] = 0
      BY <1>1, <2>2, <2>6, <3>1 DEF Shares
    <3>3. c \notin lost' => selling'[c] + v8share'[c] <= held'[c]
      BY <1>1, <2>1, <2>4, <2>6, <3>2
    <3> QED
      BY <2>4, <2>5, <2>6, <2>7, <2>8, <3>1, <3>2, <3>3 DEF Shares
  <2>10. ASSUME NEW d \in Code \ {c}
         PROVE  Shares(d)'
    <3>1. Shares(d)
      BY DEF SharesInv, AllShares
    <3> QED
      BY <2>4, <2>6, <2>7, <2>8, <3>1 DEF Shares
  <2> QED
    BY <2>9, <2>10 DEF AllShares
<1> QED
  BY <1>2, <1>3

\* The rest of the cycle.
LEMMA SharesCycle ==
  ASSUME SharesInv, Calm,
         \/ List \/ ListPart \/ ReadFiles \/ Looked \/ ReleaseLoad \/ ReleaseSave
         \/ Tidy \/ Save \/ Die
  PROVE  AllShares'
<1>1. /\ held \in [Code -> Nat] /\ \A d \in Code : Shares(d)
  BY LegacyAssumption DEF SharesInv, AllShares, TypeInv, TypeOK
<1>2. /\ UNCHANGED <<KIWOOM_ENV, held, selling, buying, v8share, owned, marking, v8sold,
                      soldToday>>
      /\ lost' = lost \/ ReadFiles
  BY DEF List, ListPart, ListWithout, ReadFiles, Looked, ReleaseLoad, ReleaseSave, Tidy,
         Save, Die, account, ledgers, trades, memory
<1>3. CASE List \/ ListPart
  <2>1. /\ pc' = "listed" /\ Current' = Current /\ lost' = lost
        /\ KIWOOM_ENV = "real" => \A d \in Code : hsnap'[d] = held[d]
    BY <1>3 DEF List, ListPart, ListWithout, Current, memory
  <2> QED
    BY <1>1, <1>2, <2>1 DEF AllShares, Shares
<1>4. CASE ReadFiles
  <2>1. /\ pc = "listed" /\ pc' = "look" /\ hsnap' = hsnap /\ mem' = Current /\ Current' = Current
        /\ lost \subseteq lost'
        /\ \A d \in todo' : d \in Code /\ hsnap[d] > 0 /\ d \notin owned \ lost'
    BY <1>4 DEF ReadFiles, Current, Of
  <2> QED
    BY <1>1, <1>2, <2>1 DEF AllShares, Shares
<1>5. CASE Looked \/ ReleaseLoad \/ ReleaseSave \/ Tidy
  <2>1. /\ pc' \in {"release", "releasing", "save"} /\ lost' = lost
        /\ \A d \in Code : Current'[d] = Current[d] \/ Current'[d] = NoPos
    BY <1>5 DEF Looked, ReleaseLoad, ReleaseSave, Tidy, Current, memory
  <2>2. ~Ready(NoPos) /\ Known(NoPos)
    BY DEF Ready, Known
  <2> QED
    BY <1>1, <1>2, <2>1, <2>2 DEF AllShares, Shares
<1>6. CASE Save
  <2>1. pc' = "idle" /\ Current' = Current /\ lost' = lost
    BY <1>6 DEF Save, Forget, Current, memory
  <2> QED
    BY <1>1, <1>2, <2>1 DEF AllShares, Shares
\* no cycle dies
<1>7. CASE Die
  BY <1>7 DEF Die, Calm, SharesInv, TypeInv, TypeOK
<1> QED
  BY <1>3, <1>4, <1>5, <1>6, <1>7

\* The clock.
LEMMA SharesClock ==
  ASSUME SharesInv, Calm, NEW c \in Code, Confirm(c) \/ NextDay
  PROVE  AllShares'
<1>1. /\ held \in [Code -> Nat] /\ selling \in [Code -> Nat] /\ file \in [Code -> Pos]
      /\ v8share \in [Code -> Nat] /\ \A d \in Code : Shares(d)
  BY LegacyAssumption DEF SharesInv, AllShares, TypeInv, TypeOK, Pos
<1>2. /\ pc = "idle" /\ pc' = "idle" /\ Current = file /\ Current' = file'
      /\ marking = {} /\ selling = None /\ Tidied
      /\ UNCHANGED <<KIWOOM_ENV, held, v8share, lost, owned, marking>>
  BY DEF Confirm, NextDay, Calm, Current, account, ledgers, cycle
<1>3. ASSUME NEW d \in Code, KIWOOM_ENV = "real", held[d] = 0
      PROVE  file[d] = NoPos /\ ~Ready(NoPos) /\ Known(NoPos)
  <2>1. Known(file[d])
    BY <1>1, <1>2, <1>3 DEF Shares
  <2> QED
    BY <1>2, <1>3, <2>1 DEF Tidied, Known, Ready
<1>4. \A d \in Code : file[d] = NoPos => file'[d] = NoPos
  <2>1. CASE Confirm(c)
    BY <1>1, <2>1 DEF Confirm
  <2>2. CASE NextDay
    BY <2>2 DEF NextDay, Aged
  <2> QED
    BY <2>1, <2>2
<1>5. selling' = None /\ (buying' = buying \/ buying' = None)
  BY <1>2 DEF Confirm, NextDay, account
<1> QED
  BY <1>1, <1>2, <1>3, <1>4, <1>5 DEF AllShares, Shares, None

\* Shares leave the account: what is left of v8's still fits.
LEMMA SharesLeft ==
  ASSUME TypeInv, NEW c \in Code, NEW n \in Nat, NEW s \in 0..n, Left(c, n, s)
  PROVE  /\ held'[c] = n /\ selling'[c] = s
         /\ v8share'[c] <= v8share[c] /\ s + v8share'[c] <= n /\ lost' = lost
         /\ \A d \in Code \ {c} : /\ held'[d] = held[d] /\ selling'[d] = selling[d]
                                  /\ v8share'[d] = v8share[d]
<1>1. /\ held \in [Code -> 0..MaxHeld] /\ selling \in [Code -> 0..MaxHeld]
      /\ v8share \in [Code -> 0..MaxHeld]
  BY DEF TypeInv, TypeOK
<1>2. /\ held' = [held EXCEPT ![c] = n] /\ selling' = [selling EXCEPT ![c] = s]
      /\ v8share' = [v8share EXCEPT ![c] = Smaller(v8share[c], n - s)] /\ lost' = lost
  BY DEF Left
<1>3. v8share'[c] = Smaller(v8share[c], n - s)
  BY <1>1, <1>2
<1>4. v8share'[c] <= v8share[c] /\ s + v8share'[c] <= n
  BY <1>1, <1>3, LegacyAssumption DEF Smaller
<1> QED
  BY <1>1, <1>2, <1>4

\* The broker and the reconciliation.
LEMMA SharesBroker ==
  ASSUME SharesInv, NEW c \in Code,
         FillSale(c) \/ FillBuy(c) \/ Settle(c) \/ Finalize(c)
  PROVE  AllShares'
<1>1. /\ held \in [Code -> Nat] /\ selling \in [Code -> Nat] /\ file \in [Code -> Pos]
      /\ buying \in [Code -> Nat]
      /\ v8share \in [Code -> Nat] /\ TypeInv /\ \A d \in Code : Shares(d)
  BY LegacyAssumption DEF SharesInv, AllShares, TypeInv, TypeOK, Pos
<1>2. /\ UNCHANGED <<KIWOOM_ENV, ledgers, soldToday, cycle>>
  BY DEF FillSale, FillBuy, Settle, Finalize, account, trades
<1>3. CASE FillSale(c)
  <2> DEFINE n == held[c] - selling[c]
  <2>1. n \in Nat /\ 0 \in 0..n /\ Left(c, n, 0) /\ selling[c] > 0 /\ UNCHANGED <<file, buying>>
    BY <1>1, <1>3 DEF FillSale, TypeInv, Fits
  <2> HIDE DEF n
  <2>2. /\ held'[c] = n /\ selling'[c] = 0
        /\ v8share'[c] <= v8share[c] /\ 0 + v8share'[c] <= n /\ lost' = lost
        /\ \A d \in Code \ {c} : /\ held'[d] = held[d] /\ selling'[d] = selling[d]
                                 /\ v8share'[d] = v8share[d]
    BY <1>1, <2>1, SharesLeft
  <2>3. Current' = Current /\ v8share' \in [Code -> Nat]
    BY <1>1, <1>2, <2>1, TypeStep, LegacyAssumption DEF Current, cycle, Next, TypeInv, TypeOK
  <2>4. Shares(c)'
    <3>1. Shares(c)
      BY <1>1
    <3> QED
      BY <1>1, <1>2, <2>1, <2>2, <2>3, <3>1 DEF Shares, ledgers, cycle
  <2>5. ASSUME NEW d \in Code \ {c}
        PROVE  Shares(d)'
    BY <1>1, <1>2, <2>1, <2>2, <2>3 DEF Shares, ledgers, cycle
  <2> QED
    BY <2>4, <2>5 DEF AllShares
<1>4. CASE FillBuy(c)
  <2>1. /\ held' = [held EXCEPT ![c] = @ + buying[c]] /\ buying[c] > 0
        /\ buying' = [buying EXCEPT ![c] = 0]
        /\ UNCHANGED <<selling, file, lost>>
        /\ v8share' = [v8share EXCEPT ![c] = IF KIWOOM_ENV = "real" THEN @ + buying[c] ELSE @]
    BY <1>4 DEF FillBuy
  <2>2. Current' = Current
    BY <1>2, <2>1 DEF Current, cycle
  <2> QED
    BY <1>1, <1>2, <2>1, <2>2 DEF AllShares, Shares, ledgers, cycle
<1>5. CASE Settle(c) \/ Finalize(c)
  <2>1. /\ UNCHANGED <<held, selling, v8share, lost>>
        /\ \A d \in Code : file'[d] = file[d] \/ file'[d] = Reversed(file[d])
        /\ \A d \in Code : buying'[d] = buying[d] \/ buying'[d] = 0
    BY <1>1, <1>5 DEF Settle, Finalize, account, memory
  <2>2. \A d \in Code : /\ Ready(file'[d]) => Ready(file[d])
                        /\ Known(file[d]) => Known(file'[d])
    <3> SUFFICES ASSUME NEW d \in Code
                 PROVE  /\ Ready(file'[d]) => Ready(file[d])
                        /\ Known(file[d]) => Known(file'[d])
      OBVIOUS
    <3>1. file[d] \in Pos
      BY <1>1
    <3>2. /\ Ready(Reversed(file[d])) => Ready(file[d])
          /\ Known(file[d]) => Known(Reversed(file[d]))
      BY <3>1, UpdateReady
    <3> QED
      BY <2>1, <3>2
  <2>3. \A d \in Code : /\ Ready(Current'[d]) => Ready(Current[d])
                        /\ Known(Current[d]) => Known(Current'[d])
    BY <1>2, <2>2 DEF Current, cycle
  <2> QED
    BY <1>1, <1>2, <2>1, <2>3 DEF AllShares, Shares, ledgers, cycle
<1> QED
  BY <1>3, <1>4, <1>5

\* The mock purchase job, v8 and the user.
LEMMA SharesOthers ==
  ASSUME SharesInv, Calm, NEW c \in Code,
         \/ FireBuy(c) \/ V8Order(c) \/ V8Mark(c) \/ V8Track(c) \/ V8Sell(c) \/ V8Release(c)
         \/ V8Drop(c) \/ V8Forget(c) \/ UserBuy(c) \/ UserSell(c) \/ UserLoad \/ UserSave
  PROVE  AllShares'
<1>1. /\ held \in [Code -> Nat] /\ selling \in [Code -> Nat] /\ file \in [Code -> Pos]
      /\ mem \in [Code -> Pos] /\ buying \in [Code -> Nat]
      /\ v8share \in [Code -> Nat] /\ TypeInv /\ \A d \in Code : Shares(d)
  BY LegacyAssumption DEF SharesInv, AllShares, TypeInv, TypeOK, Pos
<1>2. UNCHANGED <<KIWOOM_ENV, pc, hsnap, todo>>
  BY DEF FireBuy, V8Order, V8Mark, V8Track, V8Sell, V8Release, V8Drop, V8Forget, UserBuy,
         UserSell, UserLoad, UserSave, account, cycle
<1>3. CASE FireBuy(c)
  <2>1. /\ KIWOOM_ENV = "mock" /\ held[c] = 0 /\ file' = [file EXCEPT ![c] = Fresh(c, Lot)]
        /\ UNCHANGED <<held, selling, v8share, lost, mem, ledgers, soldToday>>
    BY <1>3 DEF FireBuy, memory, cycle
  <2>2. selling[c] = 0 /\ owned = {} /\ marking = {}
    BY <1>1, <2>1 DEF TypeInv, Fits, SharesInv, Claims
  <2>3. \A d \in Code \ {c} : Current'[d] = Current[d]
    BY <1>1, <1>2, <2>1 DEF Current
  <2> QED
    BY <1>1, <1>2, <2>1, <2>2, <2>3 DEF AllShares, Shares, ledgers
<1>4. CASE V8Order(c)
  <2>1. /\ KIWOOM_ENV = "real" /\ held[c] = 0 /\ marking' = marking \cup {c}
        /\ buying' = [buying EXCEPT ![c] = Lot]
        /\ lost' = IF c \in v8sold \cup todo THEN lost \cup {c} ELSE lost \ {c}
        /\ UNCHANGED <<held, selling, v8share, file, mem, owned, v8sold, soldToday>>
    BY <1>4 DEF V8Order, cycle, trades
  <2>2. /\ Current' = Current /\ (pc = "look" => Current = mem)
        /\ c \notin v8sold => ~Ready(Current[c])
    BY <1>1, <1>2, <2>1 DEF Current, Shares
  <2>3. selling[c] = 0 /\ v8share[c] = 0
    BY <1>1, <2>1 DEF TypeInv, Fits
  <2>4. Shares(c)'
    <3>1. Shares(c)
      BY <1>1
    <3> QED
      BY <1>1, <1>2, <2>1, <2>2, <2>3, <3>1 DEF Shares
  <2>5. ASSUME NEW d \in Code \ {c}
        PROVE  Shares(d)'
    <3>1. Shares(d)
      BY <1>1
    <3> QED
      BY <1>1, <1>2, <2>1, <2>2, <3>1 DEF Shares
  <2> QED
    BY <2>4, <2>5 DEF AllShares
<1>5. CASE V8Mark(c) \/ V8Track(c) \/ UserLoad \/ UserSave
  <2>1. /\ owned' \cup marking' = owned \cup marking /\ marking' \subseteq marking
        /\ UNCHANGED <<held, selling, buying, v8share, lost, file, mem, v8sold, soldToday>>
    BY <1>5 DEF V8Mark, V8Track, UserLoad, UserSave, account, ledgers, trades, cycle, memory
  <2>2. Current' = Current
    BY <1>2, <2>1 DEF Current
  <2> QED
    BY <1>1, <1>2, <2>1, <2>2 DEF AllShares, Shares
<1>6. CASE V8Sell(c)
  <2>1. /\ Left(c, selling[c], selling[c]) /\ selling[c] \in 0..selling[c]
        /\ v8sold' = v8sold \cup {c} /\ soldToday' = soldToday \cup {c}
        /\ file' = Noted(file, c) /\ mem' = Noted(mem, c)
        /\ UNCHANGED <<buying, owned, marking>>
    BY <1>1, <1>6 DEF V8Sell
  <2>2. /\ held'[c] = selling[c] /\ selling'[c] = selling[c]
        /\ v8share'[c] <= v8share[c] /\ selling[c] + v8share'[c] <= selling[c] /\ lost' = lost
        /\ \A d \in Code \ {c} : /\ held'[d] = held[d] /\ selling'[d] = selling[d]
                                 /\ v8share'[d] = v8share[d]
    BY <1>1, <2>1, SharesLeft
  <2>3. \A d \in Code :
          /\ Ready(file'[d]) => Ready(file[d])
          /\ Known(file[d]) => Known(file'[d])
          /\ Ready(mem'[d]) => Ready(mem[d])
          /\ Known(mem[d]) => Known(mem'[d])
    BY <1>1, <2>1, NotedReady
  <2>4. Known(file'[c]) /\ Known(mem'[c])
    BY <1>1, <2>1, NotedReady
  <2>5. /\ \A d \in Code : /\ Ready(Current'[d]) => Ready(Current[d])
                           /\ Known(Current[d]) => Known(Current'[d])
        /\ Known(Current'[c])
    <3>1. \/ Current = file /\ Current' = file'
          \/ Current = mem /\ Current' = mem'
      BY <1>2 DEF Current
    <3>2. CASE Current = file /\ Current' = file'
      BY <2>3, <2>4, <3>2
    <3>3. CASE Current = mem /\ Current' = mem'
      BY <2>3, <2>4, <3>3
    <3> QED
      BY <3>1, <3>2, <3>3
  <2>6. v8share' \in [Code -> Nat]
    BY <1>1, <1>6, TypeOthers, LegacyAssumption DEF TypeInv, TypeOK
  <2>7. Shares(c)'
    <3>1. Shares(c)
      BY <1>1
    <3> QED
      BY <1>1, <1>2, <2>1, <2>2, <2>3, <2>5, <2>6, <3>1 DEF Shares
  <2>8. ASSUME NEW d \in Code \ {c}
        PROVE  Shares(d)'
    <3>1. Shares(d)
      BY <1>1
    <3> QED
      BY <1>1, <1>2, <2>1, <2>2, <2>3, <2>5, <3>1 DEF Shares
  <2> QED
    BY <2>7, <2>8 DEF AllShares
\* what loses its entry is lost
<1>7. CASE V8Release(c) \/ V8Drop(c) \/ V8Forget(c)
  <2>1. /\ UNCHANGED <<held, selling, v8share, marking, file, mem, v8sold, soldToday>>
        /\ \A d \in Code : buying'[d] = buying[d] \/ buying'[d] = 0
        /\ Unnamed(c) \/ UNCHANGED <<owned, lost>>
    BY <1>1, <1>7 DEF V8Release, V8Drop, V8Forget, account, trades, cycle
  <2>2. Current' = Current
    BY <1>2, <2>1 DEF Current
  <2>3. /\ owned' \subseteq owned /\ lost \subseteq lost'
        /\ \A d \in Code \ {c} : d \in owned <=> d \in owned'
        /\ \A d \in Code \ {c} : d \in lost <=> d \in lost'
        /\ v8share[c] > 0 \/ buying'[c] > 0 =>
             c \in lost' \/ (c \in owned' <=> c \in owned)
    BY <2>1, Zenon DEF Unnamed
  <2>4. ASSUME NEW d \in Code
        PROVE  Shares(d)'
    <3>1. Shares(d)
      BY <1>1
    <3> QED
      BY <1>1, <1>2, <2>1, <2>2, <2>3, <3>1 DEF Shares
  <2> QED
    BY <2>4 DEF AllShares
<1>8. CASE UserBuy(c)
  <2>1. /\ held' = [held EXCEPT ![c] = @ + Lot] /\ Lot > 0 /\ Lot \in Nat
        /\ UNCHANGED <<selling, buying, v8share, lost, file, mem, ledgers, soldToday>>
    BY <1>8, LegacyAssumption DEF UserBuy, trades, cycle, memory
  <2>2. Current' = Current
    BY <1>2, <2>1 DEF Current
  <2> QED
    BY <1>1, <1>2, <2>1, <2>2 DEF AllShares, Shares, ledgers
<1>9. CASE UserSell(c)
  BY <1>9 DEF UserSell, Calm
<1> QED
  BY <1>3, <1>4, <1>5, <1>6, <1>7, <1>8, <1>9

\* v8 trades on the real account only.
LEMMA ClaimsStep ==
  ASSUME SharesInv, Next
  PROVE  Claims'
<1>1. ASSUME KIWOOM_ENV' = KIWOOM_ENV,
             KIWOOM_ENV = "mock" => owned' \cup marking' \subseteq owned \cup marking
      PROVE  Claims'
  BY <1>1 DEF SharesInv, Claims
<1>2. CASE \/ List \/ ListPart \/ ReadFiles \/ Looked \/ ReleaseLoad \/ ReleaseSave
           \/ Tidy \/ Save \/ Die \/ UserLoad \/ UserSave \/ NextDay
  <2>1. UNCHANGED <<KIWOOM_ENV, owned, marking>>
    BY <1>2 DEF List, ListPart, ListWithout, ReadFiles, Looked, ReleaseLoad, ReleaseSave,
                Tidy, Save, Die, UserLoad, UserSave, NextDay, account, ledgers
  <2> QED
    BY <1>1, <2>1
<1>3. ASSUME NEW c \in Code,
             \/ LookOdd(c) \/ LookLow(c) \/ LookFine(c)
             \/ \E s \in Sight : Sell(c, s) \/ SellRefused(c, s)
      PROVE  Claims'
  <2>1. UNCHANGED <<KIWOOM_ENV, owned, marking>>
    BY <1>3 DEF LookOdd, LookLow, LookFine, Sell, SellRefused, Look, ledgers
  <2> QED
    BY <1>1, <2>1
<1>4. ASSUME NEW c \in Code,
             \/ Confirm(c) \/ FillSale(c) \/ FillBuy(c) \/ Settle(c) \/ Finalize(c)
             \/ FireBuy(c) \/ V8Track(c) \/ V8Sell(c) \/ UserBuy(c) \/ UserSell(c)
      PROVE  Claims'
  <2>1. UNCHANGED <<KIWOOM_ENV, owned, marking>>
    BY <1>4 DEF Confirm, FillSale, FillBuy, Settle, Finalize, FireBuy, V8Track, V8Sell,
                UserBuy, UserSell, account, ledgers
  <2> QED
    BY <1>1, <2>1
<1>5. ASSUME NEW c \in Code,
             V8Order(c) \/ V8Mark(c) \/ V8Release(c) \/ V8Drop(c) \/ V8Forget(c)
      PROVE  Claims'
  <2>1. /\ KIWOOM_ENV' = KIWOOM_ENV
        /\ KIWOOM_ENV = "mock" => owned' \cup marking' \subseteq owned \cup marking
    BY <1>5 DEF V8Order, V8Mark, V8Release, V8Drop, V8Forget, Unnamed, account
  <2> QED
    BY <1>1, <2>1
<1> QED
  BY <1>2, <1>3, <1>4, <1>5 DEF Next

LEMMA SharesStep ==
  ASSUME Calm
  PROVE  SharesInv /\ [Next]_vars => SharesInv'
<1> SUFFICES ASSUME SharesInv, [Next]_vars
             PROVE  Claims' /\ AllShares'
  BY TypeStep DEF SharesInv
<1>1. CASE UNCHANGED vars
  <2>1. /\ UNCHANGED <<KIWOOM_ENV, held, selling, buying, v8share, lost, owned, marking,
                        v8sold, soldToday>>
        /\ UNCHANGED <<file, mem, pc, hsnap, todo>>
    BY <1>1 DEF vars, account, ledgers, trades, cycle, memory
  <2>2. Current' = Current
    BY <2>1 DEF Current
  <2> QED
    BY <2>1, <2>2 DEF SharesInv, Claims, AllShares, Shares
<1>2. CASE Next
  <2>1. CASE \/ List \/ ListPart \/ ReadFiles \/ Looked \/ ReleaseLoad \/ ReleaseSave
             \/ Tidy \/ Save \/ Die
    BY <1>2, <2>1, ClaimsStep, SharesCycle
  <2>2. CASE UserLoad \/ UserSave \/ NextDay
    <3>1. AnyCode \in Code
      BY LegacyAssumption DEF AnyCode
    <3> QED
      BY <1>2, <2>2, <3>1, ClaimsStep, SharesClock, SharesOthers
  <2> QED
    BY <1>2, <2>1, <2>2, ClaimsStep, SharesLooks, SharesClock, SharesBroker, SharesOthers
       DEF Next
<1> QED
  BY <1>1, <1>2

\* Whatever v8 orders, marks, sells and gives up between the steps of the
\* legacy exit, and whatever the user buys meanwhile, the legacy exit puts a
\* share on sale that v8 bought only of a code that the ledger of v8 has ceased
\* to name since its order, or that a cycle could not read there (lost: the
\* purge after 30 days, a release by a listing, a file stored over).  This holds
\* as long as no cycle dies, no exit order outlives its day and the user sells
\* nothing; TLC shows each of these, and lost, to be needed.
THEOREM V8SharesNeverSold ==
  ASSUME Calm
  PROVE  Spec => []V8SharesKept
<1>1. Init => SharesInv
  <2>1. Init => Claims /\ AllShares
    BY LegacyAssumption DEF Init, Claims, AllShares, Shares, Current, Ready, Known, None, NoState
  <2> QED
    BY <2>1, TypeInit DEF SharesInv
<1>2. SharesInv => V8SharesKept
  BY DEF SharesInv, AllShares, Shares, V8SharesKept
<1> QED
  BY <1>1, <1>2, SharesStep, PTL DEF Spec

(***************************************************************************)
(* A stop is confirmed on the day it is sold.                              *)
(***************************************************************************)

\* a watch has seen the code at its stop all along, one that has ripened for
\* STOP_CONFIRM_SECONDS
WatchRight(c) ==
  Current[c] # NoPos /\ ~Current[c].exited =>
    /\ Current[c].watch = "ripe" => low[c] = "ripe"
    /\ Current[c].watch = "new"  => low[c] # "no"
Watches  == \A c \in Code : WatchRight(c)
WatchInv == TypeInv /\ Watches

LEMMA WatchesLooks ==
  ASSUME WatchInv, NEW c \in Code,
         \/ LookOdd(c) \/ LookLow(c) \/ LookFine(c)
         \/ \E s \in Sight : Sell(c, s) \/ SellRefused(c, s)
  PROVE  Watches'
<1> DEFINE p == Synced(mem[c], c, hsnap[c])
<1>1. /\ mem \in [Code -> Pos] /\ low \in [Code -> {"no", "new", "ripe"}]
      /\ hsnap[c] \in 0..MaxHeld
  BY DEF WatchInv, TypeInv, TypeOK, Pos
<1>2. /\ p \in Position
      /\ p.watch # "no" => mem[c] # NoPos /\ ~mem[c].exited /\ mem[c].watch = p.watch
  <2>1. p \in Position
    BY <1>1, SyncedType
  <2>2. Fresh(c, hsnap[c]).watch = "no"
    BY DEF Fresh
  <2>3. mem[c] # NoPos /\ ~mem[c].exited => [mem[c] EXCEPT !.rem = hsnap[c]].watch = mem[c].watch
    BY <1>1 DEF Pos, Position
  <2>4. \/ p = Fresh(c, hsnap[c])
        \/ mem[c] # NoPos /\ ~mem[c].exited /\ p = [mem[c] EXCEPT !.rem = hsnap[c]]
    BY DEF Synced
  <2> HIDE DEF p
  <2> QED
    BY <2>1, <2>2, <2>3, <2>4
\* the position a look leaves and what it sees
<1>3. ASSUME NEW q \in Position, NEW s \in Sights, Look(c, q, s),
             ~q.exited /\ q.watch = "ripe" => low[c] = "ripe" /\ s # "fine",
             ~q.exited /\ q.watch = "new" => s = "low" \/ (low[c] # "no" /\ s # "fine")
      PROVE  Watches'
  <2>1. /\ pc = "look" /\ pc' = "look" /\ mem' = [mem EXCEPT ![c] = q]
        /\ \A d \in Code \ {c} : low'[d] = low[d]
    BY <1>3 DEF Look
  <2>2. /\ low[c] = "ripe" /\ s # "fine" => low'[c] = "ripe"
        /\ s = "low" \/ (low[c] # "no" /\ s # "fine") => low'[c] # "no"
    <3> DEFINE l == CASE s = "fine" -> "no" [] s = "low" /\ low[c] = "no" -> "new"
                      [] OTHER -> low[c]
    <3>1. /\ low[c] = "ripe" /\ s # "fine" => l = "ripe"
          /\ s = "low" \/ (low[c] # "no" /\ s # "fine") => l # "no"
      BY DEF Sights
    <3>2. low' = [low EXCEPT ![c] = l]
      BY <1>3 DEF Look
    <3> HIDE DEF l
    <3> QED
      BY <1>1, <3>1, <3>2
  <2> QED
    BY <1>1, <1>3, <2>1, <2>2 DEF WatchInv, Watches, WatchRight, Current
<1>4. /\ pc = "look" /\ (p.watch = "ripe" => low[c] = "ripe")
      /\ p.watch = "new" => low[c] # "no"
  <2>1. pc = "look" /\ WatchRight(c)
    BY DEF WatchInv, Watches, LookOdd, LookLow, LookFine, Sell, SellRefused, Look
  <2> HIDE DEF p
  <2> QED
    BY <1>2, <2>1 DEF WatchRight, Current
<1> HIDE DEF p
<1>5. ASSUME NEW w \in {"new", "no"}
      PROVE  [p EXCEPT !.watch = w] \in Position /\ [p EXCEPT !.watch = w].watch = w
  BY <1>2 DEF Position, Watch
<1> USE DEF p
<1>6. CASE LookOdd(c)
  <2>1. Look(c, p, "odd") /\ "odd" \in Sights
    BY <1>6 DEF LookOdd, Sights
  <2> HIDE DEF p
  <2> QED
    BY <1>2, <1>3, <1>4, <2>1
<1>7. CASE LookLow(c) \/ LookFine(c)
  <2>1. PICK w \in {"new", "no"}, s \in Sights :
          Look(c, [p EXCEPT !.watch = w], s) /\ (w = "new" => s = "low")
    BY <1>7 DEF LookLow, LookFine, Sights
  <2> HIDE DEF p
  <2> QED
    BY <1>3, <1>5, <2>1
<1>8. ASSUME NEW s \in Sight, Sell(c, s)
      PROVE  Watches'
  <2> DEFINE q == [p EXCEPT !.rem = 0, !.exited = TRUE, !.soldSince = TRUE]
  <2>1. Look(c, q, s) /\ s \in Sights
    BY <1>8 DEF Sell, Sight, Sights
  <2>2. q \in Position /\ q.exited
    BY <1>2, UpdateType DEF Position, Watch
  <2> HIDE DEF q
  <2> QED
    BY <1>3, <2>1, <2>2
<1>9. ASSUME NEW s \in Sight, SellRefused(c, s)
      PROVE  Watches'
  <2>1. /\ s \in Sights
        /\ \/ s = "fine" /\ Look(c, [p EXCEPT !.watch = "no"], s)
           \/ s # "fine" /\ Look(c, p, s)
    BY <1>9 DEF SellRefused, Sight, Sights
  <2> HIDE DEF p
  <2> QED
    BY <1>2, <1>3, <1>4, <1>5, <2>1
<1> QED
  BY <1>6, <1>7, <1>8, <1>9

LEMMA WatchesStep ==
  ASSUME Faults = 0
  PROVE  WatchInv /\ [Next]_vars => WatchInv'
<1> SUFFICES ASSUME WatchInv, [Next]_vars
             PROVE  Watches'
  BY TypeStep DEF WatchInv
<1>1. /\ file \in [Code -> Pos] /\ mem \in [Code -> Pos]
      /\ low \in [Code -> {"no", "new", "ripe"}] /\ TypeInv
      /\ \A d \in Code : WatchRight(d)
  BY DEF WatchInv, TypeInv, TypeOK, Pos, Watches
\* no position ripens and no sighting is forgotten
<1>2. ASSUME low' = low,
             \A d \in Code : Current'[d] # NoPos =>
                /\ Current[d] # NoPos
                /\ Current'[d].exited = Current[d].exited
                /\ Current'[d].watch = Current[d].watch
      PROVE  Watches'
  BY <1>1, <1>2 DEF Watches, WatchRight
<1>3. CASE \/ List \/ ListPart \/ ReadFiles \/ Looked \/ ReleaseLoad \/ ReleaseSave
           \/ Tidy \/ Save
  <2>1. low' = low /\ \A d \in Code : Current'[d] = Current[d] \/ Current'[d] = NoPos
    BY <1>3 DEF List, ListPart, ListWithout, ReadFiles, Looked, ReleaseLoad, ReleaseSave,
                Tidy, Save, Forget, memory, Current
  <2> QED
    BY <1>2, <2>1
\* no cycle dies
<1>4. CASE Die
  BY <1>4 DEF Die, WatchInv, TypeInv, TypeOK
<1>5. ASSUME NEW c \in Code,
             \/ FillSale(c) \/ FillBuy(c) \/ Settle(c) \/ Finalize(c) \/ FireBuy(c)
      PROVE  Watches'
  <2>1. /\ UNCHANGED <<low, pc, mem>>
        /\ \A d \in Code : \/ file'[d] = file[d] \/ file'[d] = Reversed(file[d])
                          \/ file'[d] = Fresh(d, Lot)
    BY <1>1, <1>5 DEF FillSale, FillBuy, Settle, Finalize, FireBuy, Left, cycle, memory
  <2>2. ASSUME NEW d \in Code
        PROVE  file'[d] = NoPos \/ file'[d].watch = "no"
               \/ (file[d] # NoPos /\ file'[d].exited = file[d].exited
                                   /\ file'[d].watch = file[d].watch)
    <3>1. file[d] \in Pos
      BY <1>1
    <3>2. Fresh(d, Lot).watch = "no"
      BY DEF Fresh
    <3>3. \/ Reversed(file[d]) = NoPos
          \/ (file[d] # NoPos /\ Reversed(file[d]).exited = file[d].exited
                              /\ Reversed(file[d]).watch = file[d].watch)
      BY <3>1, NoPosAssumption DEF Reversed, Pos, Position
    <3> QED
      BY <2>1, <3>2, <3>3
  <2> QED
    BY <1>1, <2>1, <2>2 DEF Watches, WatchRight, Current
<1>6. ASSUME NEW c \in Code, Confirm(c)
      PROVE  Watches'
  <2>1. /\ pc = "idle" /\ pc' = "idle"
        /\ low' = [low EXCEPT ![c] = IF @ = "new" THEN "ripe" ELSE @]
        /\ file[c] # NoPos /\ file[c].watch = "new"
        /\ file' = [file EXCEPT ![c].watch = "ripe"]
    BY <1>6 DEF Confirm, cycle
  <2>2. \A d \in Code \ {c} : file'[d] = file[d] /\ low'[d] = low[d]
    BY <1>1, <2>1
  <2>3. ~file[c].exited => low'[c] = "ripe"
    BY <1>1, <2>1 DEF WatchRight, Current
  <2>4. file'[c].watch = "ripe" /\ file'[c].exited = file[c].exited
    BY <1>1, <2>1 DEF Pos, Position
  <2> QED
    BY <1>1, <2>1, <2>2, <2>3, <2>4 DEF Watches, WatchRight, Current
<1>7. CASE NextDay
  <2>1. pc = "idle" /\ pc' = "idle" /\ file' = [d \in Code |-> Aged(file[d])]
    BY <1>7 DEF NextDay, cycle
  <2>2. ASSUME NEW d \in Code
        PROVE  Aged(file[d]) = NoPos \/ Aged(file[d]).watch \notin {"new", "ripe"}
    <3> DEFINE p == file[d]
               age == Smaller(p.age + 1, MAX_HOLD_DAYS)
               watch == IF p.watch = "no" THEN "no" ELSE "old"
    <3>1. CASE p = NoPos
      BY <3>1 DEF Aged
    <3>2. CASE p \in Position
      <4>1. Aged(p) = [p EXCEPT !.age = age, !.watch = watch]
        BY <3>2, NoPosAssumption DEF Aged
      <4>2. watch \notin {"new", "ripe"}
        OBVIOUS
      <4> HIDE DEF age, watch
      <4> QED
        BY <3>2, <4>1, <4>2 DEF Position
    <3> QED
      BY <1>1, <3>1, <3>2 DEF Pos
  <2> QED
    BY <2>1, <2>2 DEF Watches, WatchRight, Current
<1>8. ASSUME NEW c \in Code,
             \/ V8Order(c) \/ V8Mark(c) \/ V8Track(c) \/ V8Release(c) \/ V8Drop(c)
             \/ V8Forget(c) \/ UserBuy(c) \/ UserLoad \/ UserSave
      PROVE  Watches'
  <2>1. UNCHANGED <<low, pc, mem, file>>
    BY <1>8 DEF V8Order, V8Mark, V8Track, V8Release, V8Drop, V8Forget, UserBuy, UserLoad,
                UserSave, cycle, memory
  <2>2. Current' = Current
    BY <2>1 DEF Current
  <2> QED
    BY <1>2, <2>1, <2>2
<1>9. ASSUME NEW c \in Code, V8Sell(c) \/ UserSell(c)
      PROVE  Watches'
  <2>1. UNCHANGED <<low, pc>> /\ file' = Noted(file, c) /\ mem' = Noted(mem, c)
    BY <1>9 DEF V8Sell, UserSell, Left
  <2>2. ASSUME NEW s \in [Code -> Pos], NEW d \in Code, Noted(s, c)[d] # NoPos
        PROVE  /\ s[d] # NoPos
               /\ Noted(s, c)[d].exited = s[d].exited /\ Noted(s, c)[d].watch = s[d].watch
    <3>1. CASE d # c
      <4>1. \A e \in Code \ {c} : Noted(s, c)[e] = s[e]
        BY NotedType
      <4> QED
        BY <2>2, <3>1, <4>1
    <3>2. CASE d = c
      <4>1. s[c] # NoPos /\ Noted(s, c)[c] = [s[c] EXCEPT !.soldSince = TRUE]
        BY <2>2, <3>2, NotedType
      <4>2. s[c] \in Position
        BY <4>1 DEF Pos
      <4> QED
        BY <3>2, <4>1, <4>2 DEF Position
    <3> QED
      BY <3>1, <3>2
  <2>3. CASE pc \in {"idle", "listed"}
    <3>1. Current = file /\ Current' = Noted(file, c)
      BY <2>1, <2>3 DEF Current
    <3> QED
      BY <1>1, <1>2, <2>1, <2>2, <3>1
  <2>4. CASE pc \notin {"idle", "listed"}
    <3>1. Current = mem /\ Current' = Noted(mem, c)
      BY <2>1, <2>4 DEF Current
    <3> QED
      BY <1>1, <1>2, <2>1, <2>2, <3>1
  <2> QED
    BY <2>3, <2>4
<1>10. CASE UNCHANGED vars
  <2>1. UNCHANGED <<low, pc, mem, file>>
    BY <1>10 DEF vars, cycle, memory
  <2>2. Current' = Current
    BY <2>1 DEF Current
  <2> QED
    BY <1>2, <2>1, <2>2
<1>11. CASE Next
  <2>1. AnyCode \in Code
    BY LegacyAssumption DEF AnyCode
  <2> QED
    BY <1>3, <1>4, <1>5, <1>6, <1>7, <1>8, <1>9, <1>11, <2>1, WatchesLooks DEF Next
<1> QED
  BY <1>10, <1>11

\* Only the evaluation puts shares on sale.
LEMMA OnSale ==
  ASSUME TypeInv, [Next]_vars, NEW c \in Code, selling'[c] > selling[c]
  PROVE  \E s \in Sight : Sell(c, s)
<1>1. selling \in [Code -> Nat] /\ held \in [Code -> Nat]
  BY LegacyAssumption DEF TypeInv, TypeOK
<1>2. CASE UNCHANGED <<selling>>
  BY <1>1, <1>2
<1>3. CASE NextDay
  BY <1>1, <1>3 DEF NextDay, None
<1>4. ASSUME NEW d \in Code, FillSale(d) \/ V8Sell(d) \/ UserSell(d)
      PROVE  FALSE
  <2>1. \E n \in Nat : n <= selling[d] /\ selling' = [selling EXCEPT ![d] = n]
    BY <1>1, <1>4 DEF FillSale, V8Sell, UserSell, Left
  <2> QED
    BY <1>1, <2>1
<1>5. ASSUME NEW d \in Code, NEW s \in Sight, Sell(d, s)
      PROVE  d = c
  BY <1>1, <1>5 DEF Sell
<1>6. CASE \/ List \/ ListPart \/ ReadFiles \/ Looked \/ ReleaseLoad \/ ReleaseSave
           \/ Tidy \/ Save \/ Die \/ UserLoad \/ UserSave \/ UNCHANGED vars
  <2>1. selling' = selling
    BY <1>6 DEF List, ListPart, ListWithout, ReadFiles, Looked, ReleaseLoad, ReleaseSave,
                Tidy, Save, Die, UserLoad, UserSave, account, vars
  <2> QED
    BY <1>2, <2>1
<1>7. ASSUME NEW d \in Code,
             \/ LookOdd(d) \/ LookLow(d) \/ LookFine(d) \/ \E s \in Sight : SellRefused(d, s)
             \/ Confirm(d) \/ FillBuy(d) \/ Settle(d) \/ Finalize(d) \/ FireBuy(d)
             \/ V8Order(d) \/ V8Mark(d) \/ V8Track(d) \/ V8Release(d) \/ V8Drop(d)
             \/ V8Forget(d) \/ UserBuy(d)
      PROVE  FALSE
  <2>1. selling' = selling
    BY <1>7 DEF LookOdd, LookLow, LookFine, SellRefused, Quiet, Confirm, FillBuy, Settle,
                Finalize, FireBuy, V8Order, V8Mark, V8Track, V8Release, V8Drop, V8Forget,
                UserBuy, account
  <2> QED
    BY <1>1, <2>1
<1> QED
  BY <1>3, <1>4, <1>5, <1>6, <1>7 DEF Next

\* As long as no cycle dies, whatever is sold is either overdue or has been at
\* its stop in every look of the last minute of that day.
THEOREM StopsAreConfirmed ==
  ASSUME Faults = 0
  PROVE  Spec => StopConfirmed
<1> DEFINE Sound == \A c \in Code : selling'[c] > selling[c] =>
                      low[c] = "ripe" \/ (mem[c] # NoPos /\ Overdue(mem[c]))
<1>1. Init => WatchInv
  <2>1. Init => Watches
    BY DEF Init, Watches, WatchRight, Current, NoState
  <2> QED
    BY <2>1, TypeInit DEF WatchInv
<1>2. WatchInv /\ [Next]_vars => [Sound]_vars
  <2> SUFFICES ASSUME WatchInv, [Next]_vars, NEW c \in Code, selling'[c] > selling[c]
               PROVE  low[c] = "ripe" \/ (mem[c] # NoPos /\ Overdue(mem[c]))
    OBVIOUS
  <2> DEFINE p == Synced(mem[c], c, hsnap[c])
  <2>1. PICK s \in Sight : Sell(c, s)
    BY OnSale DEF WatchInv
  <2>2. mem[c] \in Pos /\ hsnap[c] \in 0..MaxHeld
    BY DEF WatchInv, TypeInv, TypeOK, Pos
  <2>3. /\ p.watch = "ripe" => Ready(mem[c]) /\ mem[c].watch = "ripe"
        /\ Overdue(p) => Ready(mem[c]) /\ Overdue(mem[c])
    BY <2>2, SyncedReady
  <2>4. p.watch = "ripe" \/ Overdue(p)
    BY <2>1 DEF Sell, Due, Sight
  <2>5. Current = mem
    BY <2>1 DEF Sell, Look, Current
  <2>6. WatchRight(c)
    BY DEF WatchInv, Watches
  <2> HIDE DEF p
  <2> QED
    BY <2>3, <2>4, <2>5, <2>6 DEF Ready, WatchRight
<1> QED
  BY <1>1, <1>2, WatchesStep, PTL DEF Spec, StopConfirmed

(***************************************************************************)
(* The age of a position is kept while its shares are held.  A cycle takes *)
(* a position away only if the history shows its sale or a purchase of an  *)
(* earlier day that was never filled, so both must be right for shares     *)
(* that are still there: the history knows of whatever was sold, and only  *)
(* a purchase of today has no fill.                                        *)
(***************************************************************************)
Reconciled == Faults = 0 /\ "unreconciled" \notin Env

\* shares seen and not sold since have a position, as old and as large
Seen(c) ==
  /\ Current[c] # NoPos /\ ~Current[c].exited /\ ~Current[c].soldSince
  /\ Current[c].age >= born[c] /\ Current[c].rem >= looked[c]
  /\ looked[c] <= held[c] /\ selling[c] = 0 /\ held[c] > 0
  /\ pc \in {"listed", "look"} /\ hsnap[c] > 0 => hsnap[c] >= looked[c]

Aging(c) ==
  /\ born[c] # Unborn => Seen(c)
  /\ selling[c] > 0 => c \in soldToday /\ Known(Current[c])
  /\ pc \in {"listed", "look"} /\ hsnap[c] > held[c] => c \in soldToday /\ Known(Current[c])
  /\ pc = "look" /\ c \in todo => hsnap[c] > 0
  /\ record[c] = "open" => held[c] = 0 /\ buying[c] > 0
  /\ record[c] # "no" /\ Current[c] # NoPos => Current[c].age = 0 \/ Current[c].soldSince
  /\ held[c] = 0 => Known(Current[c]) \/ (record[c] = "open" /\ Current[c].rem <= Lot)
  /\ Current[c] # NoPos /\ Current[c].exited => Current[c].soldSince

AllAging == \A c \in Code : Aging(c)
AgeInv   == TypeInv /\ AllAging

\* A look keeps the age and the history of a position that it finds as large
\* as before, and begins others today.
LEMMA SyncedAge ==
  ASSUME NEW p \in Pos, NEW c \in Code, NEW q \in 0..MaxHeld
  PROVE  LET r == Synced(p, c, q) IN
         /\ p # NoPos /\ ~p.exited /\ q <= p.rem
              => r.age = p.age /\ r.soldSince = p.soldSince
         /\ r.age = 0 \/ (p # NoPos /\ r.age = p.age /\ r.soldSince = p.soldSince)
<1> DEFINE r == Synced(p, c, q)
<1>1. CASE p = NoPos \/ (p # NoPos /\ (p.exited \/ q > p.rem))
  <2>1. r = Fresh(c, q)
    BY <1>1 DEF Synced
  <2>2. r.age = 0
    BY <2>1 DEF Fresh
  <2>3. p \in Position => p.rem \in Int /\ q \in Int
    BY LegacyAssumption DEF Position
  <2>4. ~(p # NoPos /\ ~p.exited /\ q <= p.rem)
    BY <1>1, <2>3 DEF Pos
  <2> QED
    BY <2>2, <2>4
<1>2. CASE p # NoPos /\ ~(p.exited \/ q > p.rem)
  <2>1. r = [p EXCEPT !.rem = q]
    BY <1>2 DEF Synced
  <2>2. p \in Position
    BY <1>2 DEF Pos
  <2>3. r.age = p.age /\ r.soldSince = p.soldSince
    BY <2>1, <2>2 DEF Position
  <2> QED
    BY <1>2, <2>3
<1> QED
  BY <1>1, <1>2

\* What a look that sells nothing leaves.
LEMMA LookAge ==
  ASSUME TypeInv, NEW c \in Code,
         \/ LookOdd(c) \/ LookLow(c) \/ LookFine(c)
         \/ \E s \in Sight : SellRefused(c, s)
  PROVE  \E q \in Position, s \in Sights :
            /\ Look(c, q, s) /\ Quiet
            /\ q.rem = hsnap[c] /\ ~q.exited
            /\ q.age = Synced(mem[c], c, hsnap[c]).age
            /\ q.soldSince = Synced(mem[c], c, hsnap[c]).soldSince
<1> DEFINE p == Synced(mem[c], c, hsnap[c])
           Same(q) == /\ q.rem = hsnap[c] /\ ~q.exited
                      /\ q.age = p.age /\ q.soldSince = p.soldSince
<1>1. p \in Position /\ Same(p)
  <2>1. mem[c] \in Pos /\ hsnap[c] \in 0..MaxHeld
    BY DEF TypeInv, TypeOK, Pos
  <2>2. p \in Position /\ p.rem = hsnap[c] /\ ~p.exited
    BY <2>1, SyncedType
  <2> HIDE DEF p
  <2> QED
    BY <2>2
<1> HIDE DEF p
<1>2. ASSUME NEW w \in {"new", "no"}
      PROVE  [p EXCEPT !.watch = w] \in Position /\ Same([p EXCEPT !.watch = w])
  BY <1>1, <1>2 DEF Position, Watch
<1> HIDE DEF Same
<1> SUFFICES \E q \in Position, s \in Sights : Look(c, q, s) /\ Quiet /\ Same(q)
  BY DEF Same, p
<1>3. CASE LookOdd(c)
  <2>1. Look(c, p, "odd") /\ Quiet /\ "odd" \in Sights
    BY <1>3 DEF LookOdd, Sights, p
  <2> QED
    BY <1>1, <2>1
<1>4. CASE LookLow(c) \/ LookFine(c)
  <2>1. PICK w \in {"new", "no"}, s \in Sights : Look(c, [p EXCEPT !.watch = w], s) /\ Quiet
    BY <1>4 DEF LookLow, LookFine, Sights, p
  <2> QED
    BY <1>2, <2>1
<1>5. ASSUME NEW s \in Sight, SellRefused(c, s)
      PROVE  \E q \in Position, t \in Sights : Look(c, q, t) /\ Quiet /\ Same(q)
  <2>1. Quiet /\ (Look(c, p, s) \/ Look(c, [p EXCEPT !.watch = "no"], s))
    BY <1>5 DEF SellRefused, p
  <2>2. s \in Sights
    BY DEF Sights, Sight
  <2> QED
    BY <1>1, <1>2, <2>1, <2>2
<1> QED
  BY <1>3, <1>4, <1>5

\* The evaluation.
LEMMA AgingLooks ==
  ASSUME AgeInv, NEW c \in Code,
         \/ LookOdd(c) \/ LookLow(c) \/ LookFine(c)
         \/ \E s \in Sight : Sell(c, s) \/ SellRefused(c, s)
  PROVE  AllAging'
<1>1. /\ held \in [Code -> Nat] /\ selling \in [Code -> Nat] /\ looked \in [Code -> Nat]
      /\ hsnap \in [Code -> 0..MaxHeld] /\ mem \in [Code -> Pos] /\ born \in [Code -> 0..Unborn]
      /\ TypeInv /\ hsnap[c] \in Nat /\ mem[c] \in Pos
  BY LegacyAssumption DEF AgeInv, TypeInv, TypeOK, Pos
<1>2. Aging(c)
  BY DEF AgeInv, AllAging
\* the codes the look is not at
<1>3. ASSUME NEW q \in Position, NEW s, Look(c, q, s), record' = record, soldToday \subseteq soldToday',
             NEW d \in Code \ {c}, selling'[d] = selling[d]
      PROVE  Aging(d)'
  <2>1. /\ pc = "look" /\ pc' = "look" /\ mem'[d] = mem[d] /\ born'[d] = born[d]
        /\ looked'[d] = looked[d] /\ todo' \subseteq todo
        /\ UNCHANGED <<held, buying, hsnap>>
    BY <1>1, <1>3 DEF Look
  <2>2. Current'[d] = Current[d]
    BY <2>1 DEF Current
  <2>3. Aging(d)
    BY DEF AgeInv, AllAging
  <2> QED
    BY <1>3, <2>1, <2>2, <2>3 DEF Aging, Seen
<1>4. CASE \/ LookOdd(c) \/ LookLow(c) \/ LookFine(c)
           \/ \E s \in Sight : SellRefused(c, s)
  <2> DEFINE p == Synced(mem[c], c, hsnap[c])
  <2>1. PICK q \in Position, s \in Sights :
            /\ Look(c, q, s) /\ Quiet
            /\ q.rem = hsnap[c] /\ ~q.exited
            /\ q.age = p.age /\ q.soldSince = p.soldSince
    BY <1>1, <1>4, LookAge
  <2>2. /\ mem[c] # NoPos /\ ~mem[c].exited /\ hsnap[c] <= mem[c].rem
              => p.age = mem[c].age /\ p.soldSince = mem[c].soldSince
        /\ p.age = 0 \/ (mem[c] # NoPos /\ p.age = mem[c].age
                                        /\ p.soldSince = mem[c].soldSince)
        /\ Known(mem[c]) /\ c \in soldToday => p.soldSince
    BY <1>1, SyncedAge, SyncedReady
  <2> HIDE DEF p
  <2>3. /\ pc = "look" /\ c \in todo /\ todo' = todo \ {c} /\ mem'[c] = q
        /\ UNCHANGED <<held, selling, buying, soldToday, record, pc, hsnap>>
    BY <1>1, <2>1 DEF Look, Quiet, trades
  <2>4. q # NoPos /\ q.age \in Nat
    BY <2>1, NoPosAssumption DEF Position
  <2>5. Current'[c] = q /\ Current[c] = mem[c]
    BY <2>3 DEF Current
  <2>6. hsnap[c] > 0
    BY <1>2, <2>3 DEF Aging
  <2>7. hsnap[c] > held[c] => q.soldSince /\ c \in soldToday
    BY <1>2, <2>1, <2>2, <2>3, <2>5 DEF Aging
  <2>8. born'[c] # Unborn => Seen(c)'
    <3>1. CASE held[c] > 0 /\ selling[c] = 0 /\ hsnap[c] > looked[c]
      <4>1. looked'[c] = hsnap[c] /\ born'[c] = IF q.soldSince THEN Unborn ELSE 0
        BY <1>1, <2>1, <3>1 DEF Look
      <4> QED
        BY <1>1, <2>1, <2>3, <2>4, <2>5, <2>6, <2>7, <3>1, <4>1 DEF Seen
    <3>2. CASE ~(held[c] > 0 /\ selling[c] = 0 /\ hsnap[c] > looked[c])
      <4>1. looked'[c] = looked[c] /\ born'[c] = born[c]
        BY <1>1, <2>1, <3>2 DEF Look
      <4>2. ASSUME born[c] # Unborn
            PROVE  Seen(c)'
        <5>1. Seen(c)
          BY <1>2, <4>2 DEF Aging
        <5>2. hsnap[c] = looked[c]
          BY <1>1, <2>3, <2>6, <3>2, <5>1 DEF Seen
        <5>3. mem[c] # NoPos /\ ~mem[c].exited /\ hsnap[c] <= mem[c].rem
          BY <1>1, <2>5, <5>1, <5>2 DEF Seen, Pos, Position
        <5> QED
          BY <1>1, <2>1, <2>2, <2>3, <2>4, <2>5, <4>1, <5>1, <5>2, <5>3 DEF Seen
      <4> QED
        BY <4>1, <4>2
    <3> QED
      BY <3>1, <3>2
  <2>9. Aging(c)'
    BY <1>1, <1>2, <2>1, <2>2, <2>3, <2>4, <2>5, <2>6, <2>7, <2>8 DEF Aging, Known
  <2>10. \A d \in Code \ {c} : Aging(d)'
    BY <1>3, <2>1, <2>3
  <2> QED
    BY <2>9, <2>10 DEF AllAging
<1>5. ASSUME NEW s \in Sight, Sell(c, s)
      PROVE  AllAging'
  <2> DEFINE p == Synced(mem[c], c, hsnap[c])
             q == [p EXCEPT !.rem = 0, !.exited = TRUE, !.soldSince = TRUE]
  <2>1. p \in Position
    BY <1>1, SyncedType
  <2>2. q \in Position /\ q.exited /\ q.soldSince
    BY <2>1, UpdateType DEF Position
  <2>3. /\ Look(c, q, s) /\ selling' = [selling EXCEPT ![c] = @ + p.rem]
        /\ soldToday' = soldToday \cup {c} /\ record' = record
    BY <1>5 DEF Sell
  <2> HIDE DEF p, q
  <2>4. /\ pc = "look" /\ c \in todo /\ todo' = todo \ {c} /\ mem'[c] = q
        /\ born'[c] = Unborn
        /\ UNCHANGED <<held, buying, pc, hsnap>>
    BY <1>1, <2>2, <2>3 DEF Look
  <2>5. Current'[c] = q /\ q # NoPos
    BY <2>2, <2>4, NoPosAssumption DEF Current
  <2>6. Aging(c)'
    BY <1>2, <2>2, <2>3, <2>4, <2>5 DEF Aging, Known
  <2>7. \A d \in Code \ {c} : selling'[d] = selling[d]
    BY <1>1, <2>3
  <2>8. \A d \in Code \ {c} : Aging(d)'
    BY <1>3, <2>2, <2>3, <2>7
  <2> QED
    BY <2>6, <2>8 DEF AllAging
<1> QED
  BY <1>4, <1>5

\* The rest of the cycle.
LEMMA AgingCycle ==
  ASSUME AgeInv, Reconciled,
         \/ List \/ ListPart \/ ReadFiles \/ Looked \/ ReleaseLoad \/ ReleaseSave
         \/ Tidy \/ Save \/ Die
  PROVE  AllAging'
<1>1. /\ held \in [Code -> Nat] /\ looked \in [Code -> Nat] /\ \A d \in Code : Aging(d)
      /\ file \in [Code -> Pos] /\ mem \in [Code -> Pos]
  BY LegacyAssumption DEF AgeInv, AllAging, TypeInv, TypeOK, Pos
<1>2. UNCHANGED <<held, selling, buying, soldToday, born, looked>>
  BY DEF List, ListPart, ListWithout, ReadFiles, Looked, ReleaseLoad, ReleaseSave, Tidy,
         Save, Die, account, ledgers, trades, memory
<1>3. CASE List \/ ListPart
  <2>1. /\ pc' = "listed" /\ Current' = Current /\ record' = record
        /\ \A d \in Code : hsnap'[d] = held[d] \/ hsnap'[d] = 0
    BY <1>3 DEF List, ListPart, ListWithout, Current, trades
  <2>2. ASSUME NEW d \in Code
        PROVE  Aging(d)'
    <3>1. Aging(d)
      BY <1>1
    <3>2. ~(hsnap'[d] > held[d])
      BY <1>1, <2>1
    <3> QED
      BY <1>1, <1>2, <2>1, <3>1, <3>2 DEF Aging, Seen
  <2> QED
    BY <2>2 DEF AllAging
<1>4. CASE ReadFiles
  <2>1. /\ pc = "listed" /\ pc' = "look" /\ hsnap' = hsnap /\ Current' = Current
        /\ record' = record
        /\ \A d \in todo' : hsnap[d] > 0
    BY <1>4 DEF ReadFiles, Current, Of, trades
  <2>2. ASSUME NEW d \in Code
        PROVE  Aging(d)'
    <3>1. Aging(d)
      BY <1>1
    <3> QED
      BY <1>2, <2>1, <3>1 DEF Aging, Seen
  <2> QED
    BY <2>2 DEF AllAging
<1>5. CASE Looked \/ ReleaseLoad \/ ReleaseSave \/ Save
  <2>1. pc' \in {"release", "releasing", "save", "idle"} /\ Current' = Current /\ record' = record
    BY <1>5 DEF Looked, ReleaseLoad, ReleaseSave, Save, Forget, Current, trades
  <2>2. ASSUME NEW d \in Code
        PROVE  Aging(d)'
    <3>1. Aging(d)
      BY <1>1
    <3> QED
      BY <1>2, <2>1, <3>1 DEF Aging, Seen
  <2> QED
    BY <2>2 DEF AllAging
\* what goes is sold, or has no fill and is of an earlier day
<1>6. CASE Tidy
  <2>1. pc' = "save" /\ Current = mem /\ Current' = mem'
    BY <1>6 DEF Tidy, Current
  <2>2. ASSUME NEW d \in Code
        PROVE  \/ (mem'[d] = mem[d] /\ record'[d] = record[d])
               \/ /\ mem'[d] = NoPos /\ mem[d] # NoPos
                  /\ \/ mem[d].soldSince /\ record'[d] = record[d]
                     \/ Stale(d) /\ record'[d] = "no"
    BY <1>6 DEF Tidy
  <2>3. ASSUME NEW d \in Code
        PROVE  Aging(d)'
    <3>1. Aging(d)
      BY <1>1
    <3>2. CASE mem'[d] = mem[d] /\ record'[d] = record[d]
      BY <1>2, <2>1, <3>1, <3>2 DEF Aging, Seen
    <3>3. CASE mem'[d] = NoPos
      <4>1. (mem[d] # NoPos /\ mem[d].soldSince) \/ Stale(d) \/ mem[d] = NoPos
        BY <2>2, <3>3
      <4>2. Stale(d) /\ mem[d] # NoPos => mem[d].soldSince
        BY <2>1, <3>1 DEF Stale, Aging
      <4>3. born[d] = Unborn
        BY <2>1, <3>1, <4>1, <4>2 DEF Aging, Seen
      <4>4. record'[d] = "open" => record[d] = "open"
        BY <2>2
      <4> QED
        BY <1>2, <2>1, <3>1, <3>3, <4>3, <4>4 DEF Aging, Known
    <3> QED
      BY <2>2, <3>2, <3>3
  <2> QED
    BY <2>3 DEF AllAging
\* no cycle dies
<1>7. CASE Die
  BY <1>7 DEF Die, Reconciled, AgeInv, TypeInv, TypeOK
<1> QED
  BY <1>3, <1>4, <1>5, <1>6, <1>7

\* The clock: the positions grow as old as the shares, and every purchase of
\* the day has been settled or taken back.
LEMMA AgingClock ==
  ASSUME AgeInv, Reconciled, NEW c \in Code, Confirm(c) \/ NextDay
  PROVE  AllAging'
<1>1. /\ held \in [Code -> Nat] /\ looked \in [Code -> Nat] /\ \A d \in Code : Aging(d)
      /\ file \in [Code -> Pos] /\ born \in [Code -> 0..Unborn]
  BY LegacyAssumption DEF AgeInv, AllAging, TypeInv, TypeOK, Pos
<1>2. /\ pc = "idle" /\ pc' = "idle" /\ Current = file /\ Current' = file'
      /\ UNCHANGED <<held, looked, record>>
  BY DEF Confirm, NextDay, Current, account, cycle, trades
<1>3. CASE Confirm(c)
  <2>1. /\ UNCHANGED <<selling, buying, soldToday, born, todo>>
        /\ file' = file \/ (file[c] # NoPos /\ file' = [file EXCEPT ![c].watch = "ripe"])
    BY <1>3 DEF Confirm, account, trades, cycle
  <2>2. ASSUME NEW d \in Code
        PROVE  file'[d] = NoPos <=> file[d] = NoPos
    <3>1. CASE file' = file
      BY <3>1
    <3>2. CASE file[c] # NoPos /\ file' = [file EXCEPT ![c].watch = "ripe"]
      <4> DEFINE q == [file[c] EXCEPT !.watch = "ripe"]
      <4>1. q \in Position
        BY <1>1, <3>2, UpdateType DEF Pos, Watch
      <4>2. file' = [file EXCEPT ![c] = q]
        BY <3>2
      <4> HIDE DEF q
      <4> QED
        BY <1>1, <3>2, <4>1, <4>2, NoPosAssumption
    <3> QED
      BY <2>1, <3>1, <3>2
  <2>3. ASSUME NEW d \in Code, file[d] # NoPos
        PROVE  /\ file'[d].age = file[d].age /\ file'[d].rem = file[d].rem
               /\ file'[d].exited = file[d].exited /\ file'[d].soldSince = file[d].soldSince
    <3>1. file[d] \in Position
      BY <1>1, <2>3 DEF Pos
    <3> QED
      BY <1>1, <2>1, <3>1 DEF Position
  <2>4. ASSUME NEW d \in Code
        PROVE  Aging(d)'
    <3>1. Aging(d)
      BY <1>1
    <3>2. CASE file[d] = NoPos
      BY <1>2, <2>1, <2>2, <3>1, <3>2 DEF Aging, Seen, Known
    <3>3. CASE file[d] # NoPos
      <4>1. /\ file'[d] # NoPos /\ file'[d].age = file[d].age /\ file'[d].rem = file[d].rem
            /\ file'[d].exited = file[d].exited /\ file'[d].soldSince = file[d].soldSince
        BY <2>2, <2>3, <3>3
      <4> QED
        BY <1>2, <2>1, <3>1, <3>3, <4>1 DEF Aging, Seen, Known
    <3> QED
      BY <3>2, <3>3
  <2> QED
    BY <2>4 DEF AllAging
<1>4. CASE NextDay
  <2>1. /\ selling' = None /\ file' = [d \in Code |-> Aged(file[d])]
        /\ \A d \in Code : record[d] = "no"
        /\ born' = [d \in Code |-> IF born[d] = Unborn THEN Unborn
                                   ELSE Smaller(born[d] + 1, MAX_HOLD_DAYS)]
    BY <1>4 DEF NextDay, Reconciled
  <2>2. ASSUME NEW d \in Code
        PROVE  /\ file[d] = NoPos => Aged(file[d]) = NoPos
               /\ file[d] # NoPos =>
                    /\ Aged(file[d]) # NoPos /\ Aged(file[d]).rem = file[d].rem
                    /\ Aged(file[d]).exited = file[d].exited
                    /\ Aged(file[d]).soldSince = file[d].soldSince
                    /\ Aged(file[d]).age = Smaller(file[d].age + 1, MAX_HOLD_DAYS)
    <3> DEFINE p == file[d]
               age == Smaller(p.age + 1, MAX_HOLD_DAYS)
               watch == IF p.watch = "no" THEN "no" ELSE "old"
    <3>1. CASE p = NoPos
      BY <3>1 DEF Aged
    <3>2. CASE p \in Position
      <4>1. Aged(p) = [p EXCEPT !.age = age, !.watch = watch]
        BY <3>2, NoPosAssumption DEF Aged
      <4>2. Aged(p) # NoPos => Aged(p).age = age /\ Aged(p).rem = p.rem
                                 /\ Aged(p).exited = p.exited /\ Aged(p).soldSince = p.soldSince
        <5> HIDE DEF age, watch
        <5> QED
          BY <3>2, <4>1 DEF Position
      <4>3. Aged(p) # NoPos
        <5>1. age \in 0..MAX_HOLD_DAYS
          BY <3>2, LegacyAssumption DEF Smaller, Position
        <5>2. watch \in Watch
          BY DEF Watch
        <5> HIDE DEF age, watch
        <5>3. Aged(p) \in Position
          BY <3>2, <4>1, <5>1, <5>2 DEF Position
        <5> QED
          BY <5>3, NoPosAssumption
      <4> QED
        BY <3>2, <4>2, <4>3, NoPosAssumption
    <3> QED
      BY <1>1, <3>1, <3>2 DEF Pos
  <2>3. ASSUME NEW d \in Code
        PROVE  Aging(d)'
    <3>1. Aging(d)
      BY <1>1
    <3>2. selling'[d] = 0 /\ record'[d] = "no" /\ file'[d] = Aged(file[d])
      BY <1>2, <2>1 DEF None
    <3>3. born'[d] # Unborn => Seen(d)'
      <4> SUFFICES ASSUME born'[d] # Unborn
                   PROVE  Seen(d)'
        OBVIOUS
      <4>1. born[d] # Unborn /\ born'[d] = Smaller(born[d] + 1, MAX_HOLD_DAYS)
        BY <2>1
      <4>2. Seen(d)
        BY <3>1, <4>1 DEF Aging
      <4>3. file[d].age \in Nat /\ born[d] \in Nat /\ MAX_HOLD_DAYS \in Nat
        BY <1>1, <1>2, <4>2, LegacyAssumption DEF Seen, Pos, Position
      <4>4. Smaller(file[d].age + 1, MAX_HOLD_DAYS) >= Smaller(born[d] + 1, MAX_HOLD_DAYS)
        BY <1>2, <4>2, <4>3 DEF Seen, Smaller
      <4> QED
        BY <1>2, <2>2, <3>2, <4>1, <4>2, <4>4 DEF Seen
    <3> QED
      BY <1>2, <2>1, <2>2, <3>1, <3>2, <3>3 DEF Aging, Known
  <2> QED
    BY <2>3 DEF AllAging
<1> QED
  BY <1>3, <1>4

\* The broker and the reconciliation.
LEMMA AgingBroker ==
  ASSUME AgeInv, NEW c \in Code,
         FillSale(c) \/ FillBuy(c) \/ Settle(c) \/ Finalize(c)
  PROVE  AllAging'
<1>1. /\ held \in [Code -> Nat] /\ looked \in [Code -> Nat] /\ selling \in [Code -> Nat]
      /\ buying \in [Code -> Nat] /\ hsnap \in [Code -> Nat]
      /\ born \in [Code -> 0..Unborn] /\ record \in [Code -> {"no", "open", "filled"}]
      /\ file \in [Code -> Pos] /\ \A d \in Code : Aging(d) /\ selling[d] <= held[d]
  BY LegacyAssumption DEF AgeInv, AllAging, TypeInv, Fits, TypeOK, Pos
<1>2. UNCHANGED <<soldToday, cycle>>
  BY DEF FillSale, FillBuy, Settle, Finalize, trades
\* the codes that are not concerned
<1>3. ASSUME NEW d \in Code, Current'[d] = Current[d],
             held'[d] = held[d], selling'[d] = selling[d], buying'[d] = buying[d],
             record'[d] = record[d], born'[d] = born[d], looked'[d] = looked[d]
      PROVE  Aging(d)'
  <2>1. Aging(d)
    BY <1>1
  <2> QED
    BY <1>2, <1>3, <2>1 DEF Aging, Seen, cycle
<1>4. CASE FillSale(c)
  <2>1. /\ held' = [held EXCEPT ![c] = held[c] - selling[c]]
        /\ selling' = [selling EXCEPT ![c] = 0] /\ born' = [born EXCEPT ![c] = Unborn]
        /\ looked' = [looked EXCEPT ![c] = Smaller(@, held[c] - selling[c])]
        /\ selling[c] > 0 /\ UNCHANGED <<buying, record, file>>
    BY <1>4 DEF FillSale, Left, trades
  <2>2. Current' = Current
    BY <1>2, <2>1 DEF Current, cycle
  <2>3. Aging(c)'
    <3>1. Aging(c) /\ held[c] > 0
      BY <1>1, <2>1
    <3>2. born'[c] = Unborn /\ selling'[c] = 0
      BY <1>1, <2>1
    <3> QED
      BY <1>2, <2>1, <2>2, <3>1, <3>2 DEF Aging, cycle
  <2>4. \A d \in Code \ {c} : Aging(d)'
    BY <1>1, <1>3, <2>1, <2>2
  <2> QED
    BY <2>3, <2>4 DEF AllAging
<1>5. CASE FillBuy(c)
  <2>1. /\ held' = [held EXCEPT ![c] = held[c] + buying[c]]
        /\ buying' = [buying EXCEPT ![c] = 0] /\ buying[c] > 0
        /\ record' = [record EXCEPT ![c] = IF @ = "open" THEN "filled" ELSE @]
        /\ UNCHANGED <<selling, file, born, looked>>
    BY <1>5 DEF FillBuy
  <2>2. Current' = Current
    BY <1>2, <2>1 DEF Current, cycle
  <2>3. Aging(c)'
    <3>1. Aging(c)
      BY <1>1
    <3>2. held'[c] = held[c] + buying[c] /\ held'[c] > 0 /\ held'[c] >= held[c]
      BY <1>1, <2>1
    <3>3. record'[c] # "open" /\ (record'[c] # "no" => record[c] # "no")
      BY <1>1, <2>1
    <3>4. hsnap[c] > held'[c] => hsnap[c] > held[c]
      BY <1>1, <3>2
    <3>5. Seen(c) => Seen(c)'
      BY <1>1, <1>2, <2>1, <2>2, <3>2 DEF Seen, cycle
    <3> QED
      BY <1>2, <2>1, <2>2, <3>1, <3>2, <3>3, <3>4, <3>5 DEF Aging, cycle
  <2>4. \A d \in Code \ {c} : Aging(d)'
    BY <1>1, <1>3, <2>1, <2>2
  <2> QED
    BY <2>3, <2>4 DEF AllAging
<1>6. CASE Settle(c)
  <2>1. /\ record' = [record EXCEPT ![c] = "no"] /\ record[c] = "filled"
        /\ UNCHANGED <<held, selling, buying, file, born, looked>>
    BY <1>6 DEF Settle, account, memory
  <2>2. Current' = Current
    BY <1>2, <2>1 DEF Current, cycle
  <2>3. Aging(c)'
    <3>1. Aging(c)
      BY <1>1
    <3>2. record'[c] = "no"
      BY <1>1, <2>1
    <3> QED
      BY <1>2, <2>1, <2>2, <3>1, <3>2 DEF Aging, Seen, cycle
  <2>4. \A d \in Code \ {c} : Aging(d)'
    BY <1>1, <1>3, <2>1, <2>2
  <2> QED
    BY <2>3, <2>4 DEF AllAging
\* what is left of the position has a sale in the history
<1>7. CASE Finalize(c)
  <2>1. /\ record' = [record EXCEPT ![c] = "no"] /\ record[c] = "open"
        /\ buying' = [buying EXCEPT ![c] = 0]
        /\ file' = [file EXCEPT ![c] = Reversed(file[c])]
        /\ pc = "idle" /\ UNCHANGED <<held, selling, born, looked>>
    BY <1>7 DEF Finalize, memory
  <2>2. pc' = "idle" /\ Current = file /\ Current' = file'
    BY <1>2, <2>1 DEF Current, cycle
  <2>3. \A d \in Code \ {c} : Current'[d] = Current[d] /\ record'[d] = record[d] /\ buying'[d] = buying[d]
    BY <1>1, <2>1, <2>2
  <2>4. Aging(c)'
    <3> DEFINE p == file[c]
    <3>1. Aging(c) /\ held[c] = 0 /\ selling[c] = 0 /\ p \in Pos
      <4>1. Aging(c) /\ selling[c] <= held[c]
        BY <1>1
      <4>2. held[c] = 0
        BY <2>1, <4>1 DEF Aging
      <4> QED
        BY <1>1, <4>1, <4>2
    <3>2. record'[c] = "no" /\ file'[c] = Reversed(p)
      BY <1>1, <2>1
    <3>3. born[c] = Unborn
      BY <3>1 DEF Aging, Seen
    <3>4. Known(p) \/ p.rem <= Lot
      BY <2>2, <3>1 DEF Aging
    <3>5. Known(Reversed(p))
      <4>1. CASE p = NoPos \/ p.exited
        BY <2>2, <3>1, <4>1 DEF Reversed, Aging, Known
      <4>2. CASE p # NoPos /\ ~p.exited /\ p.rem <= Lot
        BY <4>2 DEF Reversed, Known
      <4>3. CASE Known(p)
        BY <3>1, <4>3, UpdateReady
      <4> QED
        BY <3>4, <4>1, <4>2, <4>3
    <3> HIDE DEF p
    <3> QED
      BY <2>1, <2>2, <3>1, <3>2, <3>3, <3>5 DEF Aging, Known
  <2>5. \A d \in Code \ {c} : Aging(d)'
    BY <1>1, <1>3, <2>1, <2>3
  <2> QED
    BY <2>4, <2>5 DEF AllAging
<1> QED
  BY <1>4, <1>5, <1>6, <1>7

\* The mock purchase job, v8 and the user.
LEMMA AgingOthers ==
  ASSUME AgeInv, NEW c \in Code,
         \/ FireBuy(c) \/ V8Order(c) \/ V8Mark(c) \/ V8Track(c) \/ V8Sell(c) \/ V8Release(c)
         \/ V8Drop(c) \/ V8Forget(c) \/ UserBuy(c) \/ UserSell(c) \/ UserLoad \/ UserSave
  PROVE  AllAging'
<1>1. /\ held \in [Code -> Nat] /\ looked \in [Code -> Nat] /\ selling \in [Code -> Nat]
      /\ buying \in [Code -> Nat] /\ hsnap \in [Code -> Nat]
      /\ born \in [Code -> 0..Unborn] /\ record \in [Code -> {"no", "open", "filled"}]
      /\ file \in [Code -> Pos] /\ mem \in [Code -> Pos]
      /\ \A d \in Code : Aging(d) /\ selling[d] <= held[d]
  BY LegacyAssumption DEF AgeInv, AllAging, TypeInv, Fits, TypeOK, Pos
<1>2. UNCHANGED <<pc, hsnap, todo>> /\ soldToday \subseteq soldToday' /\ Lot \in Nat \ {0}
  BY LegacyAssumption
     DEF FireBuy, V8Order, V8Mark, V8Track, V8Sell, V8Release, V8Drop, V8Forget, UserBuy,
         UserSell, UserLoad, UserSave, cycle, trades
\* the codes that are not concerned
<1>3. ASSUME NEW d \in Code, Current'[d] = Current[d],
             held'[d] = held[d], selling'[d] = selling[d], buying'[d] = buying[d],
             record'[d] = record[d], born'[d] = born[d], looked'[d] = looked[d]
      PROVE  Aging(d)'
  <2>1. Aging(d)
    BY <1>1
  <2> QED
    BY <1>2, <1>3, <2>1 DEF Aging, Seen
<1>4. CASE FireBuy(c)
  <2>1. /\ held[c] = 0 /\ buying[c] = 0
        /\ buying' = [buying EXCEPT ![c] = Lot] /\ record' = [record EXCEPT ![c] = "open"]
        /\ file' = [file EXCEPT ![c] = Fresh(c, Lot)]
        /\ UNCHANGED <<held, selling, soldToday, mem, born, looked>>
    BY <1>4 DEF FireBuy, memory, cycle
  <2>2. \A d \in Code \ {c} : Current'[d] = Current[d] /\ record'[d] = record[d] /\ buying'[d] = buying[d]
    BY <1>1, <1>2, <2>1 DEF Current
  <2>3. Aging(c)'
    <3>1. Aging(c) /\ selling[c] = 0
      BY <1>1, <2>1
    <3>2. born[c] = Unborn /\ Known(Current[c])
      BY <2>1, <3>1 DEF Aging, Seen
    <3>3. record'[c] = "open" /\ buying'[c] > 0
      BY <1>1, <1>2, <2>1
    <3>4. CASE pc \in {"idle", "listed"}
      <4>1. Current'[c] = Fresh(c, Lot)
        BY <1>1, <1>2, <2>1, <3>4 DEF Current
      <4>2. /\ Fresh(c, Lot).age = 0 /\ Fresh(c, Lot).rem = Lot /\ ~Fresh(c, Lot).exited
            /\ c \in soldToday => Fresh(c, Lot).soldSince
        BY DEF Fresh
      <4>3. pc \in {"listed", "look"} /\ hsnap[c] > held[c] => c \in soldToday
        BY <3>1 DEF Aging
      <4>4. Lot <= Lot
        BY <1>2
      <4>5. born'[c] = Unborn /\ selling'[c] = 0 /\ held'[c] = 0 /\ pc' # "look"
        BY <1>2, <2>1, <3>1, <3>2, <3>4
      <4>6. pc' \in {"listed", "look"} /\ hsnap'[c] > held'[c]
              => c \in soldToday' /\ Known(Current'[c])
        BY <1>2, <2>1, <4>1, <4>2, <4>3 DEF Known
      <4> QED
        BY <3>3, <4>1, <4>2, <4>4, <4>5, <4>6 DEF Aging
    <3>5. CASE pc \notin {"idle", "listed"}
      <4>1. Current'[c] = Current[c]
        BY <1>2, <2>1, <3>5 DEF Current
      <4> QED
        BY <1>2, <2>1, <3>1, <3>2, <3>3, <3>5, <4>1 DEF Aging, Known
    <3> QED
      BY <3>4, <3>5
  <2>4. \A d \in Code \ {c} : Aging(d)'
    BY <1>3, <2>1, <2>2
  <2> QED
    BY <2>3, <2>4 DEF AllAging
<1>5. CASE V8Order(c)
  <2>1. /\ buying' = [buying EXCEPT ![c] = Lot]
        /\ UNCHANGED <<held, selling, record, file, mem, born, looked, soldToday>>
    BY <1>5 DEF V8Order, memory, cycle, trades
  <2>2. Current' = Current
    BY <1>2, <2>1 DEF Current
  <2>3. ASSUME NEW d \in Code
        PROVE  Aging(d)'
    <3>1. Aging(d) /\ (buying[d] > 0 => buying'[d] > 0)
      BY <1>1, <1>2, <2>1
    <3> QED
      BY <1>2, <2>1, <2>2, <3>1 DEF Aging, Seen
  <2> QED
    BY <2>3 DEF AllAging
<1>6. CASE V8Mark(c) \/ V8Track(c) \/ V8Release(c) \/ V8Forget(c) \/ UserLoad \/ UserSave
  <2>1. UNCHANGED <<held, selling, buying, record, file, mem, born, looked>>
    BY <1>6 DEF V8Mark, V8Track, V8Release, V8Forget, UserLoad, UserSave, account, memory, cycle,
                trades
  <2>2. Current' = Current
    BY <1>2, <2>1 DEF Current
  <2> QED
    BY <1>3, <2>1, <2>2 DEF AllAging
\* an order of v8's has no record
<1>11. CASE V8Drop(c)
  <2>1. /\ record[c] = "no" /\ \A d \in Code \ {c} : buying'[d] = buying[d]
        /\ UNCHANGED <<held, selling, record, file, mem, born, looked, soldToday>>
    BY <1>1, <1>11 DEF V8Drop, cycle, trades
  <2>2. Current' = Current
    BY <1>2, <2>1 DEF Current
  <2>3. Aging(c)'
    <3>1. Aging(c)
      BY <1>1
    <3> QED
      BY <1>2, <2>1, <2>2, <3>1 DEF Aging, Seen
  <2>4. \A d \in Code \ {c} : Aging(d)'
    BY <1>1, <1>3, <2>1, <2>2
  <2> QED
    BY <2>3, <2>4 DEF AllAging
\* a sale outside the cycle is in the history at once
<1>7. ASSUME NEW n \in Nat, Left(c, n, selling[c]), held[c] > selling[c],
             soldToday' = soldToday \cup {c}, file' = Noted(file, c), mem' = Noted(mem, c),
             buying' = buying, record' = record
      PROVE  AllAging'
  <2>1. /\ born' = [born EXCEPT ![c] = Unborn] /\ selling' = [selling EXCEPT ![c] = selling[c]]
        /\ held' = [held EXCEPT ![c] = n] /\ looked' = [looked EXCEPT ![c] = Smaller(@, n)]
    BY <1>7 DEF Left
  <2>2. \A d \in Code \ {c} : file'[d] = file[d] /\ mem'[d] = mem[d]
    <3>1. \A d \in Code \ {c} : Noted(file, c)[d] = file[d]
      BY <1>1, NotedType
    <3>2. \A d \in Code \ {c} : Noted(mem, c)[d] = mem[d]
      BY <1>1, NotedType
    <3> QED
      BY <1>7, <3>1, <3>2
  <2>3. Known(file'[c]) /\ Known(mem'[c])
    BY <1>1, <1>7, NotedReady
  <2>4. \A d \in Code \ {c} : Current'[d] = Current[d]
    BY <1>2, <2>2 DEF Current
  <2>5. Known(Current'[c])
    BY <2>3 DEF Current
  <2>6. Aging(c)'
    <3>1. Aging(c) /\ record[c] # "open"
      <4>1. Aging(c) /\ held[c] > 0
        BY <1>1, <1>7
      <4> QED
        BY <4>1 DEF Aging
    <3>2. born'[c] = Unborn
      BY <1>1, <2>1
    <3> QED
      BY <1>2, <1>7, <2>5, <3>1, <3>2 DEF Aging, Known
  <2>7. ASSUME NEW d \in Code \ {c}
        PROVE  Aging(d)'
    BY <1>1, <1>3, <1>7, <2>1, <2>4
  <2> QED
    BY <2>6, <2>7 DEF AllAging
<1>8. CASE V8Sell(c)
  BY <1>1, <1>7, <1>8 DEF V8Sell
<1>9. CASE UserBuy(c)
  <2>1. /\ held' = [held EXCEPT ![c] = held[c] + Lot] /\ record[c] = "no"
        /\ UNCHANGED <<selling, buying, record, file, mem, born, looked, soldToday>>
    BY <1>9 DEF UserBuy, trades, cycle, memory
  <2>2. Current' = Current
    BY <1>2, <2>1 DEF Current
  <2>3. Aging(c)'
    <3>1. Aging(c)
      BY <1>1
    <3>2. held'[c] > 0 /\ held'[c] >= held[c] /\ held'[c] \in Nat
      BY <1>1, <1>2, <2>1
    <3>3. hsnap[c] > held'[c] => hsnap[c] > held[c]
      BY <1>1, <3>2
    <3>4. Seen(c) => Seen(c)'
      BY <1>1, <1>2, <2>1, <2>2, <3>2 DEF Seen
    <3> QED
      BY <1>2, <2>1, <2>2, <3>1, <3>2, <3>3, <3>4 DEF Aging
  <2>4. \A d \in Code \ {c} : Aging(d)'
    BY <1>1, <1>3, <2>1, <2>2
  <2> QED
    BY <2>3, <2>4 DEF AllAging
<1>10. CASE UserSell(c)
  <2>1. PICK n \in 1..(held[c] - selling[c]) : Left(c, held[c] - n, selling[c])
    BY <1>10 DEF UserSell
  <2>2. held[c] - n \in Nat
    BY <1>1, <2>1
  <2> QED
    BY <1>7, <1>10, <2>1, <2>2 DEF UserSell
<1> QED
  BY <1>4, <1>5, <1>6, <1>8, <1>9, <1>10, <1>11

LEMMA AgingStep ==
  ASSUME Reconciled
  PROVE  AgeInv /\ [Next]_vars => AgeInv'
<1> SUFFICES ASSUME AgeInv, [Next]_vars
             PROVE  AllAging'
  BY TypeStep DEF AgeInv
<1>1. CASE UNCHANGED vars
  <2>1. /\ UNCHANGED <<held, selling, buying, record, soldToday, born, looked>>
        /\ UNCHANGED <<file, mem, pc, hsnap, todo>>
    BY <1>1 DEF vars, account, trades, cycle, memory
  <2>2. Current' = Current
    BY <2>1 DEF Current
  <2> QED
    BY <2>1, <2>2 DEF AgeInv, AllAging, Aging, Seen
<1>2. CASE Next
  <2>1. AnyCode \in Code
    BY LegacyAssumption DEF AnyCode
  <2> QED
    BY <1>2, <2>1, AgingLooks, AgingCycle, AgingClock, AgingBroker, AgingOthers DEF Next
<1> QED
  BY <1>1, <1>2

\* The repair of 2026-09-03, for any listings, quotes, refusals, late orders and
\* for whatever v8 and the user do: between cycles a code of the legacy exit
\* that has been seen, and not sold since, still has the position that was
\* opened then, as long as no cycle dies and the mock purchases are reconciled
\* every evening; TLC shows both to be needed.
THEOREM AgeIsKept ==
  ASSUME Reconciled
  PROVE  Spec => []AgeKept
<1>1. Init => AgeInv
  <2>1. Init => AllAging
    BY LegacyAssumption DEF Init, AllAging, Aging, Current, Known, None, NoState
  <2> QED
    BY <2>1, TypeInit DEF AgeInv
<1>2. AgeInv => AgeKept
  <2> SUFFICES ASSUME AgeInv, pc = "idle", NEW c \in Code, born[c] # Unborn
               PROVE  file[c] # NoPos /\ file[c].age >= born[c]
    BY DEF AgeKept
  <2>1. Seen(c) /\ Current = file
    BY DEF AgeInv, AllAging, Aging, Current
  <2> QED
    BY <2>1 DEF Seen
<1> QED
  BY <1>1, <1>2, AgingStep, PTL DEF Spec
=============================================================================
