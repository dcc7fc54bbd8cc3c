----------------------------- MODULE TradingProofs -----------------------------
(***************************************************************************)
(* Proofs about parts of the trading system that the run Trading_parts     *)
(* checks together: the REST client, the calendar of holidays, the mock    *)
(* purchases, the profit of the day and the pending file, each for any     *)
(* constants.  A behaviour of Spec_Trading is one of each part, so that    *)
(* what is proved of a part by itself is a theorem of the whole.           *)
(***************************************************************************)
EXTENDS MC_Trading, FiniteSetTheorems, TLAPS

(***************************************************************************)
(* The REST client (BrokerClient).                                         *)
(***************************************************************************)
\* A call that is still under way has not placed its order.  A token that was renewed
\* moments ago is in force, and while the reload of the morning has put no older one back
\* it is the one the process has; a call is repeated with that one.
Unplaced(t) == bcDone[t] <= 1 /\ (bcPc[t] \notin {"answered", "failed"} => bcDone[t] = 0)
Renewing(t) == bcPc[t] \in {"write", "renewed"}
TokenFresh ==
  /\ bcRecent => bcLive
  /\ \A t \in BcThread : bcPc[t] \in {"write", "renewed", "repost"} => bcLive
  /\ ~bcSetBack =>
       /\ bcRecent => bcMem = bcNewest
       /\ \A t \in BcThread : Renewing(t) => bcMem = bcNewest
       /\ \A t \in BcThread : bcPc[t] = "repost" => bcToken[t] = bcNewest
       /\ \A t \in BcThread : bcPc[t] # "refusal"

BcStage == {"post", "repost", "renew", "issue", "write", "renewed",
            "answered", "failed", "refusal"}
BcShape ==
  /\ bcPc \in [BcThread -> BcStage] /\ bcToken \in [BcThread -> Nat]
  /\ bcTries \in [BcThread -> Nat] /\ bcDone \in [BcThread -> Nat] /\ bcSetBack \in BOOLEAN
BcInv == BcTypeOK /\ BcShape /\ TokenFresh /\ \A t \in BcThread : Unplaced(t)

\* Only the named thread's entry changes.
LEMMA GoOther ==
  ASSUME BcShape, NEW t \in BcThread, NEW to \in BcStage, Go(t, to)
  PROVE  /\ bcPc' \in [BcThread -> BcStage] /\ bcPc'[t] = to
         /\ \A s \in BcThread : s # t => bcPc'[s] = bcPc[s]
  BY DEF Go, BcShape

LEMMA BcStart == BcInit => BcInv
<1> SUFFICES ASSUME BcInit
             PROVE  BcInv
  OBVIOUS
<1>1. 1 \in 1..BcMaxToken /\ 0 \in 0..BcMaxRetries /\ \A t \in BcThread : t # BcNobody
  BY BcAssumption
<1>2. \A t \in BcThread : bcPc[t] = "post" /\ bcToken[t] = 1 /\ bcTries[t] = 0 /\ bcDone[t] = 0
  BY DEF BcInit
<1>3. BcTypeOK
  <2>1. bcNewest = 1 /\ bcMem = 1 /\ bcFile = 1 /\ bcCopy = 0 /\ bcLock = BcNobody
    BY DEF BcInit
  <2>2. bcLive \in BOOLEAN /\ bcRecent \in BOOLEAN
    BY Zenon DEF BcInit
  <2>3. \A t \in BcThread : bcLock # t /\ bcPc[t] \notin {"issue", "write", "renewed"}
    BY <1>1, <1>2, <2>1
  <2> QED
    BY <1>1, <1>2, <2>1, <2>2, <2>3 DEF BcTypeOK
<1>4. BcShape
  BY DEF BcInit, BcStage, BcShape
<1>5. TokenFresh
  BY <1>2 DEF BcInit, TokenFresh, Renewing
<1> QED
  BY <1>2, <1>3, <1>4, <1>5 DEF BcInv, Unplaced

\* The numbers of the client are numbers.
LEMMA BcNumbers ==
  ASSUME BcInv
  PROVE  /\ bcNewest \in Nat /\ bcMem \in Nat /\ bcFile \in Nat /\ bcCopy \in Nat
         /\ BcMaxToken \in Nat /\ BcMaxRetries \in Nat
  BY BcAssumption DEF BcInv, BcTypeOK

\* The answers to a request: none of them touches the lock or a token.
LEMMA RequestStep ==
  ASSUME BcInv, NEW t \in BcThread,
         Answered(t) \/ NoAnswer(t) \/ TooMany(t) \/ Refused(t)
  PROVE  BcInv'
<1>1. /\ bcPc[t] \in {"post", "repost"} /\ bcDone[t] = 0
      /\ UNCHANGED <<bcBroker, bcStore, bcGuard, bcToken, bcReload>>
  BY DEF BcInv, Unplaced, Posting, Answered, NoAnswer, TooMany, Refused
<1>2. \E to \in {"answered", "failed", "post", "renew", "refusal"} : Go(t, to)
  BY DEF Answered, NoAnswer, TooMany, Refused
<1>3. PICK to \in {"answered", "failed", "post", "renew", "refusal"} :
        Go(t, to) /\ (bcDone' # bcDone => to \in {"answered", "failed"})
                  /\ (to = "refusal" => bcPc[t] = "repost" /\ ~Good(bcToken[t]))
  BY DEF Answered, NoAnswer, TooMany, Refused, Go, BcInv, BcShape
<1>4. /\ bcPc' \in [BcThread -> BcStage] /\ bcPc'[t] = to
      /\ \A s \in BcThread : s # t => bcPc'[s] = bcPc[s]
  BY <1>3, GoOther DEF BcInv, BcStage
<1>5. /\ bcDone' \in [BcThread -> Nat] /\ bcDone'[t] \in {0, 1}
      /\ \A s \in BcThread : s # t => bcDone'[s] = bcDone[s]
  <2>1. bcDone' = bcDone \/ bcDone' = [bcDone EXCEPT ![t] = bcDone[t] + 1]
    BY DEF Answered, NoAnswer, TooMany, Refused
  <2>2. bcDone[t] + 1 = 1
    BY <1>1
  <2>3. bcDone' = bcDone \/ bcDone' = [bcDone EXCEPT ![t] = 1]
    BY <2>1, <2>2
  <2> QED
    BY <1>1, <2>3 DEF BcInv, BcShape
<1>6. /\ bcTries' \in [BcThread -> Nat]
      /\ \A s \in BcThread : bcTries'[s] \in 0..BcMaxRetries
  <2>1. CASE UNCHANGED bcTries
    BY <2>1 DEF BcInv, BcShape, BcTypeOK
  <2>2. CASE bcTries[t] < BcMaxRetries /\ bcTries' = [bcTries EXCEPT ![t] = @ + 1]
    <3>1. bcTries[t] \in Nat /\ bcTries[t] + 1 \in 0..BcMaxRetries
      BY <2>2, BcNumbers DEF BcInv, BcShape
    <3>2. bcTries' = [bcTries EXCEPT ![t] = bcTries[t] + 1]
      BY <2>2
    <3> DEFINE n == bcTries[t] + 1
    <3>3. n \in Nat /\ n \in 0..BcMaxRetries /\ bcTries' = [bcTries EXCEPT ![t] = n]
      BY <3>1, <3>2
    <3> HIDE DEF n
    <3> QED
      BY <3>3 DEF BcInv, BcShape, BcTypeOK
  <2> QED
    BY <2>1, <2>2 DEF Answered, NoAnswer, TooMany, Refused
<1>7. BcTypeOK'
  BY <1>1, <1>3, <1>4, <1>5, <1>6 DEF BcInv, BcTypeOK, BcShape, bcBroker, bcStore, bcGuard, bcReload
<1>8. TokenFresh'
  <2>1. to = "refusal" => bcSetBack
    BY <1>1, <1>3 DEF BcInv, TokenFresh, Good
  <2> QED
    BY <1>1, <1>3, <1>4, <2>1 DEF BcInv, TokenFresh, Renewing, bcBroker, bcStore, bcGuard, bcReload
<1>9. ASSUME NEW s \in BcThread
      PROVE  Unplaced(s)'
  <2>1. CASE s = t
    <3>1. to \notin {"answered", "failed"} => bcDone'[t] = 0
      BY <1>1, <1>3
    <3> QED
      BY <1>4, <1>5, <2>1, <3>1 DEF Unplaced
  <2>2. CASE s # t
    BY <1>4, <1>5, <2>2 DEF BcInv, Unplaced
  <2> QED
    BY <2>1, <2>2
<1> QED
  BY <1>1, <1>4, <1>5, <1>6, <1>7, <1>8, <1>9 DEF BcInv, BcShape, bcReload

\* The renewal, by the thread that holds the lock.
LEMMA RenewalStep ==
  ASSUME BcInv, NEW t \in BcThread,
         Lock(t) \/ Issue(t) \/ NotIssued(t) \/ Write(t) \/ Unlock(t)
  PROVE  BcInv'
<1>1. /\ bcPc[t] \in {"renew", "issue", "write", "renewed"} /\ bcDone[t] = 0
      /\ UNCHANGED <<bcTries, bcDone, bcReload>>
  BY DEF BcInv, Unplaced, Lock, Issue, NotIssued, Write, Unlock
\* the lock is held by one thread at most
<1>2. \A s \in BcThread : bcPc[s] \in {"issue", "write", "renewed"} <=> bcLock = s
  BY DEF BcInv, BcTypeOK
<1>3. CASE Lock(t)
  <2>1. PICK to \in {"renewed", "issue"} : Go(t, to) /\ (to = "renewed" => bcRecent)
    BY <1>3 DEF Lock
  <2>2. /\ bcPc' \in [BcThread -> BcStage] /\ bcPc'[t] = to
        /\ \A s \in BcThread : s # t => bcPc'[s] = bcPc[s]
    BY <2>1, GoOther DEF BcInv, BcStage
  <2>3. bcLock = BcNobody /\ bcLock' = t /\ UNCHANGED <<bcBroker, bcStore, bcRecent, bcToken>>
    BY <1>3 DEF Lock
  <2>4. \A s \in BcThread : bcPc'[s] \in {"issue", "write", "renewed"} <=> bcLock' = s
    BY <1>2, <2>1, <2>2, <2>3, BcAssumption
  <2>5. BcTypeOK'
    BY <1>1, <2>1, <2>2, <2>3, <2>4 DEF BcInv, BcTypeOK, bcBroker, bcStore, bcReload
  <2>6. TokenFresh'
    BY <1>1, <2>1, <2>2, <2>3 DEF BcInv, TokenFresh, Renewing, bcBroker, bcStore, bcReload
  <2> QED
    BY <1>1, <2>1, <2>2, <2>3, <2>5, <2>6 DEF BcInv, BcShape, Unplaced, bcReload
<1>4. CASE Issue(t)
  <2>1. /\ bcNewest' = InForce /\ bcLive' /\ bcMem' = InForce /\ InForce <= BcMaxToken
        /\ Go(t, "write") /\ UNCHANGED <<bcFile, bcLock, bcRecent, bcToken>> /\ bcPc[t] = "issue"
    BY <1>4 DEF Issue, bcGuard
  <2>2. /\ bcPc' \in [BcThread -> BcStage] /\ bcPc'[t] = "write"
        /\ \A s \in BcThread : s # t => bcPc'[s] = bcPc[s]
    BY <2>1, GoOther DEF BcInv, BcStage
  <2>3. InForce \in {bcNewest, bcNewest + 1} /\ (bcLive => InForce = bcNewest)
    BY DEF InForce
  <2>4. \A s \in BcThread : bcPc'[s] \in {"issue", "write", "renewed"} <=> bcLock' = s
    BY <1>2, <2>1, <2>2
  <2>5. BcTypeOK'
    <3>1. /\ bcNewest' \in 1..BcMaxToken /\ bcNewest <= bcNewest'
          /\ bcMem' \in 1..bcNewest' /\ bcFile' \in 1..bcNewest' /\ bcCopy' \in 0..bcNewest'
      BY <1>1, <2>1, <2>3, BcNumbers DEF BcInv, BcTypeOK, bcReload
    <3>2. \A s \in BcThread : bcToken'[s] \in 1..bcNewest'
      BY <2>1, <3>1, BcNumbers DEF BcInv, BcTypeOK
    <3>3. bcLive' \in BOOLEAN /\ bcRecent' \in BOOLEAN
      BY <1>4, <2>1, Zenon DEF BcInv, BcTypeOK, Issue
    <3>4. \A s \in BcThread : bcPc'[s] \in BcStage /\ bcTries'[s] \in 0..BcMaxRetries /\ bcDone'[s] \in Nat
      BY <1>1, <2>2 DEF BcInv, BcTypeOK, BcStage
    <3> QED
      BY <2>1, <2>4, <3>1, <3>2, <3>3, <3>4 DEF BcInv, BcTypeOK, BcStage
  <2>6. TokenFresh'
    <3>1. \A s \in BcThread : s # t => ~Renewing(s)'
      BY <1>2, <2>1, <2>2 DEF Renewing
    <3>2. \A s \in BcThread : bcPc'[s] = "repost" => bcPc[s] = "repost" /\ bcLive
      BY <2>1, <2>2 DEF BcInv, TokenFresh
    <3>3. bcSetBack' = bcSetBack
      BY <1>1 DEF bcReload
    <3> QED
      BY <2>1, <2>2, <2>3, <3>1, <3>2, <3>3 DEF BcInv, TokenFresh
  <2> QED
    BY <1>1, <2>1, <2>2, <2>5, <2>6 DEF BcInv, BcShape, Unplaced, bcReload
<1>5. CASE NotIssued(t)
  <2>1. Go(t, "failed") /\ bcLock' = BcNobody /\ UNCHANGED <<bcBroker, bcStore, bcRecent, bcToken>>
    BY <1>5 DEF NotIssued
  <2>2. /\ bcPc' \in [BcThread -> BcStage] /\ bcPc'[t] = "failed"
        /\ \A s \in BcThread : s # t => bcPc'[s] = bcPc[s]
    BY <2>1, GoOther DEF BcInv, BcStage
  <2>3. \A s \in BcThread : bcPc'[s] \in {"issue", "write", "renewed"} <=> bcLock' = s
    BY <1>2, <1>5, <2>1, <2>2, BcAssumption DEF NotIssued
  <2>4. BcTypeOK'
    BY <1>1, <2>1, <2>2, <2>3 DEF BcInv, BcTypeOK, bcBroker, bcStore, bcReload
  <2>5. TokenFresh'
    BY <1>1, <2>1, <2>2 DEF BcInv, TokenFresh, Renewing, bcBroker, bcStore, bcReload
  <2> QED
    BY <1>1, <2>1, <2>2, <2>4, <2>5 DEF BcInv, BcShape, Unplaced, bcReload
<1>6. CASE Write(t)
  <2>1. PICK to \in {"renewed", "failed"} :
          /\ Go(t, to) /\ (to = "renewed" => bcFile' = bcMem /\ bcRecent' = TRUE /\ bcLock' = bcLock)
          /\ to = "failed" => bcFile' = bcFile /\ bcRecent' = bcRecent /\ bcLock' = BcNobody
    BY <1>6 DEF Write
  <2>2. /\ bcPc' \in [BcThread -> BcStage] /\ bcPc'[t] = to
        /\ \A s \in BcThread : s # t => bcPc'[s] = bcPc[s]
    BY <2>1, GoOther DEF BcInv, BcStage
  <2>3. bcPc[t] = "write" /\ UNCHANGED <<bcBroker, bcMem, bcToken>>
    BY <1>6 DEF Write
  <2>4. \A s \in BcThread : bcPc'[s] \in {"issue", "write", "renewed"} <=> bcLock' = s
    BY <1>2, <2>1, <2>2, <2>3, BcAssumption
  <2>5. BcTypeOK'
    BY <1>1, <2>1, <2>2, <2>3, <2>4 DEF BcInv, BcTypeOK, bcBroker, bcReload
  <2>6. TokenFresh'
    BY <1>1, <2>1, <2>2, <2>3 DEF BcInv, TokenFresh, Renewing, bcBroker, bcReload
  <2> QED
    BY <1>1, <2>1, <2>2, <2>3, <2>5, <2>6 DEF BcInv, BcShape, Unplaced, bcReload
<1>7. CASE Unlock(t)
  <2>1. /\ bcPc[t] = "renewed" /\ Go(t, "repost") /\ bcLock' = BcNobody
        /\ bcToken' = [bcToken EXCEPT ![t] = bcMem] /\ UNCHANGED <<bcBroker, bcStore, bcRecent>>
    BY <1>7 DEF Unlock
  <2>2. /\ bcPc' \in [BcThread -> BcStage] /\ bcPc'[t] = "repost"
        /\ \A s \in BcThread : s # t => bcPc'[s] = bcPc[s]
    BY <2>1, GoOther DEF BcInv, BcStage
  <2>3. \A s \in BcThread : bcPc'[s] \in {"issue", "write", "renewed"} <=> bcLock' = s
    BY <1>2, <2>1, <2>2, BcAssumption
  <2>4. /\ bcToken' \in [BcThread -> Nat] /\ bcToken'[t] = bcMem
        /\ \A s \in BcThread : s # t => bcToken'[s] = bcToken[s]
    BY <2>1, BcNumbers DEF BcInv, BcShape
  <2>5. BcTypeOK'
    BY <1>1, <2>1, <2>2, <2>3, <2>4 DEF BcInv, BcTypeOK, bcBroker, bcStore, bcReload
  <2>6. TokenFresh'
    BY <1>1, <2>1, <2>2, <2>4 DEF BcInv, TokenFresh, Renewing, bcBroker, bcStore, bcReload
  <2> QED
    BY <1>1, <2>1, <2>2, <2>4, <2>5, <2>6 DEF BcInv, BcShape, Unplaced, bcReload
<1> QED
  BY <1>3, <1>4, <1>5, <1>6, <1>7

\* The clock, the morning job's process and its reload.
LEMMA AroundStep ==
  ASSUME BcInv, CooldownOver \/ Expire \/ RenewProcess \/ ReloadRead \/ ReloadWrite
  PROVE  BcInv'
<1>1. UNCHANGED <<bcLock, bcPc, bcToken, bcTries, bcDone>>
  BY DEF CooldownOver, Expire, RenewProcess, ReloadRead, ReloadWrite, bcGuard
<1>2. BcTypeOK' /\ BcShape' /\ TokenFresh'
  <2>1. CASE CooldownOver
    BY <1>1, <2>1 DEF BcInv, BcTypeOK, BcShape, TokenFresh, Renewing, CooldownOver, bcBroker, bcStore, bcReload
  <2>2. CASE Expire
    BY <1>1, <2>2 DEF BcInv, BcTypeOK, BcShape, TokenFresh, Renewing, Expire, bcStore, bcGuard, bcReload
  <2>3. CASE RenewProcess
    <3>1. /\ bcNewest' = InForce /\ bcLive' /\ bcFile' = InForce /\ InForce <= BcMaxToken
          /\ UNCHANGED <<bcMem, bcRecent, bcCopy, bcSetBack>>
      BY <2>3 DEF RenewProcess, bcGuard, bcReload
    <3>2. InForce \in {bcNewest, bcNewest + 1} /\ (bcLive => InForce = bcNewest)
      BY DEF InForce
    <3>3. /\ bcNewest' \in 1..BcMaxToken /\ bcNewest <= bcNewest'
          /\ bcMem' \in 1..bcNewest' /\ bcFile' \in 1..bcNewest' /\ bcCopy' \in 0..bcNewest'
      BY <3>1, <3>2, BcNumbers DEF BcInv, BcTypeOK
    <3>4. \A s \in BcThread : bcToken'[s] \in 1..bcNewest'
      BY <1>1, <3>3, BcNumbers DEF BcInv, BcTypeOK
    <3>5. bcLive' \in BOOLEAN /\ bcRecent' \in BOOLEAN
      BY <2>3, <3>1, Zenon DEF BcInv, BcTypeOK, RenewProcess
    <3>6. BcTypeOK'
      BY <1>1, <3>3, <3>4, <3>5 DEF BcInv, BcTypeOK
    <3>7. TokenFresh'
      BY <1>1, <3>1, <3>2 DEF BcInv, TokenFresh, Renewing
    <3> QED
      BY <1>1, <3>1, <3>6, <3>7 DEF BcInv, BcShape
  <2>4. CASE ReloadRead
    <3>1. bcCopy' = bcFile /\ UNCHANGED <<bcNewest, bcLive, bcMem, bcFile, bcRecent, bcSetBack>>
      BY <2>4 DEF ReloadRead, bcBroker, bcStore, bcGuard
    <3>2. bcCopy' \in 0..bcNewest
      BY <3>1, BcNumbers DEF BcInv, BcTypeOK
    <3> QED
      BY <1>1, <3>1, <3>2 DEF BcInv, BcTypeOK, BcShape, TokenFresh, Renewing
  <2>5. CASE ReloadWrite
    <3>1. /\ bcCopy > 0 /\ bcMem' = bcCopy /\ bcCopy' = 0
          /\ UNCHANGED <<bcNewest, bcLive, bcFile, bcRecent>>
      BY <2>5 DEF ReloadWrite, bcBroker, bcGuard
    <3>2. bcSetBack' \in BOOLEAN /\ (~bcSetBack' => ~bcSetBack /\ ~(bcCopy < bcMem))
      BY <2>5, Zenon DEF ReloadWrite, BcInv, BcShape
    <3>3. bcMem' \in 1..bcNewest /\ bcCopy' \in 0..bcNewest
      BY <3>1, BcNumbers DEF BcInv, BcTypeOK
    <3>4. ~bcSetBack' /\ bcMem = bcNewest => bcMem' = bcNewest
      BY <3>1, <3>2, <3>3, BcNumbers DEF BcInv, BcTypeOK
    <3>5. BcTypeOK' /\ BcShape'
      BY <1>1, <3>1, <3>2, <3>3 DEF BcInv, BcTypeOK, BcShape
    <3>6. TokenFresh'
      BY <1>1, <3>1, <3>2, <3>4 DEF BcInv, TokenFresh, Renewing
    <3> QED
      BY <3>5, <3>6
  <2> QED
    BY <2>1, <2>2, <2>3, <2>4, <2>5
<1> QED
  BY <1>1, <1>2 DEF BcInv, Unplaced

LEMMA BcKept == BcInv /\ [BcNext]_BcVars => BcInv'
<1> SUFFICES ASSUME BcInv, [BcNext]_BcVars
             PROVE  BcInv'
  OBVIOUS
<1>1. CASE UNCHANGED BcVars
  BY <1>1 DEF BcInv, BcTypeOK, BcShape, TokenFresh, Renewing, Unplaced, BcVars, bcBroker, bcStore,
              bcGuard, bcReload
<1>2. CASE BcNext
  BY <1>2, RequestStep, RenewalStep, AroundStep DEF BcNext
<1> QED
  BY <1>1, <1>2

\* kiwoom_api._call_raw, for any number of threads, tokens and retries: the types of the
\* client's state, one holder of the lock among them.
THEOREM BrokerTypeCorrect == BcSpec => []BcTypeOK
<1>1. BcInv => BcTypeOK
  BY DEF BcInv
<1> QED
  BY <1>1, BcStart, BcKept, PTL DEF BcSpec

LEMMA BcSafe == BcInv => CallsSafe
  BY DEF BcInv, TokenFresh, Unplaced, CallsSafe, OrderAtMostOnce, RefusalNotData
(***************************************************************************)
(* The calendar of holidays (Quotes).                                      *)
(***************************************************************************)
\* The cache file is never empty and knows this year; what is about to replace it, and
\* what is in memory, knows all that it knows.
HdInv ==
  /\ HdFirst \in hdCache /\ hdYear \in hdCache
  /\ hdPc \in {"idle", "clear", "update", "save"}
  /\ hdPc # "idle" => hdCache \subseteq hdNew
  /\ hdPc # "update" => hdCache \subseteq hdKnown
  /\ hdPc = "save" => hdKnown = hdNew

LEMMA HdStart == HdInit /\ ~HdBlank => HdInv
<1> SUFFICES ASSUME HdInit, ~HdBlank
             PROVE  HdInv
  OBVIOUS
<1>1. HdFirst \in hdCache /\ hdYear = HdFirst /\ hdPc = "idle" /\ hdKnown = hdCache
  BY DEF HdInit, Loaded
<1> QED
  BY <1>1 DEF HdInv

LEMMA HdKept == HdInv /\ [HdNext]_HdVars => HdInv'
<1> SUFFICES ASSUME HdInv, [HdNext]_HdVars
             PROVE  HdInv'
  OBVIOUS
<1>1. ASSUME NEW got \in SUBSET Current, Fetched(got)
      PROVE  HdInv'
  BY <1>1 DEF Fetched, HdInv
<1>2. CASE ClearKnown
  BY <1>2 DEF ClearKnown, HdInv
<1>3. CASE UpdateKnown
  BY <1>3 DEF UpdateKnown, HdInv
<1>4. CASE SaveCache
  BY <1>4 DEF SaveCache, HdInv
<1>5. CASE RestartServer
  BY <1>5 DEF RestartServer, Loaded, HdInv
<1>6. CASE NewYear
  BY <1>6 DEF NewYear, HdInv
<1>7. CASE UNCHANGED HdVars
  BY <1>7 DEF HdVars, HdInv
<1> QED
  BY <1>1, <1>2, <1>3, <1>4, <1>5, <1>6, <1>7 DEF HdNext

LEMMA HdSafe == HdInv => ThisYearKnown
  BY DEF HdInv, ThisYearKnown

(***************************************************************************)
(* The caches of the REST client and the distance of its requests (Quotes).*)
(***************************************************************************)
Fetching(t) == qtPc[t] \in {"call", "sleep", "asked"}

\* What is fetched is asked for after the fetch began, and not before the thread looked.
Asking(t) ==
  /\ qtLook[t] <= qtNow
  /\ Fetching(t) => /\ qtFetch[t].start \in qtLook[t]..qtNow
                    /\ qtFetch[t].from # Never => qtFetch[t].from \in qtFetch[t].start..qtNow
                    /\ qtFetch[t].toGo > 0
  /\ qtPc[t] = "asked" => qtFetch[t].from # Never
  /\ qtPc[t] = "sleep" => qtSpacer = t /\ qtWake[t] = qtLast + QtSleep

\* One thread of those that fetch for a locked cache changes the entry.
Alone(t) ==
  /\ qtGot[t] <= qtEntry.from
  /\ Fetching(t) => /\ qtFetcher = t /\ qtFetch[t].start >= qtEntry.at + QtTtl
                    /\ qtFetch[t].start >= qtEntry.from

EntryRight == /\ qtEntry.at <= qtEntry.from /\ qtEntry.from <= qtNow
              /\ Locked => qtBegan = qtEntry.at

QtInv == /\ QtTypeOK /\ EntryRight /\ ~qtTooSoon /\ NoOlderThanItsTtl
         /\ \A t \in QtThread : Asking(t) /\ (Locked => Alone(t))

LEMMA QtStart == QtInit => QtInv
<1> SUFFICES ASSUME QtInit PROVE QtInv
  OBVIOUS
<1> USE QtAssumption DEF QtInit, Never, NoQuote, QtTimes, NoFetch, QtKinds, Locked
<1>1. QtTypeOK
  <2>1. Never \in QtTimes /\ NoFetch \in [start : QtTimes, from : QtTimes, toGo : 0..2]
    OBVIOUS
  <2>2. qtFetch \in [QtThread -> [start : QtTimes, from : QtTimes, toGo : 0..2]]
    BY <2>1 DEF QtInit
  <2>3. qtEntry \in [at : QtTimes, from : QtTimes] /\ qtNow \in 0..QtEnd
    BY <2>1
  <2>4. qtLook \in [QtThread -> QtTimes] /\ qtGot \in [QtThread -> QtTimes] /\ qtWake \in [QtThread -> Int]
    BY <2>1
  <2> QED BY <2>1, <2>2, <2>3, <2>4 DEF QtTypeOK
<1>2. EntryRight /\ ~qtTooSoon /\ NoOlderThanItsTtl
  BY DEF EntryRight, NoOlderThanItsTtl
<1>3. ASSUME NEW t \in QtThread PROVE Asking(t) /\ (Locked => Alone(t))
  BY DEF Asking, Alone, Fetching
<1> QED BY <1>1, <1>2, <1>3 DEF QtInv

LEMMA QtSafe == QtInv => QuotesRight
<1> SUFFICES ASSUME QtInv PROVE QuotesRight
  OBVIOUS
<1>1. OneFetch /\ NeverBack
  BY DEF QtInv, OneFetch, NeverBack, EntryRight, Alone, Fetching, Locked
<1> QED BY <1>1 DEF QtInv, QuotesRight, KeepDistance

LEMMA QtTickKept == QtInv /\ Tick => QtInv'
<1> SUFFICES ASSUME QtInv, Tick PROVE QtInv'
  OBVIOUS
<1> USE QtAssumption DEF Tick, qtLimit, QtTypeOK, QtTimes, Never, QtKinds, Locked
<1>1. QtTypeOK'
  BY DEF QtInv
<1>2. EntryRight' /\ ~qtTooSoon'
  BY DEF QtInv, EntryRight
<1>4. NoOlderThanItsTtl'
  BY DEF QtInv, NoOlderThanItsTtl
<1>3. ASSUME NEW t \in QtThread PROVE Asking(t)' /\ (Locked => Alone(t))'
  BY DEF QtInv, Asking, Alone, Fetching, EntryRight
<1> QED BY <1>1, <1>2, <1>3, <1>4 DEF QtInv

QtFetches == [start : QtTimes, from : QtTimes, toGo : 0..2]

\* What a step of one thread leaves of another.
OthersLeft(t) ==
  \A u \in QtThread \ {t} :
    /\ qtPc'[u] = qtPc[u] /\ qtLook'[u] = qtLook[u] /\ qtFetch'[u] = qtFetch[u]
    /\ qtGot'[u] = qtGot[u] /\ qtWake'[u] = qtWake[u]

LEMMA ThreadStep ==
  ASSUME QtInv, NEW t \in QtThread, OthersLeft(t), QtTypeOK', EntryRight', ~qtTooSoon',
         qtNow' = qtNow, qtKind' = qtKind, Asking(t)', Locked => Alone(t)',
         qtGot'[t] # Never => qtGot'[t] > qtLook'[t] - QtTtl,
         qtSpacer \in {t, QtNobody} \/ (qtSpacer' = qtSpacer /\ qtLast' = qtLast),
         Locked => /\ (qtFetcher' = qtFetcher \/ qtFetcher \in {t, QtNobody})
                   /\ (qtEntry' = qtEntry \/ (qtFetcher = t /\ qtEntry'.from >= qtEntry.from))
  PROVE  QtInv'
<1>1. NoOlderThanItsTtl'
  BY DEF QtInv, NoOlderThanItsTtl, OthersLeft, Never
<1>2. ASSUME NEW u \in QtThread PROVE Asking(u)' /\ (Locked' => Alone(u)')
  <2>1. CASE u = t
    BY <2>1 DEF Locked
  <2>2. CASE u # t
    <3>1. Asking(u) /\ (Locked => Alone(u))
      BY DEF QtInv
    <3>2. Fetching(u)' <=> Fetching(u)
      BY <2>2 DEF OthersLeft, Fetching
    <3>3. Asking(u)'
      BY <2>2, <3>1, <3>2, QtAssumption DEF Asking, OthersLeft, Never, Fetching
    <3>4. ASSUME Locked PROVE Alone(u)'
      BY <2>2, <3>1, <3>2, <3>4, QtAssumption DEF Alone, OthersLeft, Never, QtInv, QtTypeOK, QtTimes
    <3> QED BY <3>3, <3>4 DEF Locked
  <2> QED BY <2>1, <2>2
<1> QED BY <1>1, <1>2 DEF QtInv

LEMMA LookStep == ASSUME QtInv, NEW t \in QtThread, LookUp(t) \/ LookAgain(t) PROVE QtInv'
<1> USE QtAssumption DEF QtTimes, Never, QtKinds, Locked
<1>1. CASE LookUp(t)
  <2> USE <1>1 DEF LookUp, Goes, Given, Begins, Fresh, qtLimit
  <2>1. QtTypeOK'
    <3>1. [start |-> qtNow, from |-> Never, toGo |-> Requests] \in QtFetches
      BY DEF Requests, QtFetches, QtInv, QtTypeOK
    <3>2. qtFetch' \in [QtThread -> QtFetches]
      BY <3>1 DEF QtInv, QtTypeOK, QtFetches
    <3>3. qtEntry \in [at : QtTimes, from : QtTimes] /\ qtGot \in [QtThread -> QtTimes]
      BY DEF QtInv, QtTypeOK
    <3>4. qtGot' \in [QtThread -> QtTimes]
      BY <3>3
    <3>5. qtPc' \in [QtThread -> {"idle", "queue", "call", "sleep", "asked"}] /\ qtFetcher' \in QtThread \cup {QtNobody}
      BY DEF QtInv, QtTypeOK
    <3> QED BY <3>2, <3>4, <3>5 DEF QtInv, QtTypeOK, QtFetches
  <2>2. OthersLeft(t) /\ EntryRight' /\ ~qtTooSoon'
    BY DEF OthersLeft, QtInv, QtTypeOK, EntryRight
  <2>3. Asking(t)' /\ (Locked => Alone(t)')
    BY DEF Asking, Alone, Fetching, QtInv, QtTypeOK, EntryRight, Requests
  <2>4. qtGot'[t] # Never => qtGot'[t] > qtLook'[t] - QtTtl
    BY DEF QtInv, QtTypeOK, EntryRight
  <2> QED BY <2>1, <2>2, <2>3, <2>4, ThreadStep
<1>2. CASE LookAgain(t)
  <2> USE <1>2 DEF LookAgain, Goes, Given, Begins, Fresh, qtLimit
  <2>1. QtTypeOK'
    <3>1. [start |-> qtNow, from |-> Never, toGo |-> Requests] \in QtFetches
      BY DEF Requests, QtFetches, QtInv, QtTypeOK
    <3>2. qtFetch' \in [QtThread -> QtFetches]
      BY <3>1 DEF QtInv, QtTypeOK, QtFetches
    <3> QED BY SMTT(40), <3>2 DEF QtInv, QtTypeOK, QtFetches
  <2>2. OthersLeft(t) /\ EntryRight' /\ ~qtTooSoon'
    BY DEF OthersLeft, QtInv, QtTypeOK, EntryRight
  <2>3. Asking(t)' /\ (Locked => Alone(t)')
    BY DEF Asking, Alone, Fetching, QtInv, QtTypeOK, EntryRight, Requests
  <2>4. qtGot'[t] # Never => qtGot'[t] > qtLook'[t] - QtTtl
    BY DEF QtInv, QtTypeOK, EntryRight, Asking, NoOlderThanItsTtl
  <2> QED BY <2>1, <2>2, <2>3, <2>4, ThreadStep
<1> QED BY <1>1, <1>2

LEMMA SpacedStep == ASSUME QtInv, NEW t \in QtThread, Sleep(t) \/ LetGo(t) \/ Repeat(t) PROVE QtInv'
<1> USE QtAssumption DEF QtTimes, Never, QtKinds, Locked, Goes, qtLimit
<1>1. CASE Sleep(t)
  <2> USE <1>1 DEF Sleep
  <2>1. QtTypeOK'
    BY DEF QtInv, QtTypeOK
  <2>2. OthersLeft(t) /\ EntryRight' /\ ~qtTooSoon'
    BY DEF OthersLeft, QtInv, QtTypeOK, EntryRight
  <2>3. Asking(t)' /\ (Locked => Alone(t)')
    BY DEF Asking, Alone, Fetching, QtInv, QtTypeOK, EntryRight
  <2>4. qtGot'[t] # Never => qtGot'[t] > qtLook'[t] - QtTtl
    BY DEF QtInv, NoOlderThanItsTtl
  <2> QED BY <2>1, <2>2, <2>3, <2>4, ThreadStep
<1>2. CASE LetGo(t)
  <2> USE <1>2 DEF LetGo
  <2>1. QtTypeOK'
    <3>1. [qtFetch[t] EXCEPT !.from = IF @ = Never THEN qtNow ELSE @] \in QtFetches
      BY SMTT(40) DEF QtFetches, QtInv, QtTypeOK
    <3>2. qtFetch' \in [QtThread -> QtFetches]
      BY <3>1 DEF QtInv, QtTypeOK, QtFetches
    <3>3. qtPc' \in [QtThread -> {"idle", "queue", "call", "sleep", "asked"}] /\ qtSpacer' \in QtThread \cup {QtNobody}
      BY DEF QtInv, QtTypeOK
    <3>4. qtWake' \in [QtThread -> Int] /\ qtLast' \in QtTimes
      BY DEF QtInv, QtTypeOK
    <3>5. qtTooSoon \in BOOLEAN
      BY DEF QtInv, QtTypeOK
    <3>6. qtTooSoon' \in BOOLEAN
      BY <3>5, Zenon
    <3> QED BY <3>2, <3>3, <3>4, <3>6 DEF QtInv, QtTypeOK, QtFetches
  <2>2. OthersLeft(t) /\ EntryRight' /\ ~qtTooSoon'
    BY DEF OthersLeft, QtInv, QtTypeOK, EntryRight, Asking
  <2>3. Asking(t)' /\ (Locked => Alone(t)')
    BY DEF Asking, Alone, Fetching, QtInv, QtTypeOK, EntryRight
  <2>4. qtGot'[t] # Never => qtGot'[t] > qtLook'[t] - QtTtl
    BY DEF QtInv, NoOlderThanItsTtl
  <2>5. qtSpacer \in {t, QtNobody} \/ (qtSpacer' = qtSpacer /\ qtLast' = qtLast)
    BY DEF QtInv, Asking
  <2> QED BY <2>1, <2>2, <2>3, <2>4, <2>5, ThreadStep
<1>3. CASE Repeat(t)
  <2> USE <1>3 DEF Repeat
  <2>1. QtTypeOK'
    BY DEF QtInv, QtTypeOK
  <2>2. OthersLeft(t) /\ EntryRight' /\ ~qtTooSoon'
    BY DEF OthersLeft, QtInv, QtTypeOK, EntryRight
  <2>3. Asking(t)' /\ (Locked => Alone(t)')
    BY DEF Asking, Alone, Fetching, QtInv, QtTypeOK, EntryRight
  <2>4. qtGot'[t] # Never => qtGot'[t] > qtLook'[t] - QtTtl
    BY DEF QtInv, NoOlderThanItsTtl
  <2> QED BY <2>1, <2>2, <2>3, <2>4, ThreadStep
<1> QED BY <1>1, <1>2, <1>3

LEMMA AnswerStep == ASSUME QtInv, NEW t \in QtThread, Reply(t) \/ FailShown(t) \/ FailKept(t) PROVE QtInv'
<1> USE QtAssumption DEF QtTimes, Never, QtKinds, Locked, Goes, Given, Returns, NoFetch, qtLimit
<1>1. CASE Reply(t) /\ qtFetch[t].toGo = 1
  <2> USE <1>1 DEF Reply, Stored
  <2>1. QtTypeOK'
    <3>1. NoFetch \in QtFetches /\ qtFetch[t] \in QtFetches
      BY SMTT(40) DEF QtFetches, QtInv, QtTypeOK
    <3>2. qtFetch' \in [QtThread -> QtFetches]
      BY <3>1 DEF QtInv, QtTypeOK, QtFetches
    <3>3. qtFetch[t].start \in QtTimes /\ qtFetch[t].from \in QtTimes
      BY <3>1 DEF QtFetches
    <3>4. qtEntry' \in [at : QtTimes, from : QtTimes] /\ qtBegan' \in QtTimes
      BY <3>3
    <3>5. qtGot' \in [QtThread -> QtTimes]
      BY <3>3 DEF QtInv, QtTypeOK
    <3>6. qtPc' \in [QtThread -> {"idle", "queue", "call", "sleep", "asked"}] /\ qtFetcher' \in QtThread \cup {QtNobody}
      BY DEF QtInv, QtTypeOK
    <3> QED BY <3>2, <3>4, <3>5, <3>6 DEF QtInv, QtTypeOK, QtFetches
  <2>2. OthersLeft(t) /\ EntryRight' /\ ~qtTooSoon'
    BY DEF OthersLeft, QtInv, QtTypeOK, EntryRight, Asking, Fetching
  <2>3. Asking(t)' /\ (Locked => Alone(t)')
    BY DEF Asking, Alone, Fetching, QtInv, QtTypeOK, EntryRight
  <2>4. qtGot'[t] # Never => qtGot'[t] > qtLook'[t] - QtTtl
    BY DEF QtInv, QtTypeOK, Asking, Fetching
  <2>5. Locked => qtFetcher = t /\ qtEntry'.from >= qtEntry.from
    BY DEF QtInv, QtTypeOK, Asking, Alone, Fetching
  <2> QED BY <2>1, <2>2, <2>3, <2>4, <2>5, ThreadStep
<1>2. CASE Reply(t) /\ qtFetch[t].toGo # 1
  <2> USE <1>2 DEF Reply
  <2>0. qtFetch[t].toGo - 1 \in 0..2
    BY DEF QtInv, QtTypeOK, Asking, Fetching
  <2>1. QtTypeOK'
    BY SMTT(40), <2>0 DEF QtInv, QtTypeOK
  <2>2. OthersLeft(t) /\ EntryRight' /\ ~qtTooSoon'
    BY DEF OthersLeft, QtInv, QtTypeOK, EntryRight
  <2>3. Asking(t)' /\ (Locked => Alone(t)')
    BY DEF Asking, Alone, Fetching, QtInv, QtTypeOK, EntryRight
  <2>4. qtGot'[t] # Never => qtGot'[t] > qtLook'[t] - QtTtl
    BY DEF QtInv, NoOlderThanItsTtl
  <2> QED BY <2>1, <2>2, <2>3, <2>4, ThreadStep
<1>3. CASE FailShown(t)
  <2> USE <1>3 DEF FailShown
  <2>1. QtTypeOK'
    BY DEF QtInv, QtTypeOK
  <2>2. OthersLeft(t) /\ EntryRight' /\ ~qtTooSoon'
    BY DEF OthersLeft, QtInv, QtTypeOK, EntryRight
  <2>3. Asking(t)' /\ (Locked => Alone(t)')
    BY DEF Asking, Alone, Fetching, QtInv, QtTypeOK, EntryRight
  <2>4. qtGot'[t] # Never => qtGot'[t] > qtLook'[t] - QtTtl
    BY DEF QtInv, NoOlderThanItsTtl
  <2>5. Locked => qtFetcher = t
    BY DEF QtInv, Alone, Fetching
  <2> QED BY <2>1, <2>2, <2>3, <2>4, <2>5, ThreadStep
<1>4. CASE FailKept(t)
  <2> USE <1>4 DEF FailKept
  <2>1. QtTypeOK'
    BY DEF QtInv, QtTypeOK
  <2>2. OthersLeft(t) /\ EntryRight' /\ ~qtTooSoon'
    BY DEF OthersLeft, QtInv, QtTypeOK, EntryRight, Asking, Fetching
  <2>3. Asking(t)' /\ ~Locked
    BY DEF Asking, Alone, Fetching, QtInv, QtTypeOK, EntryRight
  <2>4. qtGot'[t] # Never => qtGot'[t] > qtLook'[t] - QtTtl
    BY DEF QtInv, QtTypeOK, Asking, Fetching
  <2> QED BY <2>1, <2>2, <2>3, <2>4, ThreadStep
<1> QED BY <1>1, <1>2, <1>3, <1>4

LEMMA QtKept == QtInv /\ [QtNext]_QtVars => QtInv'
<1> SUFFICES ASSUME QtInv, [QtNext]_QtVars PROVE QtInv'
  OBVIOUS
<1>1. CASE UNCHANGED QtVars
  BY <1>1 DEF QtInv, QtVars, qtLimit, QtTypeOK, EntryRight, NoOlderThanItsTtl, Asking, Alone, Fetching, Locked
<1>2. CASE QtNext
  BY <1>2, QtTickKept, LookStep, SpacedStep, AnswerStep DEF QtNext
<1> QED BY <1>1, <1>2

(***************************************************************************)
(* The token of the other broker (TossToken).                              *)
(***************************************************************************)
InLock(t) == tsPc[t] \in {"again", "issue", "write", "reread", "unlock"}
Lasting(token) == token = tsNewest /\ token > tsAged

\* A call at rest has left nothing behind; a refused token is looked for in a first repetition.
TsCalls(t) ==
  /\ AtRest(t) => tsTry[t] = 0
  /\ tsBad[t] # 0 => tsTry[t] = 1 /\ ~AtRest(t) /\ tsPc[t] # "send"

\* Who works on the file has the lock, and what it makes of it.
OnFile(t) ==
  /\ InLock(t) => tsHolder = t
  /\ tsPc[t] = "issue" => (tsNewest > tsAged => tsFile < tsNewest)
  /\ tsPc[t] = "write" => Lasting(tsMine[t])
  /\ tsPc[t] = "reread" => Lasting(tsFile)
  /\ tsPc[t] = "unlock" => tsMine[t] = tsFile /\ tsMine[t] > tsEnded

\* A token that is used is not newer than the file's, and not ended.
TokenInUse(t) ==
  /\ tsPc[t] = "send" => tsToken[t] \in tsEnded+1..tsFile

\* What is not near its end was got by this code or before it began.
Recognised(token) == token > tsAged => token \in {1, tsNewest}

\* After a refusal the newest token is found.
Repeated(t) ==
  /\ tsPc[t] = "send" => Recognised(tsToken[t])
  /\ tsBad[t] # 0 => /\ tsBad[t] < tsNewest /\ (tsAged = 0 => tsBad[t] = 1)
                     /\ tsPc[t] = "unlock" => Lasting(tsMine[t])
  /\ tsTry[t] > 0 /\ tsBad[t] = 0 /\ tsBusy = 0 =>
       \/ tsPc[t] = "get"  /\ Lasting(tsMem[TsHome[t]])
       \/ tsPc[t] = "send" /\ Lasting(tsToken[t])

SharedFile ==
  /\ tsFile <= tsNewest /\ Recognised(tsFile)
  /\ (tsHolder # TsNobody => tsLock = "held")
  /\ \A p \in TsProcess : tsMem[p] <= tsFile /\ Recognised(tsMem[p])

\* A removed lock of a living process takes away all but the shape of the calls.
TsInv ==
  /\ TsTypeOK /\ RefusedOnce
  /\ \A t \in TsThread : TsCalls(t)
  /\ ~tsBroken => SharedFile /\ \A t \in TsThread : OnFile(t) /\ TokenInUse(t) /\ Repeated(t)

LEMMA TsStart == TsInit => TsInv
<1> SUFFICES ASSUME TsInit PROVE TsInv
  OBVIOUS
<1> USE TsAssumption DEF TsInit
<1>1. TsTypeOK
  <2>1. tsPc \in [TsThread -> {"idle"}] /\ tsToken \in [TsThread -> {0}] /\ tsMem \in [TsProcess -> {0, 1}]
    OBVIOUS
  <2>2. tsBroken \in BOOLEAN
    OBVIOUS
  <2>3. tsBad = tsToken /\ tsMine = tsToken /\ tsTry = tsToken
    OBVIOUS
  <2>4. tsGuard \in [TsProcess -> TsThread \cup {TsNobody}]
    OBVIOUS
  <2> QED BY <2>1, <2>2, <2>3, <2>4 DEF TsTypeOK
<1>2. RefusedOnce
  BY DEF RefusedOnce
<1>3. ASSUME NEW t \in TsThread PROVE TsCalls(t) /\ OnFile(t) /\ TokenInUse(t) /\ Repeated(t)
  BY DEF TsCalls, OnFile, TokenInUse, Repeated, AtRest, InLock
<1>4. SharedFile
  BY DEF SharedFile, Recognised
<1> QED BY <1>1, <1>2, <1>3, <1>4 DEF TsInv

LEMMA TsSafe == TsInv => TossRight
BY TsAssumption DEF TsInv, TossRight, NoneRevoked, OnFile, TokenInUse, SharedFile, TsTypeOK

LEMMA TsNumbers ==
  ASSUME TsTypeOK, NEW u \in TsThread
  PROVE  TsHome[u] \in TsProcess /\ tsMem[TsHome[u]] \in Nat /\ tsToken[u] \in Nat /\ tsFile \in Nat
<1>1. TsHome[u] \in TsProcess /\ tsMem[TsHome[u]] \in 0..TsTokens
  BY TsAssumption DEF TsTypeOK
<1>2. tsToken[u] \in 0..TsTokens /\ tsFile \in 0..TsTokens /\ TsTokens \in Nat
  BY TsAssumption DEF TsTypeOK
<1> QED BY <1>1, <1>2

\* A request, its answers, and its end.
LEMMA TsCallStep ==
  ASSUME TsInv, NEW t \in TsThread, Request(t) \/ Accepted(t) \/ Unanswered(t) \/ Busy(t)
  PROVE  TsInv'
<1> USE TsAssumption DEF Request, Accepted, Unanswered, Busy, Turns, Ends, Has, Free, Removed, Usable, tsBroker, tsLocks, tsCall, tsCount
<1>1. TsTypeOK'
  BY DEF TsInv, TsTypeOK
<1>2. ASSUME NEW u \in TsThread PROVE TsCalls(u)'
  BY DEF TsInv, TsTypeOK, TsCalls, AtRest
<1>3. ASSUME ~tsBroken' PROVE ~tsBroken /\ SharedFile'
  BY <1>3 DEF TsInv, TsTypeOK, SharedFile, OnFile, InLock, Recognised, Lasting
<1>4. ASSUME ~tsBroken', NEW u \in TsThread PROVE OnFile(u)'
  BY <1>3, <1>4 DEF TsInv, TsTypeOK, SharedFile, OnFile, InLock, Lasting
<1>5. ASSUME ~tsBroken', NEW u \in TsThread PROVE TokenInUse(u)'
  BY <1>3, <1>5 DEF TsInv, TsTypeOK, SharedFile, OnFile, InLock, TokenInUse, Lasting
<1>6. ASSUME ~tsBroken', NEW u \in TsThread PROVE Repeated(u)'
  <2>1. CASE u = t
    BY <1>3, <1>6, <2>1 DEF TsInv, TsTypeOK, TsCalls, AtRest, SharedFile, OnFile, InLock, TokenInUse, Repeated, Recognised, Lasting, Valid
  <2>2. CASE u # t
    <3>1. Repeated(u) /\ TsCalls(u) /\ TokenInUse(u) /\ OnFile(u) /\ OnFile(t) /\ Repeated(t) /\ SharedFile
      BY <1>3, <1>6 DEF TsInv
    <3>2. TsHome[u] \in TsProcess /\ tsMem[TsHome[u]] \in Nat /\ tsToken[u] \in Nat /\ tsFile \in Nat
      BY TsNumbers DEF TsInv
    <3> QED
      BY <1>3, <1>6, <2>2, <3>1, <3>2 DEF TsInv, TsTypeOK, TsCalls, AtRest, SharedFile, OnFile, InLock, TokenInUse, Repeated, Recognised, Lasting
  <2> QED BY <2>1, <2>2
<1>7. RefusedOnce'
  BY DEF TsInv, TsTypeOK, RefusedOnce
<1> QED BY <1>1, <1>2, <1>3, <1>4, <1>5, <1>6, <1>7 DEF TsInv

\* The answer 401.
LEMMA TsRefusalStep ==
  ASSUME TsInv, NEW t \in TsThread, Unauthorized(t)
  PROVE  TsInv'
<1> USE TsAssumption DEF Unauthorized, Turns, Ends, Has, Free, Removed, Usable, tsBroker, tsLocks, tsCall, tsCount
<1>1. TsTypeOK'
  BY DEF TsInv, TsTypeOK
<1>2. ASSUME NEW u \in TsThread PROVE TsCalls(u)'
  BY DEF TsInv, TsTypeOK, TsCalls, AtRest
<1>3. ASSUME ~tsBroken' PROVE ~tsBroken /\ SharedFile'
  BY <1>3 DEF TsInv, TsTypeOK, SharedFile, OnFile, InLock, Recognised, Lasting
<1>4. ASSUME ~tsBroken', NEW u \in TsThread PROVE OnFile(u)'
  BY <1>3, <1>4 DEF TsInv, TsTypeOK, SharedFile, OnFile, InLock, Lasting
<1>5. ASSUME ~tsBroken', NEW u \in TsThread PROVE TokenInUse(u)'
  BY <1>3, <1>5 DEF TsInv, TsTypeOK, SharedFile, OnFile, InLock, TokenInUse, Lasting
<1>6. ASSUME ~tsBroken', NEW u \in TsThread PROVE Repeated(u)'
  <2>1. CASE u = t
    BY <1>3, <1>6, <2>1 DEF TsInv, TsTypeOK, TsCalls, AtRest, SharedFile, OnFile, InLock, TokenInUse, Repeated, Recognised, Lasting, Valid
  <2>2. CASE u # t
    <3>1. Repeated(u) /\ TsCalls(u) /\ TokenInUse(u) /\ OnFile(u) /\ OnFile(t) /\ Repeated(t) /\ SharedFile
      BY <1>3, <1>6 DEF TsInv
    <3>2. TsHome[u] \in TsProcess /\ tsMem[TsHome[u]] \in Nat /\ tsToken[u] \in Nat /\ tsFile \in Nat
      BY TsNumbers DEF TsInv
    <3> QED
      BY <1>3, <1>6, <2>2, <3>1, <3>2 DEF TsInv, TsTypeOK, TsCalls, AtRest, SharedFile, OnFile, InLock, TokenInUse, Repeated, Recognised, Lasting
  <2> QED BY <2>1, <2>2
<1>7. RefusedOnce'
  BY DEF TsInv, TsTypeOK, RefusedOnce, TsCalls, Repeated, SharedFile, OnFile, InLock, TokenInUse, Lasting, AtRest, Valid
<1> QED BY <1>1, <1>2, <1>3, <1>4, <1>5, <1>6, <1>7 DEF TsInv

\* _get_token looks in memory and in the file.
LEMMA TsLookStep ==
  ASSUME TsInv, NEW t \in TsThread, FromMemory(t) \/ FromFile(t)
  PROVE  TsInv'
<1> USE TsAssumption DEF FromMemory, FromFile, Turns, Ends, Has, Free, Removed, Usable, tsBroker, tsLocks, tsCall, tsCount
<1>1. TsTypeOK'
  <2>1. tsFile \in 0..TsTokens /\ TsHome[t] \in TsProcess /\ tsMem[TsHome[t]] \in 0..TsTokens
    BY DEF TsInv, TsTypeOK
  <2>2. /\ tsMem' \in [TsProcess -> 0..TsTokens] /\ tsGuard' \in [TsProcess -> TsThread \cup {TsNobody}]
    BY <2>1 DEF TsInv, TsTypeOK
  <2>3. tsToken' \in [TsThread -> 0..TsTokens] /\ tsBad' \in [TsThread -> 0..TsTokens]
    BY <2>1 DEF TsInv, TsTypeOK
  <2>4. tsPc' \in [TsThread -> {"idle", "get", "send", "file", "lock", "remove", "again", "issue",
                              "write", "reread", "unlock", "refused"}]
    BY DEF TsInv, TsTypeOK
  <2>5. UNCHANGED <<tsNewest, tsAged, tsEnded, tsFile, tsLock, tsHolder, tsBroken, tsMine, tsTry, tsDeaths, tsBusy>>
    OBVIOUS
  <2> QED BY <2>2, <2>3, <2>4, <2>5 DEF TsInv, TsTypeOK
<1>2. ASSUME NEW u \in TsThread PROVE TsCalls(u)'
  BY DEF TsInv, TsTypeOK, TsCalls, AtRest
<1>3. ASSUME ~tsBroken' PROVE ~tsBroken /\ SharedFile'
  BY <1>3 DEF TsInv, TsTypeOK, SharedFile, OnFile, InLock, Recognised, Lasting
<1>4. ASSUME ~tsBroken', NEW u \in TsThread PROVE OnFile(u)'
  BY <1>3, <1>4 DEF TsInv, TsTypeOK, SharedFile, OnFile, InLock, Lasting
<1>5. ASSUME ~tsBroken', NEW u \in TsThread PROVE TokenInUse(u)'
  BY <1>3, <1>5 DEF TsInv, TsTypeOK, SharedFile, OnFile, InLock, TokenInUse, Lasting
<1>6. ASSUME ~tsBroken', NEW u \in TsThread PROVE Repeated(u)'
  <2>1. CASE u = t
    BY <1>3, <1>6, <2>1 DEF TsInv, TsTypeOK, TsCalls, AtRest, SharedFile, OnFile, InLock, TokenInUse, Repeated, Recognised, Lasting, Valid
  <2>2. CASE u # t
    <3>1. Repeated(u) /\ TsCalls(u) /\ TokenInUse(u) /\ OnFile(u) /\ OnFile(t) /\ Repeated(t) /\ SharedFile
      BY <1>3, <1>6 DEF TsInv
    <3>2. TsHome[u] \in TsProcess /\ tsMem[TsHome[u]] \in Nat /\ tsToken[u] \in Nat /\ tsFile \in Nat
      BY TsNumbers DEF TsInv
    <3> QED
      BY <1>3, <1>6, <2>2, <3>1, <3>2 DEF TsInv, TsTypeOK, TsCalls, AtRest, SharedFile, OnFile, InLock, TokenInUse, Repeated, Recognised, Lasting
  <2> QED BY <2>1, <2>2
<1>7. RefusedOnce'
  BY DEF TsInv, TsTypeOK, RefusedOnce
<1> QED BY <1>1, <1>2, <1>3, <1>4, <1>5, <1>6, <1>7 DEF TsInv

\* The lock file is made, or removed as too old.
LEMMA TsLockStep ==
  ASSUME TsInv, NEW t \in TsThread, MakeLock(t) \/ SeeOldLock(t) \/ RemoveOldLock(t) \/ LockTimeout(t)
  PROVE  TsInv'
<1> USE TsAssumption DEF MakeLock, SeeOldLock, RemoveOldLock, LockTimeout, Turns, Ends, Has, Free, Removed, Usable, tsBroker, tsLocks, tsCall, tsCount
<1>1. TsTypeOK'
  <2>1. tsBroken \in BOOLEAN
    BY DEF TsInv, TsTypeOK
  <2>2. tsBroken' \in BOOLEAN
    BY <2>1, Zenon
  <2> QED BY <2>2 DEF TsInv, TsTypeOK
<1>2. ASSUME NEW u \in TsThread PROVE TsCalls(u)'
  BY DEF TsInv, TsTypeOK, TsCalls, AtRest
<1>3. ASSUME ~tsBroken' PROVE ~tsBroken /\ SharedFile'
  BY <1>3 DEF TsInv, TsTypeOK, SharedFile, OnFile, InLock, Recognised, Lasting
<1>4. ASSUME ~tsBroken', NEW u \in TsThread PROVE OnFile(u)'
  <2>1. CASE u = t
    BY <1>3, <1>4, <2>1 DEF TsInv, TsTypeOK, SharedFile, OnFile, InLock, Lasting
  <2>2. CASE u # t
    <3>1. OnFile(u) /\ SharedFile
      BY <1>3, <1>4 DEF TsInv
    <3>2. tsPc'[u] = tsPc[u] /\ tsMine'[u] = tsMine[u]
      BY <2>2 DEF TsInv, TsTypeOK
    <3>3. UNCHANGED <<tsFile, tsEnded, tsNewest, tsAged>>
      OBVIOUS
    <3>4. ASSUME InLock(u) PROVE tsHolder' = tsHolder
      <4>1. tsHolder = u /\ tsLock = "held"
        BY <3>1, <3>4 DEF OnFile, SharedFile, TsInv, TsTypeOK
      <4>2. CASE RemoveOldLock(t)
        BY <1>4, <2>2, <4>1, <4>2
      <4>3. CASE MakeLock(t) \/ SeeOldLock(t) \/ LockTimeout(t)
        BY <4>1, <4>3
      <4> QED BY <4>2, <4>3
    <3> QED
      BY <3>1, <3>2, <3>3, <3>4 DEF OnFile, InLock, Lasting
  <2> QED BY <2>1, <2>2
<1>5. ASSUME ~tsBroken', NEW u \in TsThread PROVE TokenInUse(u)'
  BY <1>3, <1>5 DEF TsInv, TsTypeOK, SharedFile, OnFile, InLock, TokenInUse, Lasting
<1>6. ASSUME ~tsBroken', NEW u \in TsThread PROVE Repeated(u)'
  <2>1. CASE u = t
    BY <1>3, <1>6, <2>1 DEF TsInv, TsTypeOK, TsCalls, AtRest, SharedFile, OnFile, InLock, TokenInUse, Repeated, Recognised, Lasting, Valid
  <2>2. CASE u # t
    <3>1. Repeated(u) /\ TsCalls(u) /\ TokenInUse(u) /\ OnFile(u) /\ OnFile(t) /\ Repeated(t) /\ SharedFile
      BY <1>3, <1>6 DEF TsInv
    <3>2. TsHome[u] \in TsProcess /\ tsMem[TsHome[u]] \in Nat /\ tsToken[u] \in Nat /\ tsFile \in Nat
      BY TsNumbers DEF TsInv
    <3> QED
      BY <1>3, <1>6, <2>2, <3>1, <3>2 DEF TsInv, TsTypeOK, TsCalls, AtRest, SharedFile, OnFile, InLock, TokenInUse, Repeated, Recognised, Lasting
  <2> QED BY <2>1, <2>2
<1>7. RefusedOnce'
  BY DEF TsInv, TsTypeOK, RefusedOnce
<1> QED BY <1>1, <1>2, <1>3, <1>4, <1>5, <1>6, <1>7 DEF TsInv

\* Under the lock: the second look and the new token.
LEMMA TsIssueStep ==
  ASSUME TsInv, NEW t \in TsThread, ReadAgain(t) \/ IssueToken(t) \/ WriteToken(t) \/ Reread(t)
  PROVE  TsInv'
<1> USE TsAssumption DEF ReadAgain, IssueToken, WriteToken, Reread, Turns, Ends, Has, Free, Removed, Usable, tsBroker, tsLocks, tsCall, tsCount
<1>1. TsTypeOK'
  BY DEF TsInv, TsTypeOK
<1>2. ASSUME NEW u \in TsThread PROVE TsCalls(u)'
  BY DEF TsInv, TsTypeOK, TsCalls, AtRest
<1>3. ASSUME ~tsBroken' PROVE ~tsBroken /\ SharedFile'
  BY <1>3 DEF TsInv, TsTypeOK, SharedFile, OnFile, InLock, Recognised, Lasting
<1>4. ASSUME ~tsBroken', NEW u \in TsThread PROVE OnFile(u)'
  BY <1>3, <1>4 DEF TsInv, TsTypeOK, SharedFile, OnFile, InLock, Lasting, Repeated
<1>5. ASSUME ~tsBroken', NEW u \in TsThread PROVE TokenInUse(u)'
  BY <1>3, <1>5 DEF TsInv, TsTypeOK, SharedFile, OnFile, InLock, TokenInUse, Lasting
<1>6. ASSUME ~tsBroken', NEW u \in TsThread PROVE Repeated(u)'
  <2>1. CASE u = t
    BY <1>3, <1>6, <2>1 DEF TsInv, TsTypeOK, TsCalls, AtRest, SharedFile, OnFile, InLock, TokenInUse, Repeated, Recognised, Lasting, Valid
  <2>2. CASE u # t
    <3>1. Repeated(u) /\ TsCalls(u) /\ TokenInUse(u) /\ OnFile(u) /\ OnFile(t) /\ Repeated(t) /\ SharedFile
      BY <1>3, <1>6 DEF TsInv
    <3>2. TsHome[u] \in TsProcess /\ tsMem[TsHome[u]] \in Nat /\ tsToken[u] \in Nat /\ tsFile \in Nat
      BY TsNumbers DEF TsInv
    <3> QED
      BY <1>3, <1>6, <2>2, <3>1, <3>2 DEF TsInv, TsTypeOK, TsCalls, AtRest, SharedFile, OnFile, InLock, TokenInUse, Repeated, Recognised, Lasting
  <2> QED BY <2>1, <2>2
<1>7. RefusedOnce'
  BY DEF TsInv, TsTypeOK, RefusedOnce
<1> QED BY <1>1, <1>2, <1>3, <1>4, <1>5, <1>6, <1>7 DEF TsInv

\* The lock is given back.
LEMMA TsEndStep ==
  ASSUME TsInv, NEW t \in TsThread, Unlocked(t) \/ IssueFails(t)
  PROVE  TsInv'
<1> USE TsAssumption DEF Unlocked, IssueFails, Turns, Ends, Has, Free, Removed, Usable, tsBroker, tsLocks, tsCall, tsCount
<1>1. TsTypeOK'
  <2>1. tsBroken \in BOOLEAN /\ TsHome[t] \in TsProcess /\ tsMine \in [TsThread -> 0..TsTokens]
    BY DEF TsInv, TsTypeOK
  <2>2. tsBroken' \in BOOLEAN
    BY <2>1, Zenon
  <2>3. /\ tsMem' \in [TsProcess -> 0..TsTokens] /\ tsGuard' \in [TsProcess -> TsThread \cup {TsNobody}]
        /\ tsLock' = "none" /\ tsHolder' = TsNobody
    BY <2>1 DEF TsInv, TsTypeOK
  <2>4. /\ {tsToken', tsBad', tsMine'} \subseteq [TsThread -> 0..TsTokens] /\ tsTry' \in [TsThread -> 0..2]
    BY <2>1 DEF TsInv, TsTypeOK
  <2>5. tsPc' \in [TsThread -> {"idle", "get", "send", "file", "lock", "remove", "again", "issue",
                              "write", "reread", "unlock", "refused"}]
    BY DEF TsInv, TsTypeOK
  <2>6. tsNewest' = tsNewest /\ tsAged' = tsAged /\ tsEnded' = tsEnded /\ tsFile' = tsFile
        /\ tsDeaths' = tsDeaths /\ tsBusy' = tsBusy
    OBVIOUS
  <2> QED BY <2>2, <2>3, <2>4, <2>5, <2>6 DEF TsInv, TsTypeOK
<1>2. ASSUME NEW u \in TsThread PROVE TsCalls(u)'
  BY DEF TsInv, TsTypeOK, TsCalls, AtRest
<1>3. ASSUME ~tsBroken' PROVE ~tsBroken /\ SharedFile'
  BY <1>3 DEF TsInv, TsTypeOK, SharedFile, OnFile, InLock, Recognised, Lasting
<1>4. ASSUME ~tsBroken', NEW u \in TsThread PROVE OnFile(u)'
  BY <1>3, <1>4 DEF TsInv, TsTypeOK, SharedFile, OnFile, InLock, Lasting
<1>5. ASSUME ~tsBroken', NEW u \in TsThread PROVE TokenInUse(u)'
  BY <1>3, <1>5 DEF TsInv, TsTypeOK, SharedFile, OnFile, InLock, TokenInUse, Lasting
<1>6. ASSUME ~tsBroken', NEW u \in TsThread PROVE Repeated(u)'
  <2>1. CASE u = t
    BY <1>3, <1>6, <2>1 DEF TsInv, TsTypeOK, TsCalls, AtRest, SharedFile, OnFile, InLock, TokenInUse, Repeated, Recognised, Lasting, Valid
  <2>2. CASE u # t
    <3>1. Repeated(u) /\ TsCalls(u) /\ TokenInUse(u) /\ OnFile(u) /\ OnFile(t) /\ Repeated(t) /\ SharedFile
      BY <1>3, <1>6 DEF TsInv
    <3>2. TsHome[u] \in TsProcess /\ tsMem[TsHome[u]] \in Nat /\ tsToken[u] \in Nat /\ tsFile \in Nat
      BY TsNumbers DEF TsInv
    <3> QED
      BY <1>3, <1>6, <2>2, <3>1, <3>2 DEF TsInv, TsTypeOK, TsCalls, AtRest, SharedFile, OnFile, InLock, TokenInUse, Repeated, Recognised, Lasting
  <2> QED BY <2>1, <2>2
<1>7. RefusedOnce'
  BY DEF TsInv, TsTypeOK, RefusedOnce
<1> QED BY <1>1, <1>2, <1>3, <1>4, <1>5, <1>6, <1>7 DEF TsInv

LEMMA TsThreads ==
  ASSUME TsInv, NEW t \in TsThread,
         \/ Request(t) \/ Accepted(t) \/ Unanswered(t) \/ Unauthorized(t) \/ Busy(t)
         \/ FromMemory(t) \/ FromFile(t) \/ MakeLock(t) \/ SeeOldLock(t) \/ RemoveOldLock(t)
         \/ LockTimeout(t) \/ ReadAgain(t) \/ IssueToken(t) \/ WriteToken(t) \/ Reread(t)
         \/ Unlocked(t) \/ IssueFails(t)
  PROVE  TsInv'
  BY TsCallStep, TsRefusalStep, TsLookStep, TsLockStep, TsIssueStep, TsEndStep

LEMMA TsTime == ASSUME TsInv, NearEnd \/ EndToken \/ LockAges PROVE TsInv'
<1> USE TsAssumption DEF NearEnd, EndToken, LockAges, tsLocks, tsCall, tsCount, tsBroker
<1>1. TsTypeOK' /\ RefusedOnce'
  BY DEF TsInv, TsTypeOK, RefusedOnce
<1>2. ASSUME NEW u \in TsThread PROVE TsCalls(u)'
  BY DEF TsInv, TsCalls, AtRest
<1>3. ASSUME ~tsBroken' PROVE ~tsBroken /\ SharedFile'
  BY <1>3 DEF TsInv, TsTypeOK, SharedFile, Recognised
<1>4. ASSUME ~tsBroken', NEW u \in TsThread PROVE OnFile(u)'
  BY <1>3, <1>4 DEF TsInv, TsTypeOK, OnFile, InLock, Lasting
<1>5. ASSUME ~tsBroken', NEW u \in TsThread PROVE TokenInUse(u)'
  BY <1>3, <1>5 DEF TsInv, TsTypeOK, TokenInUse
<1>6. ASSUME ~tsBroken', NEW u \in TsThread PROVE Repeated(u)'
  BY <1>3, <1>6 DEF TsInv, TsTypeOK, TsCalls, Repeated, Recognised, Lasting
<1> QED BY <1>1, <1>2, <1>3, <1>4, <1>5, <1>6 DEF TsInv

LEMMA TsDeath == ASSUME TsInv, NEW p \in TsProcess, Die(p) PROVE TsInv'
<1> USE TsAssumption DEF Die, Forgotten, tsBroker
<1>1. TsTypeOK' /\ RefusedOnce'
  BY DEF TsInv, TsTypeOK, RefusedOnce
<1>2. ASSUME NEW u \in TsThread PROVE TsCalls(u)'
  BY DEF TsInv, TsTypeOK, TsCalls, AtRest
<1>3. ASSUME ~tsBroken' PROVE ~tsBroken /\ SharedFile'
  BY <1>3 DEF TsInv, TsTypeOK, SharedFile, Recognised
<1>4. ASSUME ~tsBroken', NEW u \in TsThread PROVE OnFile(u)'
  BY <1>3, <1>4 DEF TsInv, TsTypeOK, OnFile, InLock, Lasting
<1>5. ASSUME ~tsBroken', NEW u \in TsThread PROVE TokenInUse(u)'
  BY <1>3, <1>5 DEF TsInv, TsTypeOK, TokenInUse
<1>6. ASSUME ~tsBroken', NEW u \in TsThread PROVE Repeated(u)'
  BY <1>3, <1>6 DEF TsInv, TsTypeOK, TsCalls, Repeated, Recognised, Lasting
<1> QED BY <1>1, <1>2, <1>3, <1>4, <1>5, <1>6 DEF TsInv

LEMMA TsKept == TsInv /\ [TsNext]_TsVars => TsInv'
<1> SUFFICES ASSUME TsInv, [TsNext]_TsVars PROVE TsInv'
  OBVIOUS
<1>1. CASE UNCHANGED TsVars
  BY <1>1 DEF TsVars, tsBroker, tsLocks, tsCall, tsCount, TsInv, TsTypeOK, RefusedOnce, TsCalls, SharedFile, Recognised, AtRest,
    OnFile, InLock, Lasting, TokenInUse, Repeated
<1>2. CASE TsNext
  BY <1>2, TsThreads, TsTime, TsDeath DEF TsNext
<1> QED BY <1>1, <1>2

(***************************************************************************)
(* The prices of orders (Screen).                                          *)
(***************************************************************************)
\* The ticks of the prices.
LEMMA Ticks ==
  ASSUME NEW n \in Nat
  PROVE  \/ n < 20000 /\ TickSize(n) = 1
         \/ 20000 <= n /\ n < 50000 /\ TickSize(n) = 5
         \/ 50000 <= n /\ n < 200000 /\ TickSize(n) = 10
         \/ 200000 <= n /\ n < 500000 /\ TickSize(n) = 50
         \/ 500000 <= n /\ n < 2000000 /\ TickSize(n) = 100
         \/ 2000000 <= n /\ n < 5000000 /\ TickSize(n) = 500
         \/ 5000000 <= n /\ TickSize(n) = 1000
  BY DEF TickSize

\* A price rounded down is on a tick and no higher, one rounded up no lower.
LEMMA RoundedDown ==
  ASSUME NEW n \in Nat
  PROVE  /\ RoundTick(n) \in Nat /\ 10 * RoundTick(n) <= n
         /\ RoundTick(n) % TickSize(10 * RoundTick(n)) = 0
<1>1. /\ RoundTick(n) \in Nat /\ 10 * RoundTick(n) <= n
  BY Ticks DEF RoundTick
<1>2. TickSize(10 * RoundTick(n)) = TickSize(n)
  BY Ticks DEF RoundTick, TickSize
<1>3. RoundTick(n) % TickSize(n) = 0
  BY Ticks DEF RoundTick
<1> QED BY <1>1, <1>2, <1>3

LEMMA RoundedUp ==
  ASSUME NEW n \in Nat
  PROVE  /\ CeilTick(n) \in Nat /\ 10 * CeilTick(n) >= n
  BY Ticks DEF CeilTick

\* clamp_to_band: whatever the close of the signal, the depth and the close before the order,
\* a price that is ordered at is one the exchange takes, and not above the limit.
THEOREM OrderPricesTaken ==
  ASSUME NEW close \in Nat, NEW depth \in 1..9, NEW prev \in Nat,
         Clamped(LimitAt(close, depth), prev) # 0
  PROVE  Taken(Clamped(LimitAt(close, depth), prev), LimitAt(close, depth), prev)
<1> DEFINE n == close * (10 - depth)
<1>1. n \in Nat
  OBVIOUS
<1>2. /\ LimitAt(close, depth) \in Nat
      /\ LimitAt(close, depth) % TickSize(10 * LimitAt(close, depth)) = 0
  BY <1>1, RoundedDown DEF LimitAt
<1>3. 13 * prev \in Nat /\ 7 * prev \in Nat
  OBVIOUS
<1>4. /\ UpperLimit(prev) \in Nat /\ 10 * UpperLimit(prev) <= 13 * prev
      /\ UpperLimit(prev) % TickSize(10 * UpperLimit(prev)) = 0
  BY <1>3, RoundedDown DEF UpperLimit
<1>5. LowerLimit(prev) \in Nat /\ 10 * LowerLimit(prev) >= 7 * prev
  BY <1>3, RoundedUp DEF LowerLimit
<1>6. 10 * UpperLimit(prev) >= 7 * prev
  BY <1>3, Ticks DEF UpperLimit, RoundTick
<1> QED
  BY <1>2, <1>4, <1>5, <1>6 DEF Clamped, Taken

(***************************************************************************)
(* A step of the whole is a step of each part, or the part rests.          *)
(***************************************************************************)
Everything == <<part, vars, ThVars, BcVars, FcVars, HdVars, AbVars, RpVars, ScVars, EsVars, PfVars,
                ItVars, PkVars, QtVars, TsVars>>

LEMMA StepOfParts ==
  ASSUME [Next_Trading]_Everything
  PROVE  /\ [BcNext]_BcVars /\ [HdNext]_HdVars /\ [FcNext]_FcVars /\ [AbNext]_AbVars
         /\ [QtNext]_QtVars /\ [TsNext]_TsVars
<1>1. CASE Next_Trading
  BY <1>1 DEF Next_Trading, Others
<1>2. CASE UNCHANGED Everything
  BY <1>2 DEF Everything
<1> QED
  BY <1>1, <1>2 DEF Everything

\* kiwoom_api: whatever refusals, renewals by several threads, missing answers and reloads
\* of the token a call goes through, it places its order at most once, and no caller takes
\* a refusal for data before an older token was put back.  What its caches give was asked
\* for less than their TTL ago, those with a fetch lock are filled by one thread and never
\* go back, and requests keep their distance.  toss_openapi: no process issues a token
\* while the others have one that lasts, unless a lock was taken for a dead process's.
\* And while refreshes fail the holidays of this year stay known, given the cache file the
\* server is installed with.
THEOREM CallsAndCalendar == ASSUME ~HdBlank PROVE Spec_Trading => []BrokerRight
<1>1. Init_Trading => BcInv /\ HdInv /\ QtInv /\ TsInv
  BY BcStart, HdStart, QtStart, TsStart DEF Init_Trading
<1>2. BcInv /\ HdInv /\ QtInv /\ TsInv /\ [Next_Trading]_Everything =>
        (BcInv /\ HdInv /\ QtInv /\ TsInv)'
  BY StepOfParts, BcKept, HdKept, QtKept, TsKept
<1>3. BcInv /\ HdInv /\ QtInv /\ TsInv => BrokerRight
  BY BcSafe, HdSafe, QtSafe, TsSafe DEF BrokerRight
<1> QED
  BY <1>1, <1>2, <1>3, PTL DEF Spec_Trading, Everything

(***************************************************************************)
(* The profit from the total asset (Profits).                              *)
(***************************************************************************)
Baseline == [day : Int, start : Int, last : Int]
AbShape ==
  /\ abAsset \in Int /\ abDay \in Int /\ abMoved \in Int /\ abTraded \in Int /\ abSeen \in Int
  /\ abFile \in Baseline /\ abCopy \in [AbQuery -> [file : Baseline, asset : Int]]
  /\ abClash \in BOOLEAN /\ abSaw \in BOOLEAN /\ abAhead \in BOOLEAN

\* While no two writers have overlapped: the asset is what the day started with, what
\* trading made of it since, and a transfer the user has yet to report; what a query left
\* in the file is the part of it that it saw.
Accounted ==
  /\ abFile.day <= abDay /\ (abMoved = 0 => ~abSaw)
  /\ abFile.day = abDay =>
       /\ abAsset = abFile.start + abTraded + abMoved
       /\ ~abAhead => abFile.last = abFile.start + abSeen + (IF abSaw THEN abMoved ELSE 0)
  /\ abFile.day # abDay =>
       abAsset = abFile.last + abTraded + abMoved /\ abSeen = 0 /\ ~abSaw /\ ~abAhead
AbInv == AbShape /\ (~abClash => Accounted)

LEMMA AbStart == AbInit => AbInv
<1> SUFFICES ASSUME AbInit
             PROVE  AbInv
  OBVIOUS
<1>1. AbTop \div 2 \in Int
  BY AbAssumption
<1>2. AbShape
  <2>1. abFile \in Baseline /\ NoCopy \in [file : Baseline, asset : Int]
    BY <1>1 DEF AbInit, NoCopy, Baseline
  <2>2. abCopy \in [AbQuery -> [file : Baseline, asset : Int]]
    BY <2>1 DEF AbInit
  <2>3. abClash \in BOOLEAN /\ abSaw \in BOOLEAN /\ abAhead \in BOOLEAN
    BY Zenon DEF AbInit
  <2> QED
    BY <1>1, <2>1, <2>2, <2>3 DEF AbInit, AbShape
<1> QED
  BY <1>1, <1>2 DEF AbInit, AbInv, Accounted

LEMMA AbKept == AbInv /\ [AbNext]_AbVars => AbInv'
<1> SUFFICES ASSUME AbInv, [AbNext]_AbVars
             PROVE  AbInv'
  OBVIOUS
<1>1. CASE UNCHANGED AbVars
  BY <1>1 DEF AbVars, AbInv, AbShape, Accounted
<1>2. ASSUME NEW q \in AbQuery, LoadBaseline(q)
      PROVE  AbInv'
  <2>1. UNCHANGED <<abAsset, abDay, abFile, abMoved, abTraded, abSeen, abClash, abSaw, abAhead>>
    BY <1>2 DEF LoadBaseline, abMemory
  <2>2. abCopy' \in [AbQuery -> [file : Baseline, asset : Int]]
    BY <1>2 DEF LoadBaseline, AbInv, AbShape
  <2> QED
    BY <2>1, <2>2 DEF AbInv, AbShape, Accounted
<1>3. ASSUME NEW q \in AbQuery, SaveBaseline(q), ~abClash
      PROVE  AbInv'
  <2> DEFINE f == abCopy[q].file
             asset == abCopy[q].asset
  <2>1. f \in Baseline /\ asset \in Int
    BY DEF AbInv, AbShape
  <2>2. /\ abFile' = [day |-> abDay, last |-> asset, start |-> IF f.day # abDay THEN f.last ELSE f.start]
        /\ abSeen' = abTraded /\ ~abAhead' /\ (abSaw' <=> abMoved # 0)
        /\ ~abClash' => f = abFile /\ asset = abAsset
        /\ UNCHANGED <<abAsset, abDay, abMoved, abTraded>>
    BY <1>3 DEF SaveBaseline, Ensured
  <2>3. abFile' \in Baseline
    BY <2>1, <2>2 DEF AbInv, AbShape, Baseline
  <2>4. abCopy' \in [AbQuery -> [file : Baseline, asset : Int]]
    <3>1. NoCopy \in [file : Baseline, asset : Int]
      BY DEF NoCopy, Baseline
    <3> QED
      BY <1>3, <3>1 DEF SaveBaseline, AbInv, AbShape
  <2>5. abClash' \in BOOLEAN /\ abSaw' \in BOOLEAN /\ abAhead' \in BOOLEAN
    BY <1>3, Zenon DEF SaveBaseline, AbInv, AbShape
  <2>6. AbShape'
    BY <2>2, <2>3, <2>4, <2>5 DEF AbInv, AbShape
  <2>7. ~abClash' => Accounted'
    <3> SUFFICES ASSUME ~abClash'
                 PROVE  Accounted'
      OBVIOUS
    <3>1. /\ abFile'.day = abDay /\ abFile'.last = abAsset
          /\ abFile'.start = IF abFile.day # abDay THEN abFile.last ELSE abFile.start
      BY <2>2
    <3>2. abAsset = abFile'.start + abTraded + abMoved
      BY <1>3, <3>1 DEF AbInv, Accounted
    <3> HIDE DEF f, asset
    <3> QED
      BY <2>2, <3>1, <3>2 DEF AbInv, AbShape, Accounted, Baseline
  <2> QED
    BY <2>6, <2>7 DEF AbInv
<1>4. ASSUME NEW n \in Int, Trade(n)
      PROVE  AbInv'
  <2>1. /\ abAsset' = abAsset + n /\ abTraded' = abTraded + n
        /\ UNCHANGED <<abDay, abFile, abCopy, abMoved, abSeen, abClash, abSaw, abAhead>>
    BY <1>4 DEF Trade
  <2>2. AbShape'
    BY <2>1 DEF AbInv, AbShape
  <2>3. abFile.start \in Int /\ abFile.last \in Int
    BY DEF AbInv, AbShape, Baseline
  <2>4. ~abClash' => Accounted'
    BY <2>1, <2>3 DEF AbInv, AbShape, Accounted
  <2> QED
    BY <2>2, <2>4 DEF AbInv
<1>5. ASSUME NEW n \in Int, Transfer(n)
      PROVE  AbInv'
  <2>1. /\ abMoved = 0 /\ abAsset' = abAsset + n /\ abMoved' = n
        /\ UNCHANGED <<abDay, abFile, abCopy, abTraded, abSeen, abClash, abSaw, abAhead>>
    BY <1>5 DEF Transfer, abMemory
  <2>2. AbShape'
    BY <2>1 DEF AbInv, AbShape
  <2>3. ~abClash' => Accounted'
    <3> SUFFICES ASSUME ~abClash'
                 PROVE  Accounted'
      OBVIOUS
    <3>1. Accounted /\ ~abSaw
      BY <2>1 DEF AbInv, Accounted
    <3>2. abFile.start \in Int /\ abFile.last \in Int
      BY DEF AbInv, AbShape, Baseline
    <3> QED
      BY <2>1, <3>1, <3>2 DEF AbInv, AbShape, Accounted
  <2> QED
    BY <2>2, <2>3 DEF AbInv
<1>6. CASE Report
  <2>1. /\ abFile' = [abFile EXCEPT !.start = @ + abMoved, !.last = @ + abMoved]
        /\ abMoved' = 0 /\ (abAhead' <=> abAhead \/ abSaw) /\ ~abSaw'
        /\ UNCHANGED <<abAsset, abDay, abCopy, abTraded, abSeen, abClash>>
    BY <1>6 DEF Report
  <2>2. /\ abFile' \in Baseline /\ abFile'.day = abFile.day
        /\ abFile'.start = abFile.start + abMoved /\ abFile'.last = abFile.last + abMoved
    <3>1. abFile.start + abMoved \in Int /\ abFile.last + abMoved \in Int
      BY DEF AbInv, AbShape, Baseline
    <3>2. abFile' = [abFile EXCEPT !.start = abFile.start + abMoved, !.last = abFile.last + abMoved]
      BY <2>1 DEF AbInv, AbShape, Baseline
    <3> DEFINE s == abFile.start + abMoved
               l == abFile.last + abMoved
    <3>3. s \in Int /\ l \in Int /\ abFile' = [abFile EXCEPT !.start = s, !.last = l]
      BY <3>1, <3>2
    <3> HIDE DEF s, l
    <3>4. abFile' \in Baseline /\ abFile'.day = abFile.day /\ abFile'.start = s /\ abFile'.last = l
      BY <3>3 DEF AbInv, AbShape, Baseline
    <3> QED
      BY <3>4 DEF s, l
  <2>3. abSaw' \in BOOLEAN /\ abAhead' \in BOOLEAN
    BY <1>6, Zenon DEF Report, AbInv, AbShape
  <2> QED
    BY <2>1, <2>2, <2>3 DEF AbInv, AbShape, Accounted, Baseline
<1>7. CASE NextTradingDay
  <2>1. /\ abMoved = 0 /\ abDay' = abDay + 1
        /\ abTraded' = IF abFile.day = abDay THEN abTraded - abSeen ELSE abTraded
        /\ abSeen' = 0 /\ (abClash' <=> abClash \/ abAhead)
        /\ UNCHANGED <<abAsset, abFile, abCopy, abMoved, abSaw, abAhead>>
    BY <1>7 DEF NextTradingDay
  <2>2. abClash' \in BOOLEAN
    BY <1>7, Zenon DEF NextTradingDay, AbInv, AbShape
  <2> QED
    BY <2>1, <2>2 DEF AbInv, AbShape, Accounted, Baseline
<1>8. ASSUME NEW n \in AbAmount, NEW sign \in {1, -1}, Trade(sign * n) \/ Transfer(sign * n)
      PROVE  AbInv'
  <2>1. sign * n \in Int
    BY AbAssumption
  <2> HIDE DEF AbInv
  <2> QED
    BY <1>4, <1>5, <1>8, <2>1
<1> QED
  BY <1>1, <1>2, <1>3, <1>6, <1>7, <1>8 DEF AbNext

\* kiwoom_trailing_stop._ensure_baseline and record_cash_transfer: for any number of
\* querying threads, days, trades and transfers the profit shown is the one of trading,
\* unless two writers of the file overlapped or a transfer was reported last of a day.
THEOREM ProfitIsOfTrading == AbSpec => []ProfitWithoutTransfers
<1>1. AbInv => ProfitWithoutTransfers
  BY DEF AbInv, AbShape, Accounted, ProfitWithoutTransfers, AssetPnl, Baseline
<1> QED
  BY <1>1, AbStart, AbKept, PTL DEF AbSpec

(***************************************************************************)
(* The mock purchases (FireBuy).                                           *)
(***************************************************************************)
Cycle == [at : {"idle", "choose", "note"}, ranked : Seq(FcCode \X FcPrice),
          before : SUBSET FcCode, count : Nat, limit : Nat, deployed : Nat, buys : Nat,
          last : [FcCode -> 0..COOLDOWN_DAYS] \cup {<<>>}]
FcShape ==
  /\ FcTypeOK /\ fcCycle \in [FcInstance -> Cycle]
  /\ \A i \in FcInstance :
       /\ fcCycle[i].at = "idle" => fcCycle[i].deployed = 0
       /\ fcCycle[i].at # "idle" => fcCycle[i].last \in [FcCode -> 0..COOLDOWN_DAYS]
       /\ fcCycle[i].at = "note" => fcCycle[i].ranked # <<>> /\ fcCycle[i].buys < BUY_SLOTS

\* One process at most is in a cycle, and only while the auction is open.
FcOne ==
  /\ \A i, j \in fcRunning : i = j
  /\ \A i \in FcInstance : fcCycle[i].at # "idle" => i \in fcRunning /\ fcOpen

\* As long as none has died: the state file knows when each code was bought last, but for
\* the purchase that is about to be noted, and the candidates of a cycle are different
\* codes that may be bought, but for that one.
StillFree(y, last, since) ==
  /\ y.last = last
  /\ \A k, l \in 1..Len(y.ranked) : y.ranked[k][1] = y.ranked[l][1] => k = l
  /\ \A k \in 1..Len(y.ranked) :
       k > 1 \/ y.at = "choose" => since[y.ranked[k][1]] >= COOLDOWN_DAYS
  /\ y.at = "note" => since[y.ranked[1][1]] = 0
FcNoted ==
  /\ \A i \in FcInstance : fcCycle[i].at # "idle" => StillFree(fcCycle[i], fcLast, fcSince)
  /\ \A c \in FcCode : \/ fcLast[c] = fcSince[c]
                       \/ \E i \in FcInstance : fcCycle[i].at = "note" /\ fcCycle[i].ranked[1][1] = c
FcInv == FcShape /\ FcOne /\ (fcFault = 0 => FcNoted)

LEMMA CycleChanged ==
  ASSUME FcShape, NEW i \in FcInstance, NEW z \in Cycle, fcCycle' = [fcCycle EXCEPT ![i] = z]
  PROVE  /\ fcCycle' \in [FcInstance -> Cycle] /\ fcCycle'[i] = z
         /\ \A j \in FcInstance : j # i => fcCycle'[j] = fcCycle[j]
  BY DEF FcShape

LEMMA RestingCycle == Resting \in Cycle /\ Resting.at = "idle" /\ Resting.deployed = 0
<1>1. <<>> \in Seq(FcCode \X FcPrice) /\ {} \in SUBSET FcCode
  OBVIOUS
<1> QED
  BY <1>1 DEF Resting, Cycle

\* What is left of a ranking is one.
LEMMA RestOfRanking ==
  ASSUME NEW s \in Seq(FcCode \X FcPrice), s # <<>>
  PROVE  /\ Tail(s) \in Seq(FcCode \X FcPrice) /\ s[1] \in FcCode \X FcPrice
         /\ Len(s) \in Nat \ {0} /\ Len(Tail(s)) = Len(s) - 1
         /\ \A k \in 1..Len(Tail(s)) : k + 1 \in 1..Len(s) /\ Tail(s)[k] = s[k + 1]
  OBVIOUS

\* A ranking is a sequence of different codes of the set, with their prices.
LEMMA RankingsType ==
  ASSUME NEW S \in SUBSET FcCode, NEW s \in Rankings(S)
  PROVE  /\ s \in Seq(FcCode \X FcPrice)
         /\ \A k \in 1..Len(s) : s[k][1] \in S
         /\ \A k, l \in 1..Len(s) : s[k][1] = s[l][1] => k = l
<1>1. Cardinality(S) \in Nat
  BY FcAssumption, FS_Subset, FS_CardinalityType
<1>2. PICK n \in 0..Cardinality(S) :
        s \in [1..n -> S \X FcPrice] /\ \A k, l \in 1..n : s[k][1] = s[l][1] => k = l
  BY DEF Rankings
<1>3. n \in Nat /\ s \in Seq(S \X FcPrice) /\ Len(s) = n
  BY <1>1, <1>2
<1>4. \A k \in 1..n : s[k] \in S \X FcPrice
  BY <1>2
<1>5. s \in Seq(FcCode \X FcPrice)
  BY <1>2, <1>3, <1>4
<1> QED
  BY <1>2, <1>3, <1>4, <1>5

LEMMA LeastOfTwo ==
  ASSUME NEW a \in Int, NEW b \in Int
  PROVE  /\ Least({a, b}) \in {a, b} /\ Least({a, b}) <= a /\ Least({a, b}) <= b
<1>1. \E n \in {a, b} : \A m \in {a, b} : n <= m
  OBVIOUS
<1> QED
  BY <1>1 DEF Least

LEMMA LeastOfThree ==
  ASSUME NEW a \in Int, NEW b \in Int, NEW c \in Int
  PROVE  /\ Least({a, b, c}) \in {a, b, c} /\ Least({a, b, c}) <= a
         /\ Least({a, b, c}) <= b /\ Least({a, b, c}) <= c
<1>1. \E n \in {a, b, c} : \A m \in {a, b, c} : n <= m
  <2>1. CASE a <= b /\ a <= c
    BY <2>1
  <2>2. CASE b <= a /\ b <= c
    BY <2>2
  <2>3. CASE c <= a /\ c <= b
    BY <2>3
  <2> QED
    BY <2>1, <2>2, <2>3
<1> QED
  BY <1>1 DEF Least

LEMMA OlderType ==
  ASSUME NEW a \in [FcCode -> 0..COOLDOWN_DAYS]
  PROVE  Older(a) \in [FcCode -> 0..COOLDOWN_DAYS]
<1>1. ASSUME NEW c \in FcCode
      PROVE  Least({a[c] + 1, COOLDOWN_DAYS}) \in 0..COOLDOWN_DAYS
  <2> DEFINE older == a[c] + 1
             least == Least({older, COOLDOWN_DAYS})
  <2>1. older \in Int /\ COOLDOWN_DAYS \in Int /\ older >= 0 /\ COOLDOWN_DAYS >= 0
    BY FcAssumption
  <2> HIDE DEF older
  <2>2. least \in {older, COOLDOWN_DAYS} /\ least <= COOLDOWN_DAYS
    BY <2>1, LeastOfTwo
  <2> HIDE DEF least
  <2>3. least \in 0..COOLDOWN_DAYS
    BY <2>1, <2>2
  <2> QED
    BY <2>3 DEF least, older
<1> QED
  BY <1>1 DEF Older

\* A quotient's multiple is no more than what was divided.
LEMMA QuotientFits ==
  ASSUME NEW a \in Int, NEW b \in Nat \ {0}, NEW q \in Nat, q <= a \div b
  PROVE  q * b <= a
<1>1. (a \div b) * b <= a
  OBVIOUS
<1>2. q * b <= (a \div b) * b
  OBVIOUS
<1> QED
  BY <1>1, <1>2

\* The share of one purchase: of what is left, and of the slots.
LEMMA QuantityFits ==
  ASSUME FcShape, NEW i \in FcInstance, NEW y, y = fcCycle[i], y.ranked # <<>>,
         y.buys < BUY_SLOTS, Quantity(y) > 0
  PROVE  /\ y.ranked[1][1] \in FcCode /\ Quantity(y) \in Nat
         /\ Quantity(y) * y.ranked[1][2] \in Nat
         /\ 100 * (Quantity(y) * y.ranked[1][2]) \in Nat
         /\ y.deployed + 100 * (Quantity(y) * y.ranked[1][2]) <= y.limit
         /\ (100 * (Quantity(y) * y.ranked[1][2])) * BUY_SLOTS <= y.limit
<1> DEFINE p == y.ranked[1][2]
           price == 100 * p
           left == y.limit - y.deployed
           shares == Least({Len(y.ranked), BUY_SLOTS - y.buys})
<1>1. /\ y \in Cycle /\ y.limit \in Nat /\ y.deployed \in Nat /\ y.buys \in Nat
      /\ BUY_SLOTS \in Nat \ {0} /\ y.ranked \in Seq(FcCode \X FcPrice)
  BY FcAssumption DEF FcShape, Cycle
<1>2. y.ranked[1] \in FcCode \X FcPrice /\ Len(y.ranked) \in Nat \ {0}
  BY <1>1, RestOfRanking
<1>3. p \in Nat \ {0} /\ price \in Nat \ {0} /\ BUY_SLOTS * price \in Nat \ {0}
  <2>1. p \in Nat \ {0}
    BY <1>2, FcAssumption
  <2> HIDE DEF p
  <2>2. price \in Nat \ {0}
    BY <2>1
  <2> HIDE DEF price
  <2> QED
    BY <1>1, <2>1, <2>2
<1>4. shares \in Nat \ {0}
  <2> DEFINE candidates == Len(y.ranked)
             slots == BUY_SLOTS - y.buys
  <2>1. candidates \in Nat \ {0} /\ slots \in Nat \ {0} /\ candidates \in Int /\ slots \in Int
    BY <1>1, <1>2
  <2> HIDE DEF candidates, slots
  <2>2. Least({candidates, slots}) \in {candidates, slots}
    BY <2>1, LeastOfTwo
  <2>3. Least({candidates, slots}) \in Nat \ {0}
    BY <2>1, <2>2
  <2> QED
    BY <2>3 DEF candidates, slots
<1>5. Quantity(y) = Least({left \div (shares * price), y.limit \div (BUY_SLOTS * price), left \div price})
  BY DEF Quantity
<1> HIDE DEF p, shares
<1>6. shares * price \in Nat \ {0}
  BY <1>3, <1>4
<1> HIDE DEF price
<1>7. left \in Int
  BY <1>1
<1> HIDE DEF left
<1>8. /\ left \div (shares * price) \in Int /\ y.limit \div (BUY_SLOTS * price) \in Int
      /\ left \div price \in Int
  BY SMTT(40), <1>1, <1>3, <1>6, <1>7
<1>9. /\ Quantity(y) \in Int /\ Quantity(y) <= y.limit \div (BUY_SLOTS * price)
      /\ Quantity(y) <= left \div price
  <2> DEFINE a == left \div (shares * price)
             b == y.limit \div (BUY_SLOTS * price)
             c == left \div price
  <2>1. a \in Int /\ b \in Int /\ c \in Int /\ Quantity(y) = Least({a, b, c})
    BY <1>5, <1>8
  <2> HIDE DEF a, b, c, Quantity
  <2>2. Least({a, b, c}) \in {a, b, c} /\ Least({a, b, c}) <= b /\ Least({a, b, c}) <= c
    BY <2>1, LeastOfThree
  <2>3. Quantity(y) \in Int /\ Quantity(y) <= b /\ Quantity(y) <= c
    BY <2>1, <2>2
  <2> QED
    BY <2>3 DEF b, c
<1>10. Quantity(y) \in Nat
  BY <1>9
<1> HIDE DEF Quantity
<1>11. Quantity(y) * (BUY_SLOTS * price) <= y.limit
  BY <1>1, <1>3, <1>9, <1>10, QuotientFits
<1>12. Quantity(y) * price <= left
  BY <1>3, <1>7, <1>9, <1>10, QuotientFits
<1>13. Quantity(y) * p \in Nat /\ 100 * (Quantity(y) * p) \in Nat
  BY <1>3, <1>10
<1>14. 100 * (Quantity(y) * p) = Quantity(y) * price
  BY <1>3, <1>10 DEF price
<1>15. (Quantity(y) * price) * BUY_SLOTS = Quantity(y) * (BUY_SLOTS * price)
  BY <1>1, <1>3, <1>10
<1>16. y.deployed + 100 * (Quantity(y) * p) <= y.limit
  BY SMTT(40), <1>1, <1>12, <1>13, <1>14 DEF left
<1>17. (100 * (Quantity(y) * p)) * BUY_SLOTS <= y.limit
  BY <1>11, <1>14, <1>15
<1>18. y.ranked[1][1] \in FcCode
  BY <1>2
<1> QED
  BY <1>10, <1>13, <1>16, <1>17, <1>18 DEF p

(***************************************************************************)
(* Its steps.                                                              *)
(***************************************************************************)
LEMMA FcStart == FcInit => FcInv
<1> SUFFICES ASSUME FcInit
             PROVE  FcInv
  OBVIOUS
<1>1. LongAgo \in [FcCode -> 0..COOLDOWN_DAYS] /\ 0 \in 0..BUY_SLOTS /\ 0 \in 0..FcDays /\ 0 \in 0..FcFaults
  BY FcAssumption DEF LongAgo
<1>2. FcTypeOK
  <2>1. fcCash \in Nat /\ fcHeld \subseteq FcCode
    BY FcAssumption DEF FcInit
  <2>2. \A i \in FcInstance : fcCycle[i].at = "idle"
    BY RestingCycle DEF FcInit
  <2> QED
    BY <1>1, <2>1, <2>2 DEF FcInit, FcTypeOK
<1>3. /\ fcCycle \in [FcInstance -> Cycle]
      /\ \A i \in FcInstance : fcCycle[i].at = "idle" /\ fcCycle[i].deployed = 0
  BY RestingCycle DEF FcInit
<1>4. \A c \in FcCode : fcLast[c] = fcSince[c]
  BY DEF FcInit
<1> QED
  BY <1>2, <1>3, <1>4 DEF FcInv, FcShape, FcOne, FcNoted, FcInit

\* Starting, ending, dying and the day: no purchase.
LEMMA FcAroundCycle ==
  ASSUME FcInv, NEW i \in FcInstance, StartMock(i) \/ EndFire(i) \/ DieFire(i)
  PROVE  FcInv'
<1>1. CASE StartMock(i)
  <2>1. fcRunning = {} /\ fcRunning' = {i} /\ UNCHANGED <<fcAccount, fcFile, fcCycle, fcClock, fcFault, fcMemory>>
    BY <1>1 DEF StartMock
  <2>2. FcShape'
    BY <2>1 DEF FcInv, FcShape, FcTypeOK, fcAccount, fcFile, fcClock, fcMemory
  <2>3. FcOne'
    BY <2>1 DEF FcInv, FcOne
  <2>4. fcFault' = 0 => FcNoted'
    BY <2>1 DEF FcInv, FcNoted, StillFree, fcFile, fcMemory
  <2> QED
    BY <2>2, <2>3, <2>4 DEF FcInv
<1>2. ASSUME fcCycle' = [fcCycle EXCEPT ![i] = Resting]
      PROVE  /\ fcCycle' \in [FcInstance -> Cycle] /\ fcCycle'[i].at = "idle" /\ fcCycle'[i].deployed = 0
             /\ \A j \in FcInstance : j # i => fcCycle'[j] = fcCycle[j]
  BY <1>2, CycleChanged, RestingCycle DEF FcInv
<1>3. CASE EndFire(i)
  <2>1. /\ fcCycle[i].at = "choose" /\ fcCycle' = [fcCycle EXCEPT ![i] = Resting]
        /\ UNCHANGED <<fcRunning, fcAccount, fcFile, fcClock, fcFault, fcMemory>>
    BY <1>3 DEF EndFire
  <2>2. FcShape'
    BY <1>2, <2>1 DEF FcInv, FcShape, FcTypeOK, fcAccount, fcFile, fcClock, fcMemory
  <2>3. FcOne'
    BY <1>2, <2>1 DEF FcInv, FcOne, fcClock
  <2>4. fcFault' = 0 => FcNoted'
    BY <1>2, <2>1 DEF FcInv, FcNoted, StillFree, fcFile, fcMemory
  <2> QED
    BY <2>2, <2>3, <2>4 DEF FcInv
<1>4. CASE DieFire(i)
  <2>1. /\ fcFault < FcFaults /\ fcFault' = fcFault + 1 /\ fcRunning' = fcRunning \ {i}
        /\ fcCycle' = [fcCycle EXCEPT ![i] = Resting]
        /\ UNCHANGED fcFile \/ (fcLast' = LongAgo /\ fcDaily' = 0)
        /\ UNCHANGED <<fcAccount, fcClock, fcMemory>>
    BY <1>4 DEF DieFire
  <2>2. fcFault' \in 0..FcFaults /\ fcFault' # 0
    BY <2>1, FcAssumption DEF FcInv, FcShape, FcTypeOK
  <2>3. fcLast' \in [FcCode -> 0..COOLDOWN_DAYS] /\ fcDaily' \in 0..BUY_SLOTS
    BY <2>1, FcAssumption DEF FcInv, FcShape, FcTypeOK, fcFile, LongAgo
  <2>4. FcShape'
    BY <1>2, <2>1, <2>2, <2>3 DEF FcInv, FcShape, FcTypeOK, fcAccount, fcClock, fcMemory
  <2>5. FcOne'
    BY <1>2, <2>1 DEF FcInv, FcOne, fcClock
  <2> QED
    BY <2>2, <2>4, <2>5 DEF FcInv
<1> QED
  BY <1>1, <1>3, <1>4

LEMMA FcDay ==
  ASSUME FcInv, AuctionEnds \/ NextAuction
  PROVE  FcInv'
\* nobody is in a cycle
<1>1. /\ \A i \in FcInstance : fcCycle[i].at = "idle"
      /\ UNCHANGED <<fcRunning, fcCycle, fcFault>>
  BY DEF FcInv, FcOne, AuctionEnds, NextAuction
<1>2. CASE AuctionEnds
  <2>1. /\ fcOpen' = FALSE /\ fcHeld' \subseteq FcCode /\ fcOrdered' = {}
        /\ UNCHANGED <<fcCash, fcManual, fcFile, fcDay, fcMemory>>
    BY <1>2 DEF AuctionEnds, FcInv, FcShape, FcTypeOK
  <2>2. fcOpen' \in BOOLEAN
    BY <1>2, Zenon DEF AuctionEnds
  <2>3. FcShape'
    BY <1>1, <2>1, <2>2 DEF FcInv, FcShape, FcTypeOK, fcFile, fcMemory
  <2>4. fcFault' = 0 => FcNoted'
    BY <1>1, <2>1 DEF FcInv, FcNoted, StillFree, fcFile, fcMemory
  <2>5. FcOne'
    BY <1>1 DEF FcInv, FcOne
  <2> QED
    BY <2>3, <2>4, <2>5 DEF FcInv
<1>3. CASE NextAuction
  <2>1. /\ fcHeld' \subseteq FcCode /\ fcManual' \subseteq FcCode /\ fcCash' \in FcCash
        /\ fcDay < FcDays /\ fcDay' = fcDay + 1 /\ fcDaily' = 0
        /\ fcLast' = Older(fcLast) /\ fcSince' = Older(fcSince)
        /\ UNCHANGED <<fcOrdered, fcBought>>
    BY <1>3 DEF NextAuction, FcInv, FcShape, FcTypeOK
  <2>2. fcOpen' \in BOOLEAN
    BY <1>3, Zenon DEF NextAuction
  <2>3. /\ fcLast' \in [FcCode -> 0..COOLDOWN_DAYS] /\ fcSince' \in [FcCode -> 0..COOLDOWN_DAYS]
        /\ fcDay' \in 0..FcDays /\ fcDaily' \in 0..BUY_SLOTS /\ fcCash' \in Nat
    BY <2>1, OlderType, FcAssumption DEF FcInv, FcShape, FcTypeOK
  <2>4. FcShape'
    BY <1>1, <2>1, <2>2, <2>3 DEF FcInv, FcShape, FcTypeOK
  <2>5. fcFault' = 0 => FcNoted'
    <3> SUFFICES ASSUME fcFault = 0
                 PROVE  FcNoted'
      BY <1>1
    <3>1. \A c \in FcCode : fcLast[c] = fcSince[c]
      BY <1>1 DEF FcInv, FcNoted
    <3>2. \A c \in FcCode : fcLast'[c] = fcSince'[c]
      BY <2>1, <3>1 DEF Older
    <3> QED
      BY <1>1, <3>2 DEF FcNoted
  <2>6. FcOne'
    BY <1>1 DEF FcInv, FcOne
  <2> QED
    BY <2>4, <2>5, <2>6 DEF FcInv
<1> QED
  BY <1>2, <1>3

LEMMA FcNumbers ==
  ASSUME FcShape
  PROVE  fcCash \in Nat /\ FcPercent \in Nat /\ fcDaily \in Nat
<1>1. fcCash \in Nat /\ fcDaily \in 0..BUY_SLOTS
  BY DEF FcShape, FcTypeOK
<1>2. BUY_SLOTS \in Nat /\ FcPercent \in Nat
  BY FcAssumption
<1> QED
  BY <1>1, <1>2

LEMMA FcBegins ==
  ASSUME FcInv, NEW i \in FcInstance, BeginFire(i)
  PROVE  FcInv'
<1> DEFINE free == {c \in FcCode \ fcManual : fcLast[c] >= COOLDOWN_DAYS}
           Begun(s) == [at |-> "choose", ranked |-> s, before |-> fcHeld, count |-> Cardinality(fcHeld),
                        limit |-> fcCash * FcPercent, deployed |-> 0, buys |-> fcDaily, last |-> fcLast]
<1>1. /\ i \in fcRunning /\ fcOpen /\ fcCycle[i].at = "idle"
      /\ UNCHANGED <<fcRunning, fcAccount, fcFile, fcClock, fcFault, fcMemory>>
  BY DEF BeginFire
<1>2. PICK s \in Rankings(free) : fcCycle' = [fcCycle EXCEPT ![i] = Begun(s)]
  BY DEF BeginFire
<1>3. /\ s \in Seq(FcCode \X FcPrice)
      /\ \A k \in 1..Len(s) : s[k][1] \in free
      /\ \A k, l \in 1..Len(s) : s[k][1] = s[l][1] => k = l
  BY <1>2, RankingsType
<1> DEFINE z == Begun(s)
<1>4. z \in Cycle
  <2>1. Cardinality(fcHeld) \in Nat /\ fcHeld \in SUBSET FcCode
    BY FcAssumption, FS_Subset, FS_CardinalityType DEF FcInv, FcShape, FcTypeOK
  <2>2. fcCash * FcPercent \in Nat /\ fcDaily \in Nat
    <3>1. fcCash \in Nat /\ FcPercent \in Nat /\ fcDaily \in Nat
      BY FcNumbers DEF FcInv
    <3> QED
      BY <3>1
  <2>3. fcLast \in [FcCode -> 0..COOLDOWN_DAYS]
    BY DEF FcInv, FcShape, FcTypeOK
  <2> QED
    BY <1>3, <2>1, <2>2, <2>3 DEF Cycle
<1>5. z.at = "choose" /\ z.ranked = s /\ z.last = fcLast
  OBVIOUS
<1>6. fcCycle' = [fcCycle EXCEPT ![i] = z]
  BY <1>2
<1> HIDE DEF z
<1>7. /\ fcCycle' \in [FcInstance -> Cycle] /\ fcCycle'[i] = z
      /\ \A j \in FcInstance : j # i => fcCycle'[j] = fcCycle[j]
  BY <1>4, <1>6, CycleChanged DEF FcInv
<1>8. FcShape'
  BY <1>1, <1>5, <1>7 DEF FcInv, FcShape, FcTypeOK, fcAccount, fcFile, fcClock, fcMemory
<1>9. FcOne'
  BY <1>1, <1>7 DEF FcInv, FcOne, fcClock
<1>10. fcFault' = 0 => FcNoted'
  <2> SUFFICES ASSUME fcFault = 0
               PROVE  FcNoted'
    BY <1>1
  <2>1. \A j \in FcInstance : fcCycle[j].at = "idle"
    BY <1>1 DEF FcInv, FcOne
  <2>2. \A c \in FcCode : fcLast[c] = fcSince[c]
    BY <2>1 DEF FcInv, FcNoted
  <2>3. \A k \in 1..Len(s) : fcSince[s[k][1]] >= COOLDOWN_DAYS
    BY <1>3, <2>2
  <2>4. StillFree(z, fcLast', fcSince')
    BY <1>1, <1>3, <1>5, <2>3 DEF StillFree, fcFile, fcMemory
  <2> QED
    BY <1>1, <1>7, <2>1, <2>2, <2>4 DEF FcNoted, fcFile, fcMemory
<1> QED
  BY <1>8, <1>9, <1>10 DEF FcInv

\* The next candidate, passed over or after its purchase was noted.
LEMMA FcNextCandidate ==
  ASSUME FcInv, NEW i \in FcInstance, PassOver(i) \/ NotePurchase(i)
  PROVE  FcInv'
<1> DEFINE y == fcCycle[i]
<1>1. /\ y \in Cycle /\ y.at \in {"choose", "note"} /\ y.ranked # <<>> /\ y.buys < BUY_SLOTS
      /\ y.ranked \in Seq(FcCode \X FcPrice) /\ BUY_SLOTS \in Nat
      /\ y.last \in [FcCode -> 0..COOLDOWN_DAYS]
  BY FcAssumption DEF PassOver, NotePurchase, FcInv, FcShape, Cycle
<1>2. UNCHANGED <<fcRunning, fcAccount, fcClock, fcFault, fcMemory>>
  BY DEF PassOver, NotePurchase
<1>3. /\ i \in fcRunning /\ fcOpen
      /\ \A j \in FcInstance : j # i => fcCycle[j].at = "idle"
  BY <1>1 DEF FcInv, FcOne
<1>4. /\ Tail(y.ranked) \in Seq(FcCode \X FcPrice) /\ y.ranked[1] \in FcCode \X FcPrice
      /\ Len(y.ranked) \in Nat \ {0} /\ Len(Tail(y.ranked)) = Len(y.ranked) - 1
      /\ \A k \in 1..Len(Tail(y.ranked)) :
           k + 1 \in 1..Len(y.ranked) /\ Tail(y.ranked)[k] = y.ranked[k + 1]
  BY <1>1, RestOfRanking
\* the rest of the ranking is as it was
<1>5. ASSUME NEW z \in Cycle, z.ranked = Tail(y.ranked), z.at = "choose", z.last = fcLast',
             fcFault = 0
      PROVE  StillFree(z, fcLast', fcSince')
  <2>1. StillFree(y, fcLast, fcSince)
    BY <1>1, <1>5 DEF FcInv, FcNoted
  <2>2. \A k, l \in 1..Len(z.ranked) : z.ranked[k][1] = z.ranked[l][1] => k = l
    <3> SUFFICES ASSUME NEW k \in 1..Len(z.ranked), NEW l \in 1..Len(z.ranked),
                        z.ranked[k][1] = z.ranked[l][1]
                 PROVE  k = l
      OBVIOUS
    <3>1. y.ranked[k + 1][1] = y.ranked[l + 1][1] /\ k + 1 \in 1..Len(y.ranked) /\ l + 1 \in 1..Len(y.ranked)
      BY <1>4, <1>5
    <3>2. k + 1 = l + 1
      BY <2>1, <3>1 DEF StillFree
    <3>3. k \in Int /\ l \in Int
      BY <1>4, <1>5
    <3> QED
      BY <3>2, <3>3
  <2>3. \A k \in 1..Len(z.ranked) : fcSince[z.ranked[k][1]] >= COOLDOWN_DAYS
    <3> SUFFICES ASSUME NEW k \in 1..Len(z.ranked)
                 PROVE  fcSince[z.ranked[k][1]] >= COOLDOWN_DAYS
      OBVIOUS
    <3>1. k + 1 \in 1..Len(y.ranked) /\ k + 1 > 1 /\ z.ranked[k] = y.ranked[k + 1]
      BY <1>4, <1>5
    <3> QED
      BY <2>1, <3>1 DEF StillFree
  <2> QED
    BY <1>2, <1>5, <2>2, <2>3 DEF StillFree, fcMemory
<1>6. CASE PassOver(i)
  <2> DEFINE z == [y EXCEPT !.ranked = Tail(y.ranked)]
  <2>1. y.at = "choose" /\ UNCHANGED fcFile /\ fcCycle' = [fcCycle EXCEPT ![i] = z]
    BY <1>6 DEF PassOver
  <2>2. /\ z \in Cycle /\ z.ranked = Tail(y.ranked) /\ z.at = "choose" /\ z.last = y.last
        /\ z.deployed = y.deployed
    BY <1>1, <1>4, <2>1 DEF Cycle
  <2> HIDE DEF z
  <2>3. /\ fcCycle' \in [FcInstance -> Cycle] /\ fcCycle'[i] = z
        /\ \A j \in FcInstance : j # i => fcCycle'[j] = fcCycle[j]
    BY <2>1, <2>2, CycleChanged DEF FcInv
  <2>4. FcShape'
    BY <1>2, <2>1, <2>2, <2>3 DEF FcInv, FcShape, FcTypeOK, fcAccount, fcFile, fcClock, fcMemory
  <2>5. FcOne'
    BY <1>2, <1>3, <2>3 DEF FcInv, FcOne, fcClock
  <2>6. fcFault' = 0 => FcNoted'
    <3> SUFFICES ASSUME fcFault = 0
                 PROVE  FcNoted'
      BY <1>2
    <3>1. StillFree(y, fcLast, fcSince) /\ \A c \in FcCode : fcLast[c] = fcSince[c]
      BY <1>3, <2>1 DEF FcInv, FcNoted
    <3>2. z.last = fcLast'
      BY <2>1, <2>2, <3>1 DEF StillFree, fcFile
    <3>3. StillFree(z, fcLast', fcSince')
      BY <1>5, <2>2, <3>2
    <3> QED
      BY <1>2, <1>3, <2>1, <2>3, <3>1, <3>3 DEF FcNoted, fcFile, fcMemory
  <2> QED
    BY <2>4, <2>5, <2>6 DEF FcInv
<1>7. CASE NotePurchase(i)
  <2> DEFINE c == y.ranked[1][1]
             z == Noted(y)
  <2>1. /\ y.at = "note" /\ fcCycle' = [fcCycle EXCEPT ![i] = z]
        /\ fcLast' = z.last /\ fcDaily' = z.buys
    BY <1>7 DEF NotePurchase
  <2>2. c \in FcCode /\ y.buys \in Nat /\ y.buys + 1 \in 0..BUY_SLOTS /\ 0 \in 0..COOLDOWN_DAYS
    BY SMTT(40), <1>1, <1>4, FcAssumption DEF Cycle
  <2>3. /\ z.ranked = Tail(y.ranked) /\ z.at = "choose" /\ z.deployed = y.deployed
        /\ z.buys = y.buys + 1 /\ z.last = [y.last EXCEPT ![c] = 0]
        /\ z.before = y.before /\ z.count = y.count /\ z.limit = y.limit
    BY <1>1 DEF Noted, Cycle
  <2>4. z.last \in [FcCode -> 0..COOLDOWN_DAYS] /\ z.last[c] = 0 /\ \A d \in FcCode \ {c} : z.last[d] = y.last[d]
    BY <1>1, <2>2, <2>3
  <2>5. z \in Cycle
    <3> DEFINE last == [y.last EXCEPT ![c] = 0]
               n == y.buys + 1
               rest == Tail(y.ranked)
    <3>1. z = [y EXCEPT !.at = "choose", !.ranked = rest, !.buys = n, !.last = last]
      BY DEF Noted
    <3>2. last \in [FcCode -> 0..COOLDOWN_DAYS] /\ n \in Nat /\ rest \in Seq(FcCode \X FcPrice)
      BY <1>4, <2>2, <2>3, <2>4
    <3> HIDE DEF last, n, rest, z, y
    <3> QED
      BY <1>1, <3>1, <3>2 DEF Cycle
  <2> HIDE DEF z
  <2>6. /\ fcCycle' \in [FcInstance -> Cycle] /\ fcCycle'[i] = z
        /\ \A j \in FcInstance : j # i => fcCycle'[j] = fcCycle[j]
    BY <2>1, <2>5, CycleChanged DEF FcInv
  <2>7. FcShape'
    BY <1>2, <2>1, <2>2, <2>3, <2>4, <2>6 DEF FcInv, FcShape, FcTypeOK, fcAccount, fcClock, fcMemory
  <2>8. FcOne'
    BY <1>2, <1>3, <2>6 DEF FcInv, FcOne, fcClock
  <2>9. fcFault' = 0 => FcNoted'
    <3> SUFFICES ASSUME fcFault = 0
                 PROVE  FcNoted'
      BY <1>2
    <3>1. StillFree(y, fcLast, fcSince) /\ \A d \in FcCode : d # c => fcLast[d] = fcSince[d]
      BY <1>3, <2>1 DEF FcInv, FcNoted
    <3>2. \A d \in FcCode : fcLast'[d] = fcSince[d]
      BY <2>1, <2>2, <2>4, <3>1 DEF StillFree
    <3>3. StillFree(z, fcLast', fcSince')
      BY <1>5, <2>1, <2>3, <2>5
    <3> QED
      BY <1>2, <1>3, <2>3, <2>6, <3>2, <3>3 DEF FcNoted, fcMemory
  <2> QED
    BY <2>7, <2>8, <2>9 DEF FcInv
<1> QED
  BY <1>6, <1>7

\* What a purchase does.
Purchases(i, c, spent) ==
  /\ fcCycle[i].at = "choose" /\ fcCycle[i].ranked # <<>> /\ c = fcCycle[i].ranked[1][1]
  /\ c \in FcCode /\ spent \in Nat
  /\ fcCycle[i].deployed + spent <= fcCycle[i].limit /\ spent * BUY_SLOTS <= fcCycle[i].limit
  /\ fcCycle' \in [FcInstance -> Cycle]
  /\ fcCycle'[i].at = "note" /\ fcCycle'[i].deployed = fcCycle[i].deployed + spent
  /\ fcCycle'[i].ranked = fcCycle[i].ranked /\ fcCycle'[i].last = fcCycle[i].last
  /\ fcCycle'[i].buys = fcCycle[i].buys
  /\ \A j \in FcInstance : j # i => fcCycle'[j] = fcCycle[j]
  /\ fcSince' = [fcSince EXCEPT ![c] = 0]
  /\ fcBought' \in [FcCode -> Nat] /\ \A d \in FcCode : d # c => fcBought'[d] = fcBought[d]
  /\ fcCash' \in Nat /\ fcOrdered' \subseteq FcCode

LEMMA FcBuys ==
  ASSUME FcInv, NEW i \in FcInstance, BuyFire(i)
  PROVE  \E c, spent : Purchases(i, c, spent)
<1> DEFINE y == fcCycle[i]
           c == y.ranked[1][1]
           cost == Quantity(y) * y.ranked[1][2]
           spent == 100 * cost
           count == IF c \in y.before THEN y.count ELSE y.count + 1
           z == [y EXCEPT !.at = "note", !.deployed = y.deployed + spent, !.count = count]
<1>1. /\ y.at = "choose" /\ y.ranked # <<>> /\ y.buys < BUY_SLOTS /\ Quantity(y) > 0
      /\ cost <= fcCash /\ fcCash' = fcCash - cost /\ fcOrdered' = fcOrdered \cup {c}
      /\ fcBought' = [fcBought EXCEPT ![c] = fcBought[c] + Quantity(y)]
      /\ fcSince' = [fcSince EXCEPT ![c] = 0]
  BY DEF BuyFire
<1>2. fcCycle' = [fcCycle EXCEPT ![i] = z]
  BY DEF BuyFire
<1>3. /\ c \in FcCode /\ cost \in Nat /\ spent \in Nat /\ y.deployed + spent <= y.limit
      /\ spent * BUY_SLOTS <= y.limit
  BY <1>1, QuantityFits DEF FcInv
<1>4. y \in Cycle /\ y.deployed \in Nat /\ y.count \in Nat
  BY DEF FcInv, FcShape, Cycle
<1>5. count \in Nat /\ y.deployed + spent \in Nat
  <2> HIDE DEF c, spent
  <2> QED
    BY <1>3, <1>4
<1>6. /\ z \in Cycle /\ z.at = "note" /\ z.deployed = y.deployed + spent
      /\ z.ranked = y.ranked /\ z.last = y.last /\ z.buys = y.buys
  <2> DEFINE d == y.deployed + spent
  <2>1. d \in Nat /\ count \in Nat
    BY <1>5
  <2>2. z = [y EXCEPT !.at = "note", !.deployed = d, !.count = count]
    OBVIOUS
  <2> HIDE DEF d, count, z, y
  <2>3. /\ z \in Cycle /\ z.at = "note" /\ z.deployed = d
        /\ z.ranked = y.ranked /\ z.last = y.last /\ z.buys = y.buys
    BY <1>4, <2>1, <2>2 DEF Cycle
  <2> QED
    BY <2>3 DEF d
<1> HIDE DEF z
<1>7. /\ fcCycle' \in [FcInstance -> Cycle] /\ fcCycle'[i] = z
      /\ \A j \in FcInstance : j # i => fcCycle'[j] = fcCycle[j]
  BY <1>2, <1>6, CycleChanged DEF FcInv
<1>8. fcCash' \in Nat /\ fcOrdered' \subseteq FcCode
  <2> HIDE DEF c, cost
  <2> QED
    BY <1>1, <1>3 DEF FcInv, FcShape, FcTypeOK
<1>9. fcBought' \in [FcCode -> Nat] /\ \A d \in FcCode : d # c => fcBought'[d] = fcBought[d]
  <2> DEFINE n == fcBought[c] + Quantity(y)
  <2>1. Quantity(y) \in Nat
    BY <1>1, QuantityFits DEF FcInv
  <2>2. n \in Nat
    <3> HIDE DEF c, y
    <3> QED
      BY <1>3, <2>1 DEF FcInv, FcShape, FcTypeOK
  <2>3. fcBought' = [fcBought EXCEPT ![c] = n]
    BY <1>1
  <2> HIDE DEF n, c
  <2> QED
    BY <1>3, <2>2, <2>3 DEF FcInv, FcShape, FcTypeOK
<1>10. Purchases(i, c, spent)
  <2> HIDE DEF c, spent
  <2>1. c = y.ranked[1][1]
    BY DEF c
  <2> QED
    BY <1>1, <1>3, <1>6, <1>7, <1>8, <1>9, <2>1 DEF Purchases
<1> QED
  BY <1>10

LEMMA FcBuyKeeps ==
  ASSUME FcInv, NEW i \in FcInstance, BuyFire(i)
  PROVE  FcInv'
<1>1. PICK c, spent : Purchases(i, c, spent)
  BY FcBuys
<1>2. UNCHANGED <<fcRunning, fcHeld, fcManual, fcFile, fcClock, fcFault>>
  BY DEF BuyFire
<1>3. /\ i \in fcRunning /\ fcOpen /\ fcCycle[i].buys < BUY_SLOTS
      /\ \A j \in FcInstance : j # i => fcCycle[j].at = "idle"
  <2>1. fcCycle[i].at = "choose" /\ FcOne
    BY <1>1 DEF FcInv, Purchases
  <2>2. fcCycle[i].at # "idle"
    BY <2>1
  <2>3. i \in fcRunning /\ fcOpen
    BY <2>1, <2>2 DEF FcOne
  <2>4. ASSUME NEW j \in FcInstance, j # i PROVE fcCycle[j].at = "idle"
    BY <2>1, <2>3, <2>4 DEF FcOne
  <2>5. fcCycle[i].buys < BUY_SLOTS
    BY DEF BuyFire
  <2> QED
    BY <2>3, <2>4, <2>5
<1>4. fcSince' \in [FcCode -> 0..COOLDOWN_DAYS] /\ fcSince'[c] = 0
      /\ \A d \in FcCode : d # c => fcSince'[d] = fcSince[d]
  BY <1>1, FcAssumption DEF Purchases, FcInv, FcShape, FcTypeOK
<1>5. FcShape'
  <2>1. fcCycle' \in [FcInstance -> Cycle] /\ FcShape
    BY <1>1 DEF Purchases, FcInv
  <2>2. ASSUME NEW j \in FcInstance
        PROVE  /\ fcCycle'[j].at \in {"idle", "choose", "note"}
               /\ fcCycle'[j].at = "idle" => fcCycle'[j].deployed = 0
               /\ fcCycle'[j].at # "idle" => fcCycle'[j].last \in [FcCode -> 0..COOLDOWN_DAYS]
               /\ fcCycle'[j].at = "note" => fcCycle'[j].ranked # <<>> /\ fcCycle'[j].buys < BUY_SLOTS
    <3>1. CASE j = i
      BY <1>1, <1>3, <2>1, <3>1 DEF Purchases, FcShape
    <3>2. CASE j # i
      BY <1>1, <2>1, <3>2 DEF Purchases, FcShape, FcTypeOK
    <3> QED
      BY <3>1, <3>2
  <2>3. FcTypeOK'
    BY <1>1, <1>2, <1>4, <2>1, <2>2 DEF Purchases, FcShape, FcTypeOK, fcFile, fcClock
  <2> QED
    BY <2>1, <2>2, <2>3 DEF FcShape
<1>6. FcOne'
  BY <1>1, <1>2, <1>3 DEF Purchases, FcInv, FcOne, fcClock
<1>7. fcFault' = 0 => FcNoted'
  <2> SUFFICES ASSUME fcFault = 0
               PROVE  FcNoted'
    BY <1>2
  <2>1. /\ StillFree(fcCycle[i], fcLast, fcSince)
        /\ \A d \in FcCode : fcLast[d] = fcSince[d]
    BY <1>1, <1>3 DEF Purchases, FcInv, FcNoted
  <2> DEFINE s == fcCycle[i].ranked
  <2>2. s \in Seq(FcCode \X FcPrice) /\ s # <<>> /\ c = s[1][1] /\ fcCycle'[i].ranked = s
    BY <1>1 DEF Purchases, FcInv, FcShape, Cycle
  <2>3. /\ Len(s) \in Nat \ {0} /\ \A k \in 1..Len(s) : s[k] \in FcCode \X FcPrice
    BY <2>2
  <2>4. ASSUME NEW k \in 1..Len(s), k > 1
        PROVE  fcSince'[s[k][1]] >= COOLDOWN_DAYS
    <3>1. 1 \in 1..Len(s) /\ k # 1
      BY <2>3, <2>4
    <3>2. s[k][1] # c /\ s[k][1] \in FcCode
      BY <2>1, <2>2, <2>3, <2>4, <3>1 DEF StillFree
    <3> QED
      BY <1>1, <1>4, <2>1, <2>4, <3>2 DEF StillFree, Purchases
  <2>5. StillFree(fcCycle'[i], fcLast', fcSince')
    <3>1. fcCycle'[i].last = fcLast' /\ fcCycle'[i].at = "note"
      BY <1>1, <1>2, <2>1 DEF Purchases, StillFree, fcFile
    <3>2. \A k, l \in 1..Len(s) : s[k][1] = s[l][1] => k = l
      BY <2>1 DEF StillFree
    <3> QED
      BY <1>4, <2>2, <2>4, <3>1, <3>2 DEF StillFree
  <2>6. \A d \in FcCode : fcLast'[d] = fcSince'[d] \/ d = c
    BY <1>2, <1>4, <2>1 DEF fcFile
  <2> QED
    BY <1>1, <1>3, <2>2, <2>5, <2>6 DEF Purchases, FcNoted
<1> QED
  BY <1>5, <1>6, <1>7 DEF FcInv

LEMMA FcKept == FcInv /\ [FcNext]_FcVars => FcInv'
<1> SUFFICES ASSUME FcInv, [FcNext]_FcVars
             PROVE  FcInv'
  OBVIOUS
<1>1. CASE UNCHANGED FcVars
  <2>1. FcShape'
    BY <1>1 DEF FcVars, fcAccount, fcFile, fcClock, fcMemory, FcInv, FcShape, FcTypeOK
  <2>2. FcOne' /\ (fcFault' = 0 => FcNoted')
    BY <1>1 DEF FcVars, fcAccount, fcFile, fcClock, fcMemory, FcInv, FcOne, FcNoted, StillFree
  <2> QED
    BY <2>1, <2>2 DEF FcInv
<1>2. CASE FcNext
  BY <1>2, FcDay, FcAroundCycle, FcBegins, FcNextCandidate, FcBuyKeeps DEF FcNext
<1> QED
  BY <1>1, <1>2

\* Every variable of the mock purchases keeps its type, whatever dies and however the days,
\* the account and the quotes turn out (kiwoom_fire_strategy_mock.py, run_mock.py).
THEOREM FireTypeCorrect == FcSpec => []FcTypeOK
<1>1. FcInv => FcTypeOK
  BY DEF FcInv, FcShape
<1> QED
  BY <1>1, FcStart, FcKept, PTL DEF FcSpec

\* A step other than a purchase buys nothing and adds nothing to what a cycle has spent.
LEMMA OnlyPurchasesSpend ==
  ASSUME FcInv, [FcNext]_FcVars, ~\E i \in FcInstance : BuyFire(i)
  PROVE  /\ fcBought' = fcBought
         /\ \A j \in FcInstance : fcCycle'[j].deployed <= fcCycle[j].deployed
<1>1. /\ fcCycle \in [FcInstance -> Cycle]
      /\ \A j \in FcInstance : fcCycle[j].deployed \in Nat
  BY DEF FcInv, FcShape, Cycle
<1>2. CASE UNCHANGED FcVars \/ AuctionEnds \/ NextAuction
  <2>1. fcBought' = fcBought /\ fcCycle' = fcCycle
    BY <1>2 DEF FcVars, fcMemory, AuctionEnds, NextAuction
  <2> QED
    BY <1>1, <2>1
<1>3. ASSUME NEW i \in FcInstance, StartMock(i)
      PROVE  fcBought' = fcBought /\ \A j \in FcInstance : fcCycle'[j].deployed <= fcCycle[j].deployed
  BY <1>1, <1>3 DEF StartMock, fcMemory
<1>4. ASSUME NEW i \in FcInstance, BeginFire(i) \/ EndFire(i) \/ DieFire(i)
      PROVE  fcBought' = fcBought /\ \A j \in FcInstance : fcCycle'[j].deployed <= fcCycle[j].deployed
  <2>1. fcBought' = fcBought
    BY <1>4 DEF BeginFire, EndFire, DieFire, fcMemory
  <2>2. \E z : fcCycle' = [fcCycle EXCEPT ![i] = z] /\ z.deployed = 0
    <3>1. CASE BeginFire(i)
      <4>1. PICK s : fcCycle' = [fcCycle EXCEPT ![i] =
              [at |-> "choose", ranked |-> s, before |-> fcHeld, count |-> Cardinality(fcHeld),
               limit |-> fcCash * FcPercent, deployed |-> 0, buys |-> fcDaily, last |-> fcLast]]
        BY <3>1 DEF BeginFire
      <4> DEFINE z == [at |-> "choose", ranked |-> s, before |-> fcHeld, count |-> Cardinality(fcHeld),
                       limit |-> fcCash * FcPercent, deployed |-> 0, buys |-> fcDaily, last |-> fcLast]
      <4>2. fcCycle' = [fcCycle EXCEPT ![i] = z] /\ z.deployed = 0
        BY <4>1
      <4> QED
        BY <4>2
    <3>2. CASE EndFire(i) \/ DieFire(i)
      BY <3>2, RestingCycle DEF EndFire, DieFire
    <3> QED
      BY <1>4, <3>1, <3>2
  <2>3. PICK z : fcCycle' = [fcCycle EXCEPT ![i] = z] /\ z.deployed = 0
    BY <2>2
  <2> QED
    BY <1>1, <2>1, <2>3
<1>5. ASSUME NEW i \in FcInstance, PassOver(i) \/ NotePurchase(i)
      PROVE  fcBought' = fcBought /\ \A j \in FcInstance : fcCycle'[j].deployed <= fcCycle[j].deployed
  <2>1. fcBought' = fcBought
    BY <1>5 DEF PassOver, NotePurchase, fcMemory
  <2>2. fcCycle[i] \in Cycle
    BY <1>1
  <2>3. \E z : fcCycle' = [fcCycle EXCEPT ![i] = z] /\ z.deployed = fcCycle[i].deployed
    <3> DEFINE y == fcCycle[i]
               left == [y EXCEPT !.ranked = Tail(y.ranked)]
    <3>1. CASE PassOver(i)
      <4>1. fcCycle' = [fcCycle EXCEPT ![i] = left] /\ left.deployed = y.deployed
        BY <2>2, <3>1 DEF PassOver, Cycle
      <4> QED
        BY <4>1
    <3>2. CASE NotePurchase(i)
      <4>1. fcCycle' = [fcCycle EXCEPT ![i] = Noted(y)] /\ Noted(y).deployed = y.deployed
        BY <2>2, <3>2 DEF NotePurchase, Noted, Cycle
      <4> QED
        BY <4>1
    <3> QED
      BY <1>5, <3>1, <3>2
  <2>4. PICK z : fcCycle' = [fcCycle EXCEPT ![i] = z] /\ z.deployed = fcCycle[i].deployed
    BY <2>3
  <2> QED
    BY <1>1, <2>1, <2>4
<1> QED
  BY <1>2, <1>3, <1>4, <1>5 DEF FcNext

\* A purchase is of a code that was not bought within the cooldown, and within the budget.
LEMMA PurchasesFollowTheRules ==
  ASSUME FcInv, NEW i \in FcInstance, BuyFire(i)
  PROVE  /\ \A c \in FcCode : fcSince[c] < COOLDOWN_DAYS /\ fcFault = 0 => fcBought'[c] = fcBought[c]
         /\ \A j \in FcInstance : LET spent == fcCycle'[j].deployed - fcCycle[j].deployed IN
              spent > 0 => /\ fcCycle'[j].deployed <= fcCycle[j].limit
                           /\ spent * BUY_SLOTS <= fcCycle[j].limit
<1>1. PICK c, spent : Purchases(i, c, spent)
  BY FcBuys
<1>2. \A j \in FcInstance : fcCycle[j].deployed \in Nat /\ fcCycle[j].limit \in Nat
  BY DEF FcInv, FcShape, Cycle
<1>3. fcFault = 0 => ~(fcSince[c] < COOLDOWN_DAYS)
  <2> SUFFICES ASSUME fcFault = 0
               PROVE  ~(fcSince[c] < COOLDOWN_DAYS)
    OBVIOUS
  <2>1. StillFree(fcCycle[i], fcLast, fcSince)
    BY <1>1 DEF Purchases, FcInv, FcNoted
  <2>2. fcCycle[i].ranked \in Seq(FcCode \X FcPrice)
    BY DEF FcInv, FcShape, Cycle
  <2>3. 1 \in 1..Len(fcCycle[i].ranked)
    BY <1>1, <2>2, RestOfRanking DEF Purchases
  <2>4. fcSince[c] >= COOLDOWN_DAYS /\ fcSince[c] \in Int /\ COOLDOWN_DAYS \in Int
    BY <1>1, <2>1, <2>3, FcAssumption DEF Purchases, StillFree, FcInv, FcShape, FcTypeOK
  <2> QED
    BY <2>4
<1>4. \A d \in FcCode : fcSince[d] < COOLDOWN_DAYS /\ fcFault = 0 => fcBought'[d] = fcBought[d]
  BY <1>1, <1>3 DEF Purchases
<1>5. ASSUME NEW j \in FcInstance, fcCycle'[j].deployed - fcCycle[j].deployed > 0
      PROVE  /\ fcCycle'[j].deployed <= fcCycle[j].limit
             /\ (fcCycle'[j].deployed - fcCycle[j].deployed) * BUY_SLOTS <= fcCycle[j].limit
  <2>1. j = i
    BY <1>1, <1>2, <1>5 DEF Purchases
  <2>2. fcCycle'[j].deployed - fcCycle[j].deployed = spent
    BY <1>1, <1>2, <2>1 DEF Purchases
  <2> QED
    BY <1>1, <2>1, <2>2 DEF Purchases
<1> QED
  BY <1>4, <1>5

\* run_fire_buy_cycle: over any days, by however many processes of run_mock.py that are
\* started, a code is not bought again within the cooldown as long as none has died, and a
\* cycle spends neither more than its part of the money nor more than a slot's on one code.
THEOREM PurchasesRationed == Spec_Trading => FireRules
<1>1. Init_Trading => FcInv
  BY FcStart DEF Init_Trading
<1>2. FcInv /\ [Next_Trading]_Everything => FcInv'
  BY StepOfParts, FcKept
<1>3. FcInv /\ [Next_Trading]_Everything =>
        [\A c \in FcCode : fcSince[c] < COOLDOWN_DAYS /\ fcFault = 0 => fcBought'[c] = fcBought[c]]_FcVars
  <2> SUFFICES ASSUME FcInv, [Next_Trading]_Everything
               PROVE  \A c \in FcCode : fcSince[c] < COOLDOWN_DAYS /\ fcFault = 0 => fcBought'[c] = fcBought[c]
    OBVIOUS
  <2> QED
    BY StepOfParts, OnlyPurchasesSpend, PurchasesFollowTheRules
<1>4. FcInv /\ [Next_Trading]_Everything =>
        [\A i \in FcInstance : LET spent == fcCycle'[i].deployed - fcCycle[i].deployed IN
           spent > 0 => /\ fcCycle'[i].deployed <= fcCycle[i].limit
                        /\ spent * BUY_SLOTS <= fcCycle[i].limit]_FcVars
  <2> SUFFICES ASSUME FcInv, [Next_Trading]_Everything, NEW i \in FcInstance,
                      fcCycle'[i].deployed - fcCycle[i].deployed > 0
               PROVE  /\ fcCycle'[i].deployed <= fcCycle[i].limit
                      /\ (fcCycle'[i].deployed - fcCycle[i].deployed) * BUY_SLOTS <= fcCycle[i].limit
    OBVIOUS
  <2>1. fcCycle[i].deployed \in Nat /\ fcCycle'[i].deployed \in Nat
    BY <1>2 DEF FcInv, FcShape, Cycle
  <2>2. \E j \in FcInstance : BuyFire(j)
    BY <2>1, StepOfParts, OnlyPurchasesSpend
  <2> QED
    BY <2>2, PurchasesFollowTheRules
<1> QED
  BY <1>1, <1>2, <1>3, <1>4, PTL DEF Spec_Trading, Everything, FireRules, CooldownKept, SpentWithinLimit

(***************************************************************************)
(* The pending file (PendingStore), for any jobs, entries and values: it   *)
(* is a file that is loaded and stored in one piece.                       *)
(***************************************************************************)
\* A job inside a load or a save holds the lock, a job past its load has all
\* of a file, and what is about to replace the file is what the job made.
Inside ==
  \A j \in Job :
    /\ pc[j] \in Holding => lock = j
    /\ pc[j] \notin {"idle", "load"} => copy[j] \in Content
    /\ pc[j] \in {"idle", "load"} => copy[j] = Blank
    /\ pc[j] = "swap" => tmp[j] = copy[j]

StoreInv == TypeOK /\ Inside

LEMMA StoreInit == Init => StoreInv
  BY RestartAssumption DEF Init, StoreInv, TypeOK, Inside, Stage, Holding

\* Changing an entry of a whole file leaves a whole file.
LEMMA EditContent ==
  ASSUME NEW f \in Content, NEW k \in Key, NEW v \in Value
  PROVE  [f EXCEPT ![k] = v] \in Content
  BY DEF Content

LEMMA StoreStep == StoreInv /\ [Next]_vars => StoreInv'
<1> SUFFICES ASSUME TypeOK, Inside, [Next]_vars
             PROVE  StoreInv'
  BY DEF StoreInv
<1> USE DEF Goto, Acquire, Stage, Holding
<1>1. ASSUME NEW j \in Job, BeginLoad(j)
      PROVE  StoreInv'
  BY <1>1, JobAssumption DEF BeginLoad, StoreInv, TypeOK, Inside
<1>2. ASSUME NEW j \in Job, Load(j)
      PROVE  StoreInv'
  BY <1>2, JobAssumption DEF Load, StoreInv, TypeOK, Inside
<1>3. ASSUME NEW j \in Job, NEW k \in Key, NEW v \in Value, Edit(j, k, v)
      PROVE  StoreInv'
  <2> DEFINE new == [copy[j] EXCEPT ![k] = v]
  <2>1. new \in Content
    BY <1>3, EditContent DEF Edit, Inside
  <2>2. copy' = [copy EXCEPT ![j] = new]
    BY <1>3 DEF Edit
  <2> HIDE DEF new
  <2> QED
    BY <1>3, <2>1, <2>2 DEF Edit, StoreInv, TypeOK, Inside
<1>4. ASSUME NEW j \in Job, Leave(j)
      PROVE  StoreInv'
  BY <1>4 DEF Leave, StoreInv, TypeOK, Inside
<1>5. ASSUME NEW j \in Job, BeginSave(j)
      PROVE  StoreInv'
  BY <1>5, JobAssumption DEF BeginSave, StoreInv, TypeOK, Inside
<1>6. ASSUME NEW j \in Job, Open(j)
      PROVE  StoreInv'
  BY <1>6 DEF Open, StoreInv, TypeOK, Inside
<1>7. ASSUME NEW j \in Job, Dump(j)
      PROVE  StoreInv'
  BY <1>7 DEF Dump, StoreInv, TypeOK, Inside
<1>8. ASSUME NEW j \in Job, Swap(j)
      PROVE  StoreInv'
  BY <1>8, JobAssumption DEF Swap, StoreInv, TypeOK, Inside
<1>9. CASE Restart
  BY <1>9 DEF Restart, StoreInv, TypeOK, Inside
<1>10. CASE UNCHANGED vars
  BY <1>10 DEF vars, StoreInv, TypeOK, Inside
<1> QED
  BY <1>1, <1>2, <1>3, <1>4, <1>5, <1>6, <1>7, <1>8, <1>9, <1>10 DEF Next, Step

LEMMA StoreInvariant == Spec => []StoreInv
  BY StoreInit, StoreStep, PTL DEF Spec

\* _pending_lock keeps loads and saves apart, whatever the jobs do and however
\* often the process is restarted.
THEOREM LockExcludes == Spec => []OneAtATime
<1>1. StoreInv => OneAtATime
  BY DEF StoreInv, Inside, OneAtATime
<1> QED
  BY <1>1, StoreInvariant, PTL

\* A step of a job that is not a load, a change or a store of the file.
LEMMA Unseen ==
  ASSUME NEW j \in Job, NEW p, pc \in [Job -> Stage], pc' = [pc EXCEPT ![j] = p],
         Progress(p) = Progress(pc[j])
  PROVE  Seen' = Seen
  BY DEF Seen

LEMMA FileStep == StoreInv /\ [Next]_vars => [File!FileNext]_(File!fileVars)
<1> SUFFICES ASSUME TypeOK, Inside, [Next]_vars
             PROVE  [File!FileNext]_(File!fileVars)
  BY DEF StoreInv
<1>0. pc \in [Job -> Stage] /\ copy \in [Job -> Content \cup {Blank}]
  BY DEF TypeOK
<1>1. ASSUME NEW j \in Job, BeginLoad(j) \/ BeginSave(j) \/ Open(j) \/ Dump(j)
      PROVE  UNCHANGED File!fileVars
  <2>1. PICK p : pc' = [pc EXCEPT ![j] = p] /\ Progress(p) = Progress(pc[j])
    BY <1>1 DEF BeginLoad, BeginSave, Open, Dump, Goto, Progress
  <2>2. disk' = disk /\ copy' = copy
    BY <1>1 DEF BeginLoad, BeginSave, Open, Dump
  <2> QED
    BY <1>0, <2>1, <2>2, Unseen DEF File!fileVars
<1>2. ASSUME NEW j \in Job, Load(j)
      PROVE  File!Load(j)
  BY <1>0, <1>2 DEF Load, Goto, File!Load, Seen, Progress
<1>3. ASSUME NEW j \in Job, NEW k \in Key, NEW v \in Value, Edit(j, k, v)
      PROVE  File!Change(j)
  BY <1>0, <1>3 DEF Edit, Goto, File!Change, Seen, Progress
<1>4. ASSUME NEW j \in Job, Leave(j)
      PROVE  File!Leave(j)
  BY <1>0, <1>4 DEF Leave, Goto, File!Leave, Seen, Progress
<1>5. ASSUME NEW j \in Job, Swap(j)
      PROVE  File!Store(j)
  BY <1>0, <1>5 DEF Swap, Goto, File!Store, Seen, Progress, Inside
<1>6. CASE Restart
  <2>1. Seen' = [j \in Job |-> "idle"]
    BY <1>6 DEF Restart, Seen, Progress
  <2>2. File!Restart
    BY <1>6, <2>1 DEF Restart, File!Restart
  <2> QED
    BY <2>2 DEF File!FileNext
<1>7. CASE UNCHANGED vars
  BY <1>7 DEF vars, File!fileVars, Seen
<1>8. ASSUME NEW j \in Job, Step(j)
      PROVE  File!FileNext \/ UNCHANGED File!fileVars
  <2>1. CASE BeginLoad(j) \/ BeginSave(j) \/ Open(j) \/ Dump(j)
    BY <1>1, <2>1
  <2>2. CASE Load(j)
    BY <1>2, <2>2 DEF File!FileNext
  <2>3. CASE Leave(j)
    BY <1>4, <2>3 DEF File!FileNext
  <2>4. CASE Swap(j)
    BY <1>5, <2>4 DEF File!FileNext
  <2>5. CASE \E k \in Key, v \in Value : Edit(j, k, v)
    <3>1. PICK k \in Key, v \in Value : Edit(j, k, v)
      BY <2>5
    <3> QED
      BY <1>3, <3>1 DEF File!FileNext
  <2> QED
    BY <1>8, <2>1, <2>2, <2>3, <2>4, <2>5 DEF Step
<1>9. CASE \E j \in Job : Step(j)
  BY <1>8, <1>9
<1> QED
  BY <1>6, <1>7, <1>9 DEF Next

\* The pending file, written through a lock, a temporary file and a
\* replacement, implements a file that is loaded and stored in one piece: no
\* job ever loads half a file, and a restart loses nothing that was stored.
THEOREM PendingFileIsWhole == Spec => FileIsWhole
<1>1. Init => File!FileInit
  BY DEF Init, File!FileInit, Content, File!Content, Seen, Progress
<1> QED
  BY <1>1, StoreInvariant, FileStep, PTL DEF Spec, FileIsWhole, File!FileSpec
=============================================================================
