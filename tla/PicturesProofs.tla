--------------------------- MODULE PicturesProofs ---------------------------
(***************************************************************************)
(* Proofs about the parts of the run App_pages that show pictures: the     *)
(* page that sorts them (Curate), the files made on demand (OnDemand), the *)
(* page of a gallery (ImageViewer) and the thumbnails (Thumbs).            *)
(***************************************************************************)
EXTENDS MC_Pages, FiniteSetTheorems, TLAPS

(***************************************************************************)
(* The sorting page.  A change that a cache lacks is read by the script    *)
(* that runs, or another turn is certain, even while an error of an        *)
(* earlier turn stands: the next turn takes the error back.  And whatever  *)
(* was decided before a round has a time before its start, also what still *)
(* waits for the lock.                                                     *)
(***************************************************************************)
CuTypes ==
  /\ cuNow \in Nat /\ cuSince \in Nat \cup {CuNone}
  /\ cuPlace \in [CuPicture -> {"refine", "review", "archive", "gone"}]
  /\ cuLabel \in [CuPicture -> [label : {"none", "keep", "remove"},
                                src : {"none", "candidate", "dup", "restore"}, ts : Nat]]
  /\ cuAsked # CuNone => cuAsked \in [pic : CuPicture, label : {"keep", "remove"},
                                      src : {"candidate", "dup", "restore"}, ts : Nat]
  /\ cuStale \in [Script -> SUBSET CuPicture] /\ cuReads \subseteq CuPicture
  /\ cuTimer \in BOOLEAN /\ cuRunning \in BOOLEAN /\ cuAgain \in BOOLEAN /\ cuError \in BOOLEAN
  /\ cuStep \in {1, 2, 3}
CuTurns ==
  /\ ~cuRunning => cuStep = 1 /\ cuGpu # "embed"
  /\ cuGpu = "embed" => cuStep \in Script
                        /\ (cuStale[cuStep] \subseteq cuReads \/ cuTimer \/ cuAgain)
CuTimes ==
  /\ \A p \in CuPicture : cuLabel[p].ts <= cuNow
  /\ cuAsked # CuNone => cuAsked.ts <= cuNow
  /\ cuSince # CuNone =>
       /\ \A p \in CuPicture \ cuLooked : cuLabel[p].ts < cuSince
       /\ cuAsked # CuNone /\ cuAsked.pic \notin cuLooked => cuAsked.ts < cuSince
CuInv == CuTypes /\ CuTurns /\ CuTimes /\ ChangeIsSeen

LEMMA CuSafe == CuInv => CurateRight
  BY DEF CuInv, CuTimes, CurateRight, RoundAsksAgain, Candidates

LEMMA CuStart == CuInit => CuInv
<1> SUFFICES ASSUME CuInit PROVE CuInv
  OBVIOUS
<1>1. CuTypes
  BY DEF CuInit, CuTypes, Script, NotDecided
<1>2. CuTurns
  BY DEF CuInit, CuTurns
<1>3. CuTimes
  BY CuAssumption DEF CuInit, CuTimes, NotDecided
<1>4. ChangeIsSeen
  BY DEF CuInit, ChangeIsSeen
<1> QED
  BY <1>1, <1>2, <1>3, <1>4 DEF CuInv

\* The embedding starts, or is told to go once more.
LEMMA KickKeeps ==
  ASSUME CuInv, KickEmbed,
         cuTimer' \in BOOLEAN,
         UNCHANGED <<cuStale, cuStep, cuReads, cuError, cuGpu>>
  PROVE  cuRunning' \in BOOLEAN /\ cuAgain' \in BOOLEAN /\ CuTurns' /\ ChangeIsSeen'
<1>1. cuRunning' /\ (cuAgain' <=> cuRunning) /\ cuRunning \in BOOLEAN
  BY DEF KickEmbed, CuInv, CuTypes
<1>2. cuRunning' \in BOOLEAN /\ cuAgain' \in BOOLEAN
  BY DEF KickEmbed, CuInv, CuTypes
<1>3. CuTurns'
  BY <1>1 DEF CuInv, CuTurns
<1>4. ASSUME NEW s \in Script, ~cuRunning
      PROVE  cuStep' < s \/ (cuStep' = s /\ cuGpu' # "embed")
  BY <1>4 DEF CuInv, CuTurns, Script
<1>5. ChangeIsSeen'
  BY <1>1, <1>4 DEF ChangeIsSeen
<1> QED
  BY <1>2, <1>3, <1>5

LEMMA CuKept == CuInv /\ [CuNext]_CuVars => CuInv'
<1> SUFFICES ASSUME CuInv, [CuNext]_CuVars PROVE CuInv'
  OBVIOUS
<1>0. CuTypes /\ CuTurns /\ CuTimes /\ ChangeIsSeen
  BY DEF CuInv
<1>1. ASSUME UNCHANGED <<cuPlace, cuLabel, cuSince, cuAsked, cuLooked>>, cuNow' \in Nat, cuNow <= cuNow'
      PROVE  CuTimes'
  <2>1. cuNow \in Nat /\ \A p \in CuPicture : cuLabel[p].ts \in Nat
    BY <1>0 DEF CuTypes
  <2>2. cuAsked # CuNone => cuAsked.ts \in Nat
    BY <1>0 DEF CuTypes
  <2> QED
    BY <1>0, <1>1, <2>1, <2>2 DEF CuTimes
<1>2. ASSUME UNCHANGED <<cuStale, cuTimer, cuRunning, cuAgain, worker, cuGpu>>
      PROVE  CuTurns' /\ ChangeIsSeen'
  BY <1>0, <1>2 DEF CuTurns, ChangeIsSeen, worker
<1>3. CASE UNCHANGED CuVars \/ KickScreen \/ MovePassed \/ MoveOnePassed \/ Tick
  <2>1. /\ cuNow' \in Nat /\ cuNow <= cuNow'
        /\ UNCHANGED <<decides, cuStale, cuTimer, cuRunning, cuAgain, worker, cuGpu>>
    BY <1>0, <1>3 DEF CuVars, KickScreen, MovePassed, MoveOnePassed, Tick, CuTypes
  <2> QED
    BY <1>0, <1>1, <1>2, <2>1 DEF CuInv, CuTypes, decides, worker
<1>4. CASE ScreenRuns
  <2>1. UNCHANGED <<cuNow, decides, cuStale, cuTimer, cuRunning, cuAgain, worker>>
        /\ (cuGpu' = "embed" => cuGpu = "embed")
    BY <1>4 DEF ScreenRuns
  <2>2. CuTurns' /\ ChangeIsSeen'
    BY <1>0, <2>1 DEF CuTurns, ChangeIsSeen, worker
  <2> QED
    BY <1>0, <1>1, <2>1, <2>2 DEF CuInv, CuTypes, decides, worker
<1>5. ASSUME NEW p \in CuPicture, Change(p) PROVE CuInv'
  <2>1. /\ cuStale' = [s \in Script |-> cuStale[s] \cup {p}] /\ cuReads' = cuReads \ {p} /\ cuTimer' = TRUE
        /\ UNCHANGED <<cuNow, decides, cuRunning, cuAgain, cuStep, cuError, cuGpu>>
    BY <1>5 DEF Change
  <2>2. cuStale' \in [Script -> SUBSET CuPicture] /\ cuReads' \subseteq CuPicture
    BY <1>0, <2>1 DEF CuTypes
  <2>3. CuTypes'
    BY <1>0, <2>1, <2>2 DEF CuTypes, decides
  <2>4. CuTurns' /\ ChangeIsSeen'
    BY <1>0, <2>1 DEF CuTurns, ChangeIsSeen
  <2> QED
    BY <1>0, <1>1, <2>1, <2>3, <2>4 DEF CuInv, decides, CuTypes
<1>6. CASE TimerFires \/ ApiEmbed
  <2>1. /\ KickEmbed /\ cuTimer' \in BOOLEAN
        /\ UNCHANGED <<cuNow, decides, cuStale, cuStep, cuReads, cuError, cuGpu>>
    BY <1>0, <1>6 DEF TimerFires, ApiEmbed, worker, CuTypes
  <2>2. cuRunning' \in BOOLEAN /\ cuAgain' \in BOOLEAN /\ CuTurns' /\ ChangeIsSeen'
    BY <2>1, KickKeeps
  <2> QED
    BY <1>0, <1>1, <2>1, <2>2 DEF CuInv, CuTypes, decides
<1>7. CASE ScriptStarts
  <2>1. /\ cuRunning /\ cuStep \in Script /\ cuGpu' = "embed" /\ cuReads' = cuStale[cuStep]
        /\ UNCHANGED <<cuNow, decides, cuStale, cuTimer, cuRunning, cuAgain, cuStep, cuError>>
    BY <1>7 DEF ScriptStarts
  <2>2. cuReads' \subseteq CuPicture
    BY <1>0, <2>1 DEF CuTypes
  <2>3. CuTurns' /\ ChangeIsSeen'
    BY <1>0, <2>1 DEF CuTurns, ChangeIsSeen
  <2> QED
    BY <1>0, <1>1, <2>1, <2>2, <2>3 DEF CuInv, CuTypes, decides
<1>8. CASE ScriptEnds
  <2>1. /\ cuGpu = "embed" /\ cuGpu' = "free" /\ cuStep' = cuStep + 1 /\ cuReads' = {}
        /\ \/ cuStale' = [cuStale EXCEPT ![cuStep] = cuStale[cuStep] \ cuReads]
              /\ (cuError' <=> (cuError /\ cuStep = 2))
           \/ cuStale' = cuStale /\ cuError'
        /\ UNCHANGED <<cuNow, decides, cuTimer, cuRunning, cuAgain>>
    BY <1>8 DEF ScriptEnds
  <2>2. cuStep \in {1, 2} /\ cuRunning /\ (cuStale[cuStep] \subseteq cuReads \/ cuTimer \/ cuAgain)
    BY <1>0, <2>1 DEF CuTurns, Script
  <2>3. cuStep' \in {2, 3} /\ cuRunning'
    BY <2>1, <2>2
  <2>4. cuStale' \in [Script -> SUBSET CuPicture]
    BY <1>0, <2>1 DEF CuTypes
  <2>5. cuError' \in BOOLEAN
    BY <1>8 DEF ScriptEnds
  <2>6. CuTypes'
    BY <1>0, <2>1, <2>3, <2>4, <2>5 DEF CuTypes, decides
  <2>7. CuTurns'
    BY <2>1, <2>3 DEF CuTurns
  <2>8. ASSUME NEW s \in Script, cuStale'[s] # {}, ~cuTimer', ~cuAgain', ~cuError'
        PROVE  cuStep' < s \/ cuStep' = s
    <3>1. cuStale' = [cuStale EXCEPT ![cuStep] = cuStale[cuStep] \ cuReads]
          /\ (cuError' <=> (cuError /\ cuStep = 2))
      BY <2>1, <2>8
    <3>2. s # cuStep
      BY <1>0, <2>1, <2>2, <2>8, <3>1 DEF CuTypes
    <3>3. cuStale[s] # {}
      BY <1>0, <2>8, <3>1, <3>2 DEF CuTypes
    <3>4. CASE cuStep = 1
      BY <2>1, <3>2, <3>4 DEF Script
    <3>5. CASE cuStep = 2
      <4>1. s = 1 /\ ~cuError /\ ~cuTimer /\ ~cuAgain
        BY <2>1, <2>8, <3>1, <3>2, <3>5 DEF Script
      <4> QED
        BY <1>0, <3>3, <3>5, <4>1 DEF ChangeIsSeen
    <3> QED
      BY <2>2, <3>4, <3>5
  <2>9. ChangeIsSeen'
    BY <2>1, <2>3, <2>8 DEF ChangeIsSeen
  <2> QED
    BY <1>0, <1>1, <2>1, <2>6, <2>7, <2>9 DEF CuInv, CuTypes, decides
<1>9. CASE WorkerEnds
  <2>1. /\ cuRunning /\ cuStep = 3 /\ cuStep' = 1 /\ (cuRunning' <=> cuAgain) /\ ~cuAgain'
        /\ UNCHANGED <<cuNow, decides, cuStale, cuTimer, cuReads, cuError, cuGpu>>
    BY <1>9 DEF WorkerEnds
  <2>2. cuRunning' \in BOOLEAN /\ cuAgain' \in BOOLEAN
    BY <1>0, <1>9 DEF WorkerEnds, CuTypes
  <2>3. cuGpu' # "embed"
    BY <1>0, <2>1 DEF CuTurns, Script
  <2>4. CuTypes'
    BY <1>0, <2>1, <2>2 DEF CuTypes, decides
  <2>5. CuTurns'
    BY <2>1, <2>3 DEF CuTurns
  <2>6. ASSUME NEW s \in Script, cuStale[s] # {} PROVE cuTimer \/ cuAgain \/ cuError
    BY <1>0, <2>1, <2>6 DEF ChangeIsSeen, Script
  <2>7. ChangeIsSeen'
    BY <2>1, <2>3, <2>6 DEF ChangeIsSeen, Script
  <2> QED
    BY <1>0, <1>1, <2>1, <2>4, <2>5, <2>7 DEF CuInv, CuTypes, decides
<1>10. ASSUME NEW p \in CuPicture, NEW what \in {"keep", "remove"}, NEW src \in {"candidate", "dup", "restore"},
              Decide(p, what, src)
       PROVE  CuInv'
  <2>1. PICK d : d = [pic |-> p, label |-> what, src |-> src, ts |-> cuNow]
    OBVIOUS
  <2>2. /\ cuAsked' = d /\ cuLooked' = cuLooked \cup (IF cuSince # CuNone THEN {p} ELSE {})
        /\ UNCHANGED <<cuNow, cuPlace, cuLabel, cuSince, cuStale, cuTimer, cuRunning, cuAgain, worker, cuGpu>>
    BY <1>10, <2>1 DEF Decide
  <2>3. d \in [pic : CuPicture, label : {"keep", "remove"}, src : {"candidate", "dup", "restore"}, ts : Nat]
        /\ d.pic = p /\ d.ts = cuNow
    BY <1>0, <2>1 DEF CuTypes
  <2>4. CuTypes'
    BY <1>0, <2>2, <2>3 DEF CuTypes, worker
  <2>5. CuTimes'
    BY <1>0, <2>2, <2>3 DEF CuTimes, CuTypes
  <2> QED
    BY <1>2, <2>2, <2>4, <2>5 DEF CuInv
<1>11. CASE Recorded
  <2>1. PICK d : d = [label |-> cuAsked.label, src |-> cuAsked.src, ts |-> cuAsked.ts]
    OBVIOUS
  <2>2. /\ cuAsked # CuNone /\ cuAsked' = CuNone /\ cuLabel' = [cuLabel EXCEPT ![cuAsked.pic] = d]
        /\ cuPlace' = [cuPlace EXCEPT ![cuAsked.pic] = IF cuAsked.label = "remove" THEN "review" ELSE "refine"]
        /\ KickEmbed
        /\ UNCHANGED <<cuNow, cuSince, cuLooked, cuStale, cuTimer, cuStep, cuReads, cuError, cuGpu>>
    BY <1>11, <2>1 DEF Recorded, worker
  <2>3. cuAsked.pic \in CuPicture /\ d.ts = cuAsked.ts /\ cuAsked.ts \in Nat
        /\ d \in [label : {"none", "keep", "remove"}, src : {"none", "candidate", "dup", "restore"}, ts : Nat]
    BY <1>0, <2>1, <2>2 DEF CuTypes
  <2>4. cuRunning' \in BOOLEAN /\ cuAgain' \in BOOLEAN /\ CuTurns' /\ ChangeIsSeen'
    BY <1>0, <2>2, KickKeeps DEF CuTypes
  <2>5. CuTypes'
    BY <1>0, <2>2, <2>3, <2>4 DEF CuTypes
  <2>6. \A p \in CuPicture : cuLabel'[p].ts = IF p = cuAsked.pic THEN cuAsked.ts ELSE cuLabel[p].ts
    BY <1>0, <2>2, <2>3 DEF CuTypes
  <2>7. CuTimes'
    BY <1>0, <2>2, <2>3, <2>6 DEF CuTimes
  <2> QED
    BY <2>4, <2>5, <2>7 DEF CuInv
<1>12. ASSUME NEW p \in CuPicture, Archive(p) PROVE CuInv'
  <2>1. /\ KickEmbed /\ cuPlace' \in [CuPicture -> {"refine", "review", "archive", "gone"}]
        /\ UNCHANGED <<cuNow, cuLabel, cuSince, cuAsked, cuLooked, cuStale, cuTimer, cuStep, cuReads, cuError, cuGpu>>
    BY <1>0, <1>12 DEF Archive, worker, CuTypes
  <2>2. cuRunning' \in BOOLEAN /\ cuAgain' \in BOOLEAN /\ CuTurns' /\ ChangeIsSeen'
    BY <1>0, <2>1, KickKeeps DEF CuTypes
  <2> QED
    BY <1>0, <2>1, <2>2 DEF CuInv, CuTypes, CuTimes
<1>13. CASE StartRound
  <2>1. cuSince' = cuNow + 1 /\ cuLooked' = {}
        /\ UNCHANGED <<cuNow, cuPlace, cuLabel, cuAsked, cuStale, cuTimer, cuRunning, cuAgain, worker, cuGpu>>
    BY <1>13 DEF StartRound
  <2>2. /\ \A p \in CuPicture : cuLabel[p].ts \in Nat
        /\ cuAsked # CuNone => cuAsked.ts \in Nat
        /\ cuNow \in Nat
    BY <1>0 DEF CuTypes
  <2>3. CuTimes'
    BY <1>0, <2>1, <2>2 DEF CuTimes
  <2> QED
    BY <1>0, <1>2, <2>1, <2>3 DEF CuInv, CuTypes, worker
<1>14. CASE EndRound
  <2>1. cuSince' = CuNone
        /\ UNCHANGED <<cuNow, cuPlace, cuLabel, cuAsked, cuLooked, cuStale, cuTimer, cuRunning, cuAgain, worker, cuGpu>>
    BY <1>14 DEF EndRound
  <2> QED
    BY <1>0, <1>2, <2>1 DEF CuInv, CuTypes, CuTimes, worker
<1>15. ASSUME NEW p \in CuPicture, Propose(p) \/ AskBack(p) PROVE CuInv'
  BY <1>10, <1>15 DEF Propose, AskBack
<1> QED
  BY <1>3, <1>4, <1>5, <1>6, <1>7, <1>8, <1>9, <1>11, <1>12, <1>13, <1>14, <1>15 DEF CuNext

(***************************************************************************)
(* Files made on demand.  Of the requests for one file at most one has the *)
(* lock, which it keeps while it makes the file; so only an upload can be  *)
(* in its way, and what it finds not fresh under the lock is not fresh     *)
(* when it ends, or the source has changed meanwhile.                      *)
(***************************************************************************)
OdSource == [is : Nat, time : Nat]
OdMade   == [of : Nat, time : Nat, whole : BOOLEAN]
OdDoes   == [at : {"away", "asked", "locked", "making"}, file : OdFile \cup {OdNone}, read : Nat]
OdTypes ==
  /\ odNow \in Nat /\ odFree \in Int
  /\ odSrc \in [OdFile -> OdSource \cup {OdNone}] /\ odKept \in [OdFile -> OdMade \cup {OdNone}]
  /\ odReq \in [OdRequest -> OdDoes]
  /\ odUpload \in [OdUploaded -> [at : {"away", "saved", "making"}, file : OdFile \cup {OdNone}, read : Nat]]
OdLocks ==
  /\ \A r \in OdRequest : odReq[r].at # "away" => odReq[r].file \in OdFile /\ odSrc[odReq[r].file] # OdNone
  /\ \A r, s \in OdRequest :
       odReq[r].at \in {"locked", "making"} /\ odReq[s].at \in {"locked", "making"}
         /\ odReq[r].file = odReq[s].file => r = s
OdTimes ==
  /\ \A f \in OdUploaded : odUpload[f].at # "away" => odSrc[f] # OdNone
  /\ \A f \in OdFile : odKept[f] # OdNone => odSrc[f] # OdNone /\ odKept[f].time <= odNow
  /\ odMixed \subseteq OdUploaded
Seated == {r \in OdRequest : odReq[r].at = "making" /\ odReq[r].file \in OdVideo}
OdSeated == IsFiniteSet(Seated) /\ odFree = OdSeats - Cardinality(Seated)
OdInv == OdTypes /\ OdLocks /\ OdTimes /\ OdSeated /\ KeptIsWhole /\ FreshIsOfTheSource /\ MadeOnce

LEMMA OdSafe == OdInv => OnDemandRight
  BY DEF OdInv, OdSeated, Seated, OnDemandRight, SeatsComeBack

LEMMA OdStart == OdInit => OdInv
<1> SUFFICES ASSUME OdInit PROVE OdInv
  OBVIOUS
<1>1. OdUploaded \subseteq OdFile
  BY OdAssumption DEF OdFile
<1>2. OdTypes
  BY OdAssumption DEF OdInit, OdTypes, OdAway, OdDoes, OdSource
<1>3. OdLocks /\ OdTimes /\ KeptIsWhole /\ FreshIsOfTheSource /\ MadeOnce
  BY <1>1 DEF OdInit, OdLocks, OdTimes, OdAway, KeptIsWhole, FreshIsOfTheSource, MadeOnce, KeptIsFresh
<1>4. Seated = {}
  BY DEF OdInit, OdAway, Seated
<1>5. OdSeated
  BY <1>4, FS_EmptySet, OdAssumption DEF OdSeated, OdInit
<1> QED
  BY <1>2, <1>3, <1>5 DEF OdInv

\* A request asks, locks, finds the file or gives up.
LEMMA RequestGoes ==
  ASSUME OdInv, NEW r \in OdRequest, NEW d \in OdDoes,
         odReq' = [odReq EXCEPT ![r] = d],
         d.at # "making", odReq[r].at # "making",
         d.at # "away" => d.file \in OdFile /\ odSrc[d.file] # OdNone,
         d.at = "locked" => ~Locked(d.file),
         UNCHANGED <<odSrc, odKept, odUpload, odFree, odMixed, odOld, odNow>>
  PROVE  OdInv'
<1>1. \A s \in OdRequest : odReq'[s] = IF s = r THEN d ELSE odReq[s]
  BY DEF OdInv, OdTypes
<1>2. OdTypes'
  BY DEF OdInv, OdTypes
<1>3. \A s \in OdRequest : odReq[s].at \in {"locked", "making"} /\ d.at = "locked" => odReq[s].file # d.file
  BY DEF Locked
<1>4. d.at \in {"away", "asked", "locked"}
  BY DEF OdDoes
<1>5. OdLocks'
  <2>1. \A s \in OdRequest : odReq'[s].at # "away" => odReq'[s].file \in OdFile /\ odSrc'[odReq'[s].file] # OdNone
    BY <1>1 DEF OdInv, OdLocks
  <2>2. ASSUME NEW s \in OdRequest, NEW u \in OdRequest, s # u,
               odReq'[s].at \in {"locked", "making"}, odReq'[u].at \in {"locked", "making"},
               odReq'[s].file = odReq'[u].file
        PROVE  FALSE
    <3>1. CASE s # r /\ u # r
      BY <1>1, <2>2, <3>1 DEF OdInv, OdLocks
    <3>2. CASE s = r
      BY <1>1, <1>3, <1>4, <2>2, <3>2
    <3>3. CASE u = r
      BY <1>1, <1>3, <1>4, <2>2, <3>3
    <3> QED
      BY <3>1, <3>2, <3>3
  <2> QED
    BY <2>1, <2>2 DEF OdLocks
<1>6. OdTimes' /\ KeptIsWhole' /\ FreshIsOfTheSource'
  BY DEF OdInv, OdTimes, KeptIsWhole, FreshIsOfTheSource, KeptIsFresh
<1>7. MadeOnce'
  BY <1>1 DEF OdInv, MadeOnce, KeptIsFresh
<1>8. Seated' = Seated
  BY <1>1 DEF Seated
<1>9. OdSeated'
  BY <1>8 DEF OdInv, OdSeated
<1> QED
  BY <1>2, <1>5, <1>6, <1>7, <1>9 DEF OdInv

LEMMA BeginsKeeps == ASSUME OdInv, NEW r \in OdRequest, Begins(r) PROVE OdInv'
<1>1. PICK f : f = odReq[r].file
  OBVIOUS
<1>2. /\ odReq[r].at = "locked" /\ ~KeptIsFresh(f)
      /\ odFree' = IF f \in OdVideo THEN odFree - 1 ELSE odFree
      /\ odReq' = [odReq EXCEPT ![r].at = "making", ![r].read = odSrc[f].is]
      /\ odMixed' = IF Making(f) # {} \/ Uploading(f) THEN odMixed \cup {f} ELSE odMixed \ {f}
      /\ UNCHANGED <<odSrc, odKept, odUpload, odOld, odNow>>
  BY <1>1 DEF Begins, LooksAgain
<1>3. f \in OdFile /\ odSrc[f] # OdNone /\ odSrc[f].is \in Nat
  BY <1>1, <1>2 DEF OdInv, OdTypes, OdLocks, OdSource
<1>4. \A s \in OdRequest : odReq'[s].file = odReq[s].file /\ odReq'[s].at = IF s = r THEN "making" ELSE odReq[s].at
  BY <1>2 DEF OdInv, OdTypes, OdDoes
<1>5. OdTypes'
  <2>1. odReq' \in [OdRequest -> OdDoes]
    <3>1. /\ odReq \in [OdRequest -> OdDoes] /\ r \in OdRequest
          /\ [odReq[r] EXCEPT !.at = "making", !.read = odSrc[f].is] \in OdDoes
      BY <1>3 DEF OdInv, OdTypes, OdDoes
    <3>2. odReq' = [odReq EXCEPT ![r] = [odReq[r] EXCEPT !.at = "making", !.read = odSrc[f].is]]
      BY <1>2, <3>1
    <3> QED
      BY <3>1, <3>2
  <2>2. odFree' \in Int
    BY <1>2 DEF OdInv, OdTypes
  <2> QED
    BY <1>2, <2>1, <2>2 DEF OdInv, OdTypes
<1>6. OdLocks'
  <2>1. \A s \in OdRequest : /\ odReq'[s].at # "away" => odReq[s].at # "away"
                             /\ odReq'[s].at \in {"locked", "making"} => odReq[s].at \in {"locked", "making"}
    BY <1>2, <1>4
  <2>2. odSrc' = odSrc
    BY <1>2
  <2> QED
    BY <1>4, <2>1, <2>2 DEF OdInv, OdLocks
<1>7. Making(f) = {}
  BY <1>1, <1>2 DEF Making, OdInv, OdLocks
<1>8. odMixed' \subseteq OdUploaded
  BY <1>2, <1>7 DEF Uploading, OdInv, OdTimes
<1>9. OdTimes' /\ KeptIsWhole' /\ FreshIsOfTheSource'
  BY <1>2, <1>8 DEF OdInv, OdTimes, KeptIsWhole, FreshIsOfTheSource, KeptIsFresh
<1>10. MadeOnce'
  <2>1. \A g \in OdFile : KeptIsFresh(g)' <=> KeptIsFresh(g)
    BY <1>2 DEF KeptIsFresh
  <2>2. ASSUME NEW s \in OdRequest, NEW g \in OdFile, odReq'[s].at = "making", odReq'[s].file = g
        PROVE  g \in odOld' \/ g \in OdUploaded \/ ~KeptIsFresh(g)'
    <3>1. CASE s = r
      BY <1>1, <1>2, <1>4, <2>1, <2>2, <3>1
    <3>2. CASE s # r
      <4>1. odReq[s].at = "making" /\ odReq[s].file = g
        BY <1>4, <2>2, <3>2
      <4>2. g \in odOld \/ g \in OdUploaded \/ ~KeptIsFresh(g)
        BY <4>1 DEF OdInv, MadeOnce
      <4> QED
        BY <1>2, <2>1, <4>2
    <3> QED
      BY <3>1, <3>2
  <2>3. \A s \in OdRequest : odReq'[s].at = "making" => odReq'[s].file \in OdFile
    BY <1>6 DEF OdLocks
  <2> QED
    BY <2>2, <2>3 DEF MadeOnce, KeptIsFresh
<1>11. OdSeated'
  <2>1. CASE f \in OdVideo
    <3>1. Seated' = Seated \cup {r} /\ r \notin Seated
      BY <1>1, <1>2, <1>4, <2>1 DEF Seated
    <3>2. IsFiniteSet(Seated') /\ Cardinality(Seated') = Cardinality(Seated) + 1 /\ Cardinality(Seated) \in Nat
      BY <3>1, FS_AddElement, FS_CardinalityType DEF OdInv, OdSeated
    <3> QED
      BY <1>2, <2>1, <3>2, OdAssumption DEF OdInv, OdSeated
  <2>2. CASE f \notin OdVideo
    <3>1. Seated' = Seated
      BY <1>1, <1>4, <2>2 DEF Seated
    <3> QED
      BY <1>2, <2>2, <3>1 DEF OdInv, OdSeated
  <2> QED
    BY <2>1, <2>2
<1> QED
  BY <1>5, <1>6, <1>9, <1>10, <1>11 DEF OdInv

\* What is put in place is whole and of its source, or that source is noted.
LEMMA InPlaceIs ==
  ASSUME OdInv, NEW f \in OdFile, odSrc[f] # OdNone, NEW read \in Nat, PutsInPlace(f, read),
         UNCHANGED <<odSrc, odNow, odMixed>>
  PROVE  /\ odKept' \in [OdFile -> OdMade \cup {OdNone}]
         /\ \A g \in OdFile \ {f} : odKept'[g] = odKept[g] /\ (g \in odOld' <=> g \in odOld)
         /\ \A g \in OdFile : odKept'[g] # OdNone => odSrc[g] # OdNone /\ odKept'[g].time <= odNow
         /\ KeptIsWhole' /\ FreshIsOfTheSource'
<1>1. PICK whole \in (IF f \in odMixed THEN BOOLEAN ELSE {TRUE}) :
        /\ odKept' = [odKept EXCEPT ![f] = [of |-> read, time |-> odNow, whole |-> whole]]
        /\ odOld' = IF odSrc[f] # OdNone /\ odSrc[f].is = read THEN odOld \ {f} ELSE odOld \cup {f}
  BY DEF PutsInPlace
<1>2. PICK d : d = [of |-> read, time |-> odNow, whole |-> whole]
  OBVIOUS
<1>3. whole \in BOOLEAN /\ (f \notin odMixed => whole)
  BY <1>1
<1>4. d \in OdMade /\ d.of = read /\ d.time = odNow /\ (d.whole <=> whole) /\ odNow \in Nat
  BY <1>2, <1>3 DEF OdMade, OdInv, OdTypes
<1>5. odKept' = [odKept EXCEPT ![f] = d]
  BY <1>1, <1>2
<1>6. odKept' \in [OdFile -> OdMade \cup {OdNone}]
  BY <1>4, <1>5 DEF OdInv, OdTypes
<1>7. \A g \in OdFile : odKept'[g] = IF g = f THEN d ELSE odKept[g]
  BY <1>5 DEF OdInv, OdTypes
<1>8. \A g \in OdFile \ {f} : odKept'[g] = odKept[g] /\ (g \in odOld' <=> g \in odOld)
  BY <1>1, <1>7
<1>9. \A g \in OdFile : odKept'[g] # OdNone => odSrc[g] # OdNone /\ odKept'[g].time <= odNow
  BY <1>4, <1>7 DEF OdInv, OdTimes
<1>10. KeptIsWhole'
  BY <1>3, <1>4, <1>7 DEF OdInv, OdTimes, KeptIsWhole
<1>11. FreshIsOfTheSource'
  <2>1. ASSUME NEW g \in OdFile, KeptIsFresh(g)' PROVE odKept'[g].of = odSrc'[g].is \/ g \in odOld'
    <3>1. CASE g = f
      BY <1>1, <1>4, <1>7, <3>1
    <3>2. CASE g # f
      BY <1>8, <2>1, <3>2 DEF KeptIsFresh, OdInv, FreshIsOfTheSource
    <3> QED
      BY <3>1, <3>2
  <2> QED
    BY <2>1 DEF FreshIsOfTheSource
<1> QED
  BY <1>6, <1>8, <1>9, <1>10, <1>11

LEMMA EndsKeeps == ASSUME OdInv, NEW r \in OdRequest, NEW done \in BOOLEAN, Ends(r, done) PROVE OdInv'
<1>1. PICK f : f = odReq[r].file
  OBVIOUS
<1>2. /\ odReq[r].at = "making" /\ odReq' = [odReq EXCEPT ![r] = OdAway]
      /\ odFree' = IF f \in OdVideo THEN odFree + 1 ELSE odFree
      /\ IF done THEN PutsInPlace(f, odReq[r].read) ELSE UNCHANGED <<odKept, odOld>>
      /\ UNCHANGED <<odSrc, odUpload, odMixed, odNow>>
  BY <1>1 DEF Ends, SeatsAfter
<1>3. f \in OdFile /\ odSrc[f] # OdNone /\ odReq[r].read \in Nat
  BY <1>1, <1>2 DEF OdInv, OdTypes, OdLocks, OdDoes
<1>4. OdAway \in OdDoes /\ OdAway.at = "away"
  BY DEF OdAway, OdDoes
<1>5. \A s \in OdRequest : odReq'[s] = IF s = r THEN OdAway ELSE odReq[s]
  BY <1>2 DEF OdInv, OdTypes
<1>6. OdLocks'
  BY <1>2, <1>4, <1>5 DEF OdInv, OdLocks
<1>7. ASSUME NEW s \in OdRequest, odReq'[s].at = "making" PROVE s # r /\ odReq'[s] = odReq[s] /\ odReq[s].file # f
  BY <1>1, <1>2, <1>4, <1>5, <1>7 DEF OdInv, OdLocks
<1>8. /\ odKept' \in [OdFile -> OdMade \cup {OdNone}]
      /\ \A g \in OdFile \ {f} : odKept'[g] = odKept[g] /\ (g \in odOld' <=> g \in odOld)
      /\ \A g \in OdFile : odKept'[g] # OdNone => odSrc[g] # OdNone /\ odKept'[g].time <= odNow
      /\ KeptIsWhole' /\ FreshIsOfTheSource'
  <2>1. CASE done
    BY <1>2, <1>3, <2>1, InPlaceIs
  <2>2. CASE ~done
    BY <1>2, <2>2 DEF OdInv, OdTypes, OdTimes, KeptIsWhole, FreshIsOfTheSource, KeptIsFresh
  <2> QED
    BY <2>1, <2>2
<1>9. OdTypes'
  <2>1. odFree' \in Int /\ odReq' \in [OdRequest -> OdDoes]
    BY <1>2, <1>4 DEF OdInv, OdTypes
  <2> QED
    BY <1>2, <1>8, <2>1 DEF OdInv, OdTypes
<1>10. OdTimes'
  BY <1>2, <1>8 DEF OdInv, OdTimes
<1>11. MadeOnce'
  <2>1. ASSUME NEW s \in OdRequest, NEW g \in OdFile, odReq'[s].at = "making", odReq'[s].file = g
        PROVE  g \in odOld' \/ g \in OdUploaded \/ ~KeptIsFresh(g)'
    <3>1. odReq[s].at = "making" /\ odReq[s].file = g /\ g # f
      BY <1>7, <2>1
    <3>2. g \in odOld \/ g \in OdUploaded \/ ~KeptIsFresh(g)
      BY <3>1 DEF OdInv, MadeOnce
    <3>3. KeptIsFresh(g)' <=> KeptIsFresh(g)
      BY <1>2, <1>8, <3>1 DEF KeptIsFresh
    <3> QED
      BY <1>8, <3>1, <3>2, <3>3
  <2>2. \A s \in OdRequest : odReq'[s].at = "making" => odReq'[s].file \in OdFile
    BY <1>6 DEF OdLocks
  <2> QED
    BY <2>1, <2>2 DEF MadeOnce, KeptIsFresh
<1>12. OdSeated'
  <2>1. CASE f \in OdVideo
    <3>1. Seated' = Seated \ {r} /\ r \in Seated
      BY <1>1, <1>2, <1>4, <1>5, <2>1 DEF Seated
    <3>2. IsFiniteSet(Seated') /\ Cardinality(Seated') = Cardinality(Seated) - 1 /\ Cardinality(Seated) \in Nat
      BY <3>1, FS_RemoveElement, FS_CardinalityType DEF OdInv, OdSeated
    <3> QED
      BY <1>2, <2>1, <3>2, OdAssumption DEF OdInv, OdSeated
  <2>2. CASE f \notin OdVideo
    <3>1. Seated' = Seated
      BY <1>1, <1>4, <1>5, <2>2 DEF Seated
    <3> QED
      BY <1>2, <2>2, <3>1 DEF OdInv, OdSeated
  <2> QED
    BY <2>1, <2>2
<1> QED
  BY <1>6, <1>8, <1>9, <1>10, <1>11, <1>12 DEF OdInv

LEMMA WrittenOverKeeps ==
  ASSUME OdInv, NEW f \in OdFile \ OdUploaded, NEW old \in BOOLEAN, WrittenOver(f, old) PROVE OdInv'
<1>1. PICK d : d = [is |-> odNow', time |-> IF old THEN 0 ELSE odNow']
  OBVIOUS
<1>2. /\ odNow' = odNow + 1 /\ odSrc[f] # OdNone /\ odSrc' = [odSrc EXCEPT ![f] = d]
      /\ odOld' = IF old \/ Making(f) # {} \/ Uploading(f) THEN odOld \cup {f} ELSE odOld \ {f}
      /\ UNCHANGED <<odKept, odReq, odUpload, odFree, odMixed>>
  BY <1>1 DEF WrittenOver
<1>3. odNow \in Nat /\ odNow' \in Nat /\ odNow < odNow'
  BY <1>2 DEF OdInv, OdTypes
<1>4. d \in OdSource /\ d # OdNone /\ (~old => d.time = odNow')
  BY <1>1, <1>3, OdAssumption DEF OdSource
<1>5. \A g \in OdFile : odSrc'[g] = IF g = f THEN d ELSE odSrc[g]
  BY <1>2 DEF OdInv, OdTypes
<1>6. OdTypes'
  BY <1>2, <1>3, <1>4 DEF OdInv, OdTypes
<1>7. OdUploaded \subseteq OdFile
  BY OdAssumption DEF OdFile
<1>8. OdLocks'
  BY <1>2, <1>4, <1>5 DEF OdInv, OdLocks
<1>9. \A g \in OdFile : odKept[g] # OdNone => odKept[g].time \in Nat
  BY DEF OdInv, OdTypes, OdMade
<1>10. OdTimes'
  <2>1. \A g \in OdUploaded : odUpload'[g].at # "away" => odSrc'[g] # OdNone
    BY <1>2, <1>4, <1>5, <1>7 DEF OdInv, OdTimes
  <2>2. \A g \in OdFile : odKept'[g] # OdNone => odSrc'[g] # OdNone /\ odKept'[g].time <= odNow'
    BY <1>2, <1>3, <1>4, <1>5, <1>9 DEF OdInv, OdTimes
  <2> QED
    BY <1>2, <2>1, <2>2 DEF OdInv, OdTimes
<1>11. ~old => ~KeptIsFresh(f)'
  BY <1>2, <1>3, <1>4, <1>5, <1>9 DEF KeptIsFresh, OdInv, OdTimes
<1>12. \A g \in OdFile \ {f} : KeptIsFresh(g)' <=> KeptIsFresh(g)
  BY <1>2, <1>5 DEF KeptIsFresh
<1>13. \A g \in OdFile \ {f} : g \in odOld' <=> g \in odOld
  BY <1>2
<1>14. FreshIsOfTheSource'
  BY <1>2, <1>5, <1>11, <1>12, <1>13 DEF OdInv, FreshIsOfTheSource
<1>15. MadeOnce'
  <2>1. ASSUME NEW s \in OdRequest, NEW g \in OdFile, odReq[s].at = "making", odReq[s].file = g
        PROVE  g \in odOld' \/ g \in OdUploaded \/ ~KeptIsFresh(g)'
    <3>1. CASE g = f
      <4>1. Making(f) # {}
        BY <2>1, <3>1 DEF Making
      <4> QED
        BY <1>2, <3>1, <4>1
    <3>2. CASE g # f
      <4>1. g \in odOld \/ g \in OdUploaded \/ ~KeptIsFresh(g)
        BY <2>1 DEF OdInv, MadeOnce
      <4> QED
        BY <1>12, <1>13, <3>2, <4>1
    <3> QED
      BY <3>1, <3>2
  <2>2. \A s \in OdRequest : odReq[s].at = "making" => odReq[s].file \in OdFile
    BY DEF OdInv, OdLocks
  <2> QED
    BY <1>2, <2>1, <2>2 DEF MadeOnce, KeptIsFresh
<1>16. KeptIsWhole' /\ OdSeated'
  <2>1. Seated' = Seated
    BY <1>2 DEF Seated
  <2> QED
    BY <1>2, <2>1 DEF OdInv, KeptIsWhole, OdSeated
<1> QED
  BY <1>6, <1>8, <1>10, <1>14, <1>15, <1>16 DEF OdInv

\* The upload of a video takes no lock: it moves no request.
LEMMA UploadGoes ==
  ASSUME OdInv, NEW f \in OdUploaded,
         NEW d \in [at : {"away", "saved", "making"}, file : OdFile \cup {OdNone}, read : Nat],
         odUpload' = [odUpload EXCEPT ![f] = d], odSrc[f] # OdNone,
         odMixed' \subseteq OdUploaded,
         UNCHANGED <<odSrc, odKept, odReq, odFree, odOld, odNow>>
  PROVE  OdInv'
<1>1. \A g \in OdUploaded : odUpload'[g] = IF g = f THEN d ELSE odUpload[g]
  BY DEF OdInv, OdTypes
<1>2. OdTypes'
  BY DEF OdInv, OdTypes
<1>3. OdLocks' /\ KeptIsWhole' /\ FreshIsOfTheSource' /\ MadeOnce'
  BY DEF OdInv, OdLocks, KeptIsWhole, FreshIsOfTheSource, MadeOnce, KeptIsFresh
<1>4. OdTimes'
  BY <1>1 DEF OdInv, OdTimes
<1>5. Seated' = Seated
  BY DEF Seated
<1>6. OdSeated'
  BY <1>5 DEF OdInv, OdSeated
<1> QED
  BY <1>2, <1>3, <1>4, <1>6 DEF OdInv

LEMMA OdKept == OdInv /\ [OdNext]_OdVars => OdInv'
<1> SUFFICES ASSUME OdInv, [OdNext]_OdVars PROVE OdInv'
  OBVIOUS
<1>0. OdAway \in OdDoes /\ OdAway.at = "away" /\ OdUploaded \subseteq OdFile
      /\ OdAway \in [at : {"away", "saved", "making"}, file : OdFile \cup {OdNone}, read : Nat]
  BY OdAssumption DEF OdAway, OdDoes, OdFile
<1>1. CASE UNCHANGED OdVars
  <2>1. Seated' = Seated
    BY <1>1 DEF OdVars, Seated
  <2>2. OdSeated'
    BY <1>1, <2>1 DEF OdVars, OdInv, OdSeated
  <2> QED
    BY <1>1, <2>2 DEF OdVars, OdInv, OdTypes, OdLocks, OdTimes, KeptIsWhole, FreshIsOfTheSource, MadeOnce, KeptIsFresh
<1>2. ASSUME NEW r \in OdRequest, Asks(r) PROVE OdInv'
  <2>1. PICK f \in OdFile : odSrc[f] # OdNone /\ odReq' = [odReq EXCEPT ![r] = [at |-> "asked", file |-> f, read |-> 0]]
    BY <1>2 DEF Asks
  <2>2. PICK d : d = [at |-> "asked", file |-> f, read |-> 0]
    OBVIOUS
  <2>3. d \in OdDoes /\ d.at = "asked" /\ d.file = f
    BY <2>2 DEF OdDoes
  <2>4. odReq' = [odReq EXCEPT ![r] = d] /\ odReq[r].at # "making"
        /\ UNCHANGED <<odSrc, odKept, odUpload, odFree, odMixed, odOld, odNow>>
    BY <1>2, <2>1, <2>2 DEF Asks
  <2> QED
    BY <2>1, <2>3, <2>4, RequestGoes
<1>3. ASSUME NEW r \in OdRequest, Locks(r) PROVE OdInv'
  <2>1. /\ odReq[r].at = "asked" /\ ~Locked(odReq[r].file) /\ odReq' = [odReq EXCEPT ![r].at = "locked"]
        /\ UNCHANGED <<odSrc, odKept, odUpload, odFree, odMixed, odOld, odNow>>
    BY <1>3 DEF Locks, LockFor
  <2>2. PICK d : d = [odReq[r] EXCEPT !.at = "locked"]
    OBVIOUS
  <2>3. d \in OdDoes /\ d.at = "locked" /\ d.file = odReq[r].file
    BY <2>2 DEF OdInv, OdTypes, OdDoes
  <2>4. odReq' = [odReq EXCEPT ![r] = d]
    BY <2>1, <2>2
  <2>5. odReq[r].file \in OdFile /\ odSrc[odReq[r].file] # OdNone
    BY <2>1 DEF OdInv, OdLocks
  <2> QED
    BY <2>1, <2>3, <2>4, <2>5, RequestGoes
<1>4. ASSUME NEW r \in OdRequest, FoundMeanwhile(r) \/ NoSeat(r) PROVE OdInv'
  <2>1. /\ odReq[r].at = "locked" /\ odReq' = [odReq EXCEPT ![r] = OdAway]
        /\ UNCHANGED <<odSrc, odKept, odUpload, odFree, odMixed, odOld, odNow>>
    BY <1>4 DEF FoundMeanwhile, NoSeat
  <2> QED
    BY <1>0, <2>1, RequestGoes
<1>5. ASSUME NEW f \in OdUploaded, Uploads(f) PROVE OdInv'
  <2>1. PICK d, e : /\ d = [is |-> odNow, time |-> odNow]
                    /\ e = [at |-> "saved", file |-> f, read |-> odNow]
    OBVIOUS
  <2>2. /\ odSrc[f] = OdNone /\ odSrc' = [odSrc EXCEPT ![f] = d] /\ odUpload' = [odUpload EXCEPT ![f] = e]
        /\ UNCHANGED <<odKept, odReq, odFree, odMixed, odOld, odNow>>
    BY <1>5, <2>1 DEF Uploads
  <2>3. d \in OdSource /\ d # OdNone
        /\ e \in [at : {"away", "saved", "making"}, file : OdFile \cup {OdNone}, read : Nat]
    BY <1>0, <2>1, OdAssumption DEF OdSource, OdInv, OdTypes
  <2>4. OdTypes'
    BY <1>0, <2>2, <2>3 DEF OdInv, OdTypes
  <2>5. \A g \in OdFile : odSrc'[g] = IF g = f THEN d ELSE odSrc[g]
    BY <2>2 DEF OdInv, OdTypes
  <2>6. odKept[f] = OdNone
    BY <1>0, <2>2 DEF OdInv, OdTimes
  <2>7. OdLocks' /\ OdTimes' /\ KeptIsWhole'
    BY <1>0, <2>2, <2>3, <2>5 DEF OdInv, OdLocks, OdTimes, KeptIsWhole
  <2>8. \A g \in OdFile : KeptIsFresh(g)' => KeptIsFresh(g) /\ g # f
    BY <2>2, <2>5, <2>6 DEF KeptIsFresh
  <2>9. FreshIsOfTheSource'
    BY <2>2, <2>5, <2>8 DEF OdInv, FreshIsOfTheSource
  <2>10. MadeOnce'
    BY <2>2, <2>8 DEF OdInv, MadeOnce, OdLocks
  <2>11. Seated' = Seated
    BY <2>2 DEF Seated
  <2>12. OdSeated'
    BY <2>2, <2>11 DEF OdInv, OdSeated
  <2> QED
    BY <2>4, <2>7, <2>9, <2>10, <2>12 DEF OdInv
<1>6. ASSUME NEW f \in OdUploaded, UploadMakes(f) PROVE OdInv'
  <2>1. /\ odUpload[f].at = "saved" /\ odUpload' = [odUpload EXCEPT ![f].at = "making", ![f].read = odSrc[f].is]
        /\ odMixed' = IF Making(f) # {} THEN odMixed \cup {f} ELSE odMixed \ {f}
        /\ UNCHANGED <<odSrc, odKept, odReq, odFree, odOld, odNow>>
    BY <1>6 DEF UploadMakes
  <2>2. odSrc[f] # OdNone
    BY <2>1 DEF OdInv, OdTimes
  <2>3. odSrc[f].is \in Nat
    BY <1>0, <2>2 DEF OdInv, OdTypes, OdSource
  <2>4. PICK d : d = [odUpload[f] EXCEPT !.at = "making", !.read = odSrc[f].is]
    OBVIOUS
  <2>5. d \in [at : {"away", "saved", "making"}, file : OdFile \cup {OdNone}, read : Nat]
    BY <2>3, <2>4 DEF OdInv, OdTypes
  <2>6. odUpload' = [odUpload EXCEPT ![f] = d]
    BY <2>1, <2>4 DEF OdInv, OdTypes
  <2>7. odMixed' \subseteq OdUploaded
    BY <2>1 DEF OdInv, OdTimes
  <2> QED
    BY <2>1, <2>2, <2>5, <2>6, <2>7, UploadGoes
<1>7. ASSUME NEW f \in OdUploaded, NEW done \in BOOLEAN, UploadEnds(f, done) PROVE OdInv'
  <2>1. /\ odUpload[f].at = "making" /\ odUpload' = [odUpload EXCEPT ![f] = OdAway]
        /\ IF done THEN PutsInPlace(f, odUpload[f].read) ELSE UNCHANGED <<odKept, odOld>>
        /\ UNCHANGED <<odSrc, odReq, odFree, odMixed, odNow>>
    BY <1>7 DEF UploadEnds
  <2>2. odSrc[f] # OdNone /\ f \in OdFile /\ odUpload[f].read \in Nat
    BY <1>0, <2>1 DEF OdInv, OdTimes, OdTypes
  <2>3. CASE ~done
    BY <1>0, <2>1, <2>2, <2>3, UploadGoes DEF OdInv, OdTimes
  <2>4. CASE done
    <3>1. /\ odKept' \in [OdFile -> OdMade \cup {OdNone}]
          /\ \A g \in OdFile \ {f} : odKept'[g] = odKept[g] /\ (g \in odOld' <=> g \in odOld)
          /\ \A g \in OdFile : odKept'[g] # OdNone => odSrc[g] # OdNone /\ odKept'[g].time <= odNow
          /\ KeptIsWhole' /\ FreshIsOfTheSource'
      BY <2>1, <2>2, <2>4, InPlaceIs
    <3>2. OdTypes'
      BY <1>0, <2>1, <3>1 DEF OdInv, OdTypes
    <3>3. OdLocks'
      BY <2>1 DEF OdInv, OdLocks
    <3>4. OdTimes'
      BY <1>0, <2>1, <2>2, <3>1 DEF OdInv, OdTimes, OdTypes
    <3>5. MadeOnce'
      <4>1. ASSUME NEW s \in OdRequest, odReq[s].at = "making", odReq[s].file \notin odOld',
                   odReq[s].file \notin OdUploaded
            PROVE  ~KeptIsFresh(odReq[s].file)'
        <5>1. odReq[s].file \in OdFile \ {f}
          BY <4>1 DEF OdInv, OdLocks
        <5>2. ~KeptIsFresh(odReq[s].file)
          BY <3>1, <4>1, <5>1 DEF OdInv, MadeOnce
        <5> QED
          BY <2>1, <3>1, <5>1, <5>2 DEF KeptIsFresh
      <4> QED
        BY <2>1, <4>1 DEF MadeOnce
    <3>6. Seated' = Seated
      BY <2>1 DEF Seated
    <3>7. OdSeated'
      BY <2>1, <3>6 DEF OdInv, OdSeated
    <3> QED
      BY <3>1, <3>2, <3>3, <3>4, <3>5, <3>7 DEF OdInv
  <2> QED
    BY <2>3, <2>4
<1>8. CASE ServerDies
  <2>1. /\ odReq' = [r \in OdRequest |-> OdAway] /\ odUpload' = [f \in OdUploaded |-> OdAway]
        /\ odFree' = OdSeats /\ UNCHANGED <<odSrc, odKept, odMixed, odOld, odNow>>
    BY <1>8 DEF ServerDies
  <2>2. OdTypes'
    BY <1>0, <2>1, OdAssumption DEF OdInv, OdTypes
  <2>3. OdLocks' /\ OdTimes' /\ KeptIsWhole' /\ FreshIsOfTheSource' /\ MadeOnce'
    BY <1>0, <2>1 DEF OdInv, OdLocks, OdTimes, KeptIsWhole, FreshIsOfTheSource, MadeOnce, KeptIsFresh
  <2>4. Seated' = {}
    BY <1>0, <2>1 DEF Seated
  <2>5. OdSeated'
    BY <2>1, <2>4, FS_EmptySet, OdAssumption DEF OdSeated
  <2> QED
    BY <2>2, <2>3, <2>5 DEF OdInv
<1> QED
  BY <1>1, <1>2, <1>3, <1>4, <1>5, <1>6, <1>7, <1>8, BeginsKeeps, EndsKeeps, WrittenOverKeeps DEF OdNext

(***************************************************************************)
(* The gallery page.  An answer about the original that has the token of   *)
(* the slide is about its picture.  And what may fail to be moved away is  *)
(* in neither list and behind what is drawn, so that it does not come      *)
(* back; what a deletion was asked for is not there to be moved.           *)
(***************************************************************************)
IvSlide ==
  /\ ivToken \in Nat /\ \A a \in ivAsks : a.token \in Nat /\ a.token <= ivToken
  /\ \A a \in ivAsks : a.token = ivToken => a.pic = ivOn
  /\ ivOrigin \in {IvNone, ivOn}
  /\ ivOpen => ivOn = ivImgs[ivIdx]
Behind(p) == p \in Nat /\ p <= ivDrew /\ p \notin ivList /\ p \notin ivDrawn
IvGrid ==
  /\ ivDrew \in Nat /\ ivDrew <= Cardinality(IvPicture)
  /\ \A p \in ivDrawn : p \in Nat /\ p <= ivDrew
  /\ \A p \in ivFailed : Behind(p)
  /\ \A m \in ivMoves : m.drawn => Behind(m.pic)
  /\ ivThere \cap ivDeleted = {} /\ FailedIsKept
IvInv == IvSlide /\ IvGrid

LEMMA IvSafe == IvInv => ViewerRight
  BY DEF IvInv, IvSlide, IvGrid, ViewerRight, SlideIsTheCurrent

LEMMA PicturesCounted == Cardinality(IvPicture) \in Nat /\ 1 <= Cardinality(IvPicture)
  BY IvAssumption, FS_CardinalityType

LEMMA IvStart == IvInit => IvInv
<1> SUFFICES ASSUME IvInit PROVE IvInv
  OBVIOUS
<1>1. IvGrid
  BY PicturesCounted DEF IvInit, IvGrid, FailedIsKept
<1> QED
  BY <1>1 DEF IvInit, IvInv, IvSlide

\* A slide is shown: no question has its token yet.
LEMMA SlideIsSet ==
  ASSUME IvSlide, NEW imgs, NEW i, SetSlide(imgs, i) PROVE IvSlide'
<1>1. PICK a : a = [token |-> ivToken', pic |-> imgs[i]]
  OBVIOUS
<1>2. /\ ivImgs' = imgs /\ ivIdx' = i /\ ivOn' = imgs[i] /\ ivToken' = ivToken + 1 /\ ivOrigin' = IvNone
      /\ ivAsks' \subseteq ivAsks \cup {a}
  BY <1>1 DEF SetSlide
<1>3. ivToken' \in Nat /\ ivToken < ivToken' /\ a.token = ivToken' /\ a.pic = ivOn'
  BY <1>1, <1>2 DEF IvSlide
<1>4. \A b \in ivAsks' : b.token \in Nat /\ b.token <= ivToken' /\ (b.token = ivToken' => b.pic = ivOn')
  BY <1>2, <1>3 DEF IvSlide
<1> QED
  BY <1>2, <1>3, <1>4 DEF IvSlide

\* A picture leaves the page: if it was drawn, it is behind.
LEMMA GoneIsBehind ==
  ASSUME IvGrid, NEW p, Gone(p), UNCHANGED <<ivDrew, ivThere, ivDeleted, ivFailed>> PROVE IvGrid'
<1>1. PICK m : m = [pic |-> p, drawn |-> p \in ivDrawn]
  OBVIOUS
<1>2. /\ ivDrawn' = ivDrawn \ {p} /\ ivList' = ivList \ {p} /\ ivMoves' = ivMoves \cup {m}
      /\ m.pic = p /\ (m.drawn <=> p \in ivDrawn)
  BY <1>1 DEF Gone
<1>3. \A q : Behind(q) => Behind(q)'
  BY <1>2 DEF Behind
<1>4. m.drawn => Behind(m.pic)'
  BY <1>2 DEF IvGrid, Behind
<1>5. \A q \in ivMoves' : q.drawn => Behind(q.pic)'
  BY <1>2, <1>3, <1>4 DEF IvGrid
<1> QED
  BY <1>2, <1>3, <1>5 DEF IvGrid, FailedIsKept

LEMMA IvKept == IvInv /\ [IvNext]_IvVars => IvInv'
<1> SUFFICES ASSUME IvInv, [IvNext]_IvVars PROVE IvInv'
  OBVIOUS
<1>0. IvSlide /\ IvGrid
  BY DEF IvInv
<1>1. UNCHANGED slides => IvSlide'
  BY <1>0 DEF slides, IvSlide
<1>2. UNCHANGED grid => IvGrid'
  BY <1>0 DEF grid, IvGrid, Behind, FailedIsKept
<1>3. CASE UNCHANGED IvVars \/ Duration
  BY <1>1, <1>2, <1>3 DEF IvVars, Duration, IvInv
<1>4. CASE Draw
  <2>1. /\ ivDrew < Cardinality(IvPicture) /\ ivDrew' = ivDrew + 1 /\ ivDrawn' = ivDrawn \cup {ivDrew'}
        /\ UNCHANGED <<ivList, ivMoves, ivThere, ivDeleted, ivFailed, slides>>
    BY <1>4 DEF Draw
  <2>2. Cardinality(IvPicture) \in Nat
    BY PicturesCounted
  <2>3. \A p : Behind(p) => Behind(p)'
    BY <1>0, <2>1 DEF IvGrid, Behind
  <2>4. IvGrid'
    BY <1>0, <2>1, <2>2, <2>3 DEF IvGrid, FailedIsKept
  <2> QED
    BY <1>1, <2>1, <2>4 DEF IvInv
<1>5. CASE DeletePage
  <2>1. /\ ivDeleted' = ivDeleted \cup ivList \cup ivDrawn /\ ivList' = {} /\ ivDrawn' = {}
        /\ ivDrew' = Cardinality(IvPicture) /\ ivThere' = ivThere \ (ivList \cup ivDrawn)
        /\ UNCHANGED <<ivMoves, ivFailed, slides>>
    BY <1>5 DEF DeletePage
  <2>2. Cardinality(IvPicture) \in Nat
    BY PicturesCounted
  <2>3. \A p : Behind(p) => Behind(p)'
    BY <1>0, <2>1, <2>2 DEF IvGrid, Behind
  <2>4. FailedIsKept' /\ ivThere' \cap ivDeleted' = {}
    BY <1>0, <2>1 DEF IvGrid, Behind, FailedIsKept
  <2>5. IvGrid'
    BY <1>0, <2>1, <2>2, <2>3, <2>4 DEF IvGrid
  <2> QED
    BY <1>1, <2>1, <2>5 DEF IvInv
<1>6. ASSUME NEW p \in IvPicture, MoveAway(p) PROVE IvInv'
  BY <1>0, <1>1, <1>6, GoneIsBehind DEF MoveAway, IvInv
<1>7. ASSUME NEW m \in ivMoves, Moved(m) PROVE IvInv'
  <2>1. /\ ivMoves' = ivMoves \ {m} /\ ivThere' \subseteq ivThere
        /\ \/ ivFailed' = ivFailed
           \/ ivFailed' = ivFailed \cup {m.pic} /\ m.drawn /\ m.pic \in ivThere
        /\ UNCHANGED <<ivList, ivDrawn, ivDrew, ivDeleted, slides>>
    BY <1>7 DEF Moved
  <2>2. \A p : Behind(p) => Behind(p)'
    BY <2>1 DEF Behind
  <2>3. \A p \in ivFailed' : Behind(p) /\ p \notin ivDeleted
    BY <1>0, <2>1 DEF IvGrid, FailedIsKept
  <2>4. IvGrid'
    BY <1>0, <2>1, <2>2, <2>3 DEF IvGrid, FailedIsKept
  <2> QED
    BY <1>1, <2>1, <2>4 DEF IvInv
<1>8. ASSUME NEW pics, NEW i, Show(pics, i) PROVE IvInv'
  BY <1>0, <1>2, <1>8, SlideIsSet DEF Show, IvInv
<1>9. CASE Advance \/ Step
  <2>1. \E i : SetSlide(Extended, i) \/ SetSlide(ivImgs, i)
    BY <1>9 DEF Advance, Step
  <2>2. UNCHANGED grid
    BY <1>9 DEF Advance, Step
  <2> QED
    BY <1>0, <1>2, <2>1, <2>2, SlideIsSet DEF IvInv
<1>10. CASE Close
  <2>1. ~ivOpen' /\ UNCHANGED <<grid, ivOn, ivToken, ivAsks, ivOrigin>>
    BY <1>10 DEF Close
  <2> QED
    BY <1>0, <1>2, <2>1 DEF IvInv, IvSlide
<1>11. CASE SlideShowDeleteCurrent
  <2>1. IvGrid'
    BY <1>0, <1>11, GoneIsBehind DEF SlideShowDeleteCurrent
  <2>2. PICK rest : rest = RemoveAt(ivImgs, ivIdx)
    OBVIOUS
  <2>3. \/ ~ivOpen' /\ UNCHANGED <<ivOn, ivToken, ivAsks, ivOrigin>>
        \/ SetSlide(rest, IF ivIdx > Len(rest) THEN Len(rest) ELSE ivIdx)
    BY <1>11, <2>2 DEF SlideShowDeleteCurrent
  <2>4. IvSlide'
    BY <1>0, <2>3, SlideIsSet DEF IvSlide
  <2> QED
    BY <2>1, <2>4 DEF IvInv
<1>12. ASSUME NEW a \in ivAsks, OriginFound(a) PROVE IvInv'
  <2>1. /\ ivAsks' \subseteq ivAsks /\ (ivOrigin' = ivOrigin \/ ivOrigin' = ivOn)
        /\ UNCHANGED <<grid, ivOpen, ivImgs, ivIdx, ivOn, ivToken>>
    BY <1>0, <1>12 DEF OriginFound, IvSlide
  <2> QED
    BY <1>0, <1>2, <2>1 DEF IvInv, IvSlide
<1> QED
  BY <1>3, <1>4, <1>5, <1>6, <1>7, <1>8, <1>9, <1>10, <1>11, <1>12 DEF IvNext

(***************************************************************************)
(* Thumbnails.  Only who is alone at the name, from its beginning to its   *)
(* end, writes a thumbnail that is not in doubt.  Such a thumbnail is that *)
(* of the one file there is, or the name stands for two files, or whoever  *)
(* changed that will still take it away or write it anew.  And a run of    *)
(* the job in which nobody comes has the files as they are.                *)
(***************************************************************************)
ThPic  == [pic : Nat, at : Nat, big : BOOLEAN]
ThMade == [of : Nat, at : Nat, doubt : BOOLEAN]
ThRec  == [pic : Nat, at : Nat]
ThDoes == [at : {"idle", "save", "ensure", "write", "thumb in", "thumb out", "rebuild", "delete"},
           ext : ThExt, pic : Nat, time : Nat, with : BOOLEAN, over : BOOLEAN]
ThJob  == [at : {"idle", "judge", "convert", "write"}, files : [ThExt -> ThPic \cup {ThNone}],
           old : SUBSET ThExt, todo : SUBSET ThExt, recs : [ThExt -> ThRec \cup {ThNone}],
           pic : Nat, over : BOOLEAN, quiet : BOOLEAN]
ThTypes ==
  /\ thNow \in Nat /\ thFile \in [ThExt -> ThPic \cup {ThNone}]
  /\ thThumb \in ThMade \cup {ThNone} /\ thOp \in [ThActor -> ThDoes]
  /\ thRun \in ThJob /\ thSkip \in [ThExt -> ThRec \cup {ThNone}]
  /\ \A e \in There : thFile[e].pic <= thNow
Sure == thThumb # ThNone /\ ~thThumb.doubt
Both == \A e \in ThExt : thFile[e] # ThNone
Its(a) == thFile[thOp[a].ext]
OfOneThere(pic) == \E e \in ThExt : thFile[e] # ThNone /\ thFile[e].pic = pic

ThAlone ==
  \A a \in ThActor : thOp[a].at # "idle" /\ ~thOp[a].over =>
    /\ Active = {a} /\ thRun.at = "idle"
    /\ thOp[a].at \in {"write", "thumb in"} => Its(a) # ThNone /\ Its(a).pic = thOp[a].pic
    /\ thOp[a].at = "thumb out" /\ Sure /\ There = {} => thThumb.of = thOp[a].pic
JobAlone ==
  thRun.at = "write" /\ ~thRun.over => Active = {} /\ OfOneThere(thRun.pic)
Pending ==
  \E a \in ThActor : \/ thOp[a].at \in {"write", "thumb in", "thumb out"}
                     \/ thOp[a].at = "rebuild" /\ Its(a) # ThNone
OfTheFile ==
  \E e \in ThExt : /\ thFile[e] # ThNone /\ thThumb.of = thFile[e].pic
                   /\ \A a \in ThActor : thOp[a].at = "save" => thOp[a].ext # e
ThSure ==
  /\ Sure => Both \/ Pending \/ OfTheFile
  /\ \A a \in ThActor : thOp[a].at = "delete" => ~Sure

\* What is remembered of a file is still so; what the run saw is there or something else is.
Needless(e, r) ==
  r # ThNone =>
    /\ r.pic <= thNow
    /\ thFile[e] # ThNone /\ thFile[e].pic = r.pic => ~thFile[e].big
Seen(e, f) ==
  f # ThNone =>
    /\ f.pic <= thNow
    /\ thFile[e] # ThNone /\ thFile[e].pic = f.pic => thFile[e] = f
ThSeen ==
  \A e \in ThExt : /\ Needless(e, thSkip[e]) /\ Needless(e, thRun.recs[e]) /\ Seen(e, thRun.files[e])
                   /\ e \in thRun.todo => thRun.files[e] # ThNone

\* No thumbnail for two files, and one for each file of S that needs one.
DoneFor(S) ==
  IF Both THEN S # {} => thThumb = ThNone
  ELSE \A e \in S : thFile[e] # ThNone /\ e \notin thYoung /\ thFile[e].big => thThumb # ThNone
ThQuiet ==
  thRun.at # "idle" /\ thRun.quiet =>
    /\ Active = {} /\ thRun.files = thFile /\ thRun.old = There \ thYoung
    /\ Both => thRun.at = "judge"
    /\ DoneFor(ThExt \ thRun.todo)
ThSettles == thSettled => thRun.at = "idle" /\ Active = {} /\ DoneFor(ThExt)
ThInv == /\ ThTypes /\ ThAlone /\ JobAlone /\ ThSure /\ CarriesItsOwn
         /\ ThSeen /\ ThQuiet /\ ThSettles

LEMMA HowMany ==
  ASSUME NEW S \in SUBSET ThExt
  PROVE  /\ Cardinality(S) = 2 <=> S = ThExt
         /\ Cardinality(S) = 1 => S # {} /\ S # ThExt
<1>1. Cardinality({}) = 0
  BY FS_EmptySet
<1>2. Cardinality({"jpg"}) = 1 /\ Cardinality({"png"}) = 1
  BY FS_Singleton
<1>3. Cardinality({"jpg", "png"}) = 2
  <2>1. IsFiniteSet({"jpg"}) /\ "png" \notin {"jpg"} /\ {"jpg"} \cup {"png"} = {"jpg", "png"}
    BY FS_Singleton
  <2> QED
    BY <1>2, <2>1, FS_AddElement
<1>4. S = {} \/ S = {"jpg"} \/ S = {"png"} \/ S = {"jpg", "png"}
  BY DEF ThExt
<1>5. {} # ThExt /\ {"jpg"} # ThExt /\ {"png"} # ThExt /\ {"jpg", "png"} = ThExt
  BY DEF ThExt
<1> QED
  BY <1>1, <1>2, <1>3, <1>4, <1>5

LEMMA TwoFiles == (Cardinality(There) = 2 <=> Both) /\ (Cardinality(There) = 1 => There # {} /\ ~Both)
  BY HowMany DEF There, Both

LEMMA ThSafe == ThInv => ThumbsRight
<1> SUFFICES ASSUME ThInv PROVE ThumbsRight
  OBVIOUS
<1>1. ShowsItsOwn
  <2> SUFFICES ASSUME NEW e \in There, Active = {}, Cardinality(There) = 1, thThumb # ThNone, ~thThumb.doubt
               PROVE  thThumb.of = thFile[e].pic
    BY DEF ShowsItsOwn, Served
  <2>1. ~Pending
    BY DEF Active, Pending
  <2>2. ~Both
    BY TwoFiles
  <2>3. PICK x \in ThExt : thFile[x] # ThNone /\ thThumb.of = thFile[x].pic
    BY <2>1, <2>2 DEF ThInv, ThSure, Sure, OfTheFile
  <2>4. x = e
    BY <2>2, <2>3 DEF There, Both, ThExt
  <2> QED
    BY <2>3, <2>4
<1>2. SettledByJob
  BY TwoFiles DEF ThInv, ThSettles, DoneFor, SettledByJob, There, ThExt
<1> QED
  BY <1>1, <1>2 DEF ThInv, ThumbsRight

LEMMA ThStart == ThInit => ThInv
<1> SUFFICES ASSUME ThInit PROVE ThInv
  OBVIOUS
<1>1. NoOp \in ThDoes /\ NoOp.at = "idle"
  BY DEF NoOp, ThDoes, ThExt
<1>2. NoRun \in ThJob /\ NoRun.at = "idle" /\ \A e \in ThExt : NoRun.files[e] = ThNone /\ NoRun.recs[e] = ThNone /\ e \notin NoRun.todo
  BY DEF NoRun, ThJob
<1>3. ThTypes
  BY <1>1, <1>2 DEF ThInit, ThTypes, There
<1>4. ThAlone /\ JobAlone /\ ThSure /\ ThQuiet /\ ThSettles
  BY <1>1, <1>2 DEF ThInit, ThAlone, JobAlone, ThSure, Sure, ThQuiet, ThSettles
<1>5. ThSeen /\ CarriesItsOwn
  BY <1>2 DEF ThInit, ThSeen, Needless, Seen, CarriesItsOwn
<1> QED
  BY <1>3, <1>4, <1>5 DEF ThInv

\* A file stays, goes, or is a picture that nobody has seen.
LEMMA FileChanges ==
  ASSUME ThTypes, ThSeen, thNow' \in Nat, thNow <= thNow',
         \A e \in ThExt : \/ thFile'[e] = thFile[e] \/ thFile'[e] = ThNone
                          \/ thNow < thFile'[e].pic,
         thSkip' = thSkip, thRun'.recs = thRun.recs, thRun'.files = thRun.files, thRun'.todo = thRun.todo
  PROVE  ThSeen'
<1>1. ASSUME NEW e \in ThExt, NEW r \in ThRec \cup {ThNone}, Needless(e, r) PROVE Needless(e, r)'
  BY <1>1, ThAssumption DEF Needless, ThTypes, ThRec
<1>2. ASSUME NEW e \in ThExt, NEW f \in ThPic \cup {ThNone}, Seen(e, f) PROVE Seen(e, f)'
  BY <1>2, ThAssumption DEF Seen, ThTypes, ThPic
<1>3. \A e \in ThExt : thSkip[e] \in ThRec \cup {ThNone} /\ thRun.recs[e] \in ThRec \cup {ThNone}
                       /\ thRun.files[e] \in ThPic \cup {ThNone}
  BY DEF ThTypes, ThJob
<1>4. \A e \in ThExt : Needless(e, thSkip[e]) /\ Needless(e, thRun.recs[e]) /\ Seen(e, thRun.files[e])
  BY DEF ThSeen
<1>5. \A e \in ThExt : thNow' >= thNow
  OBVIOUS
<1> QED
  BY <1>1, <1>2, <1>3, <1>4 DEF ThSeen, Needless, Seen

\* Somebody begins: the others and the job are told, and nothing is settled.
LEMMA BeginKeeps ==
  ASSUME ThInv, NEW a \in ThActor, NEW at \in {"save", "thumb in", "thumb out", "rebuild", "delete"},
         NEW e \in ThExt, NEW pic \in Nat, NEW time \in Nat, NEW with \in BOOLEAN,
         Begin(a, at, e, pic, time, with),
         Active = {} => /\ at = "thumb in" => thFile'[e] # ThNone /\ thFile'[e].pic = pic
                        /\ at = "thumb out" /\ Sure' /\ There' = {} => thThumb'.of = pic
  PROVE  /\ thOp' \in [ThActor -> ThDoes] /\ thRun' \in ThJob
         /\ ThAlone' /\ JobAlone' /\ ThQuiet' /\ ThSettles'
         /\ thOp[a].at = "idle" /\ thOp'[a].at = at /\ thOp'[a].ext = e
         /\ \A b \in ThActor \ {a} : thOp'[b].at = thOp[b].at /\ thOp'[b].ext = thOp[b].ext
         /\ thRun'.recs = thRun.recs /\ thRun'.files = thRun.files /\ thRun'.todo = thRun.todo
<1>1. PICK d : d = [at |-> at, ext |-> e, pic |-> pic, time |-> time, with |-> with,
                    over |-> Active # {} \/ thRun.at # "idle"]
  OBVIOUS
<1>2. /\ thOp[a].at = "idle" /\ thOp' = [b \in ThActor |-> IF b = a THEN d ELSE [thOp[b] EXCEPT !.over = TRUE]]
      /\ thRun' = [thRun EXCEPT !.over = TRUE, !.quiet = FALSE] /\ thSettled' = FALSE
  BY <1>1 DEF Begin
<1>3. /\ d \in ThDoes /\ d.at = at /\ d.ext = e /\ d.pic = pic
      /\ (d.over <=> (Active # {} \/ thRun.at # "idle"))
  BY <1>1 DEF ThDoes
<1>4. /\ thRun' \in ThJob /\ thRun'.over /\ ~thRun'.quiet /\ thRun'.at = thRun.at
      /\ thRun'.recs = thRun.recs /\ thRun'.files = thRun.files /\ thRun'.todo = thRun.todo
  BY <1>2 DEF ThInv, ThTypes, ThJob
<1>5. \A b \in ThActor \ {a} : /\ thOp'[b] \in ThDoes /\ thOp'[b].over
                               /\ thOp'[b].at = thOp[b].at /\ thOp'[b].ext = thOp[b].ext
  BY <1>2 DEF ThInv, ThTypes, ThDoes
<1>6. thOp'[a] = d /\ thOp' \in [ThActor -> ThDoes]
  BY <1>2, <1>3, <1>5
<1>7. ThAlone'
  <2>1. ASSUME NEW b \in ThActor, thOp'[b].at # "idle", ~thOp'[b].over
        PROVE  b = a /\ Active = {} /\ thRun.at = "idle" /\ Active' = {a}
    <3>1. b = a
      BY <1>5, <2>1
    <3>2. Active = {} /\ thRun.at = "idle"
      BY <1>3, <1>6, <2>1, <3>1
    <3>3. \A c \in ThActor : thOp[c].at = "idle"
      BY <3>2 DEF Active
    <3>4. \A c \in ThActor \ {a} : thOp'[c].at = "idle"
      BY <1>5, <3>3
    <3> QED
      BY <1>3, <1>6, <3>1, <3>2, <3>4 DEF Active
  <2> QED
    BY <1>3, <1>4, <1>6, <2>1 DEF ThAlone, Its
<1>8. JobAlone' /\ ThQuiet' /\ ThSettles'
  BY <1>2, <1>4 DEF JobAlone, ThQuiet, ThSettles
<1> QED
  BY <1>2, <1>3, <1>4, <1>5, <1>6, <1>7, <1>8

\* One who is at the name goes on: the job has been told, and nothing is settled.
LEMMA GoesKeeps ==
  ASSUME ThInv, NEW a \in ThActor, thOp[a].at # "idle", NEW d \in ThDoes,
         thOp' = [thOp EXCEPT ![a] = d], UNCHANGED <<thRun, thSettled>>,
         d.over <=> thOp[a].over, d.at # "thumb out",
         d.at \in {"write", "thumb in"} => thFile'[d.ext] # ThNone /\ thFile'[d.ext].pic = d.pic
  PROVE  /\ thOp' \in [ThActor -> ThDoes] /\ ThAlone' /\ JobAlone' /\ ThQuiet' /\ ThSettles'
         /\ thOp'[a] = d /\ \A b \in ThActor \ {a} : thOp'[b] = thOp[b]
         /\ \A b \in ThActor \ {a} : thOp[b].at # "idle" => thOp[b].over /\ thOp[a].over
<1>1. thOp' \in [ThActor -> ThDoes] /\ thOp'[a] = d /\ \A b \in ThActor \ {a} : thOp'[b] = thOp[b]
  BY DEF ThInv, ThTypes
<1>2. a \in Active
  BY DEF Active
<1>3. \A b \in ThActor \ {a} : thOp[b].at # "idle" => thOp[b].over /\ thOp[a].over
  <2>1. ASSUME NEW b \in ThActor, thOp[b].at # "idle", NEW c \in Active, c # b PROVE thOp[b].over
    <3>1. ~(Active = {b})
      BY <2>1
    <3> QED
      BY <2>1, <3>1 DEF ThInv, ThAlone
  <2> QED
    BY <1>2, <2>1 DEF Active
<1>4. JobAlone' /\ ThQuiet' /\ ThSettles'
  BY <1>2 DEF ThInv, JobAlone, ThQuiet, ThSettles
<1>5. ASSUME NEW b \in ThActor, thOp'[b].at # "idle", ~thOp'[b].over
      PROVE  b = a /\ thRun.at = "idle" /\ Active' = {a}
  <2>1. b = a
    BY <1>1, <1>3, <1>5
  <2>2. thRun.at = "idle" /\ Active = {a}
    BY <1>1, <1>5, <2>1 DEF ThInv, ThAlone
  <2>3. \A c \in ThActor \ {a} : thOp'[c].at = "idle"
    BY <1>1, <2>2 DEF Active
  <2> QED
    BY <1>5, <2>1, <2>2, <2>3 DEF Active
<1>6. ThAlone'
  BY <1>1, <1>5 DEF ThAlone, Its
<1> QED
  BY <1>1, <1>3, <1>4, <1>6

\* A thumbnail that is written anew, taken away, or left in doubt.
LEMMA WrittenIs ==
  ASSUME ThTypes, NEW pic \in Nat, NEW over \in BOOLEAN, thThumb' = Thumb(pic, over)
  PROVE  /\ thThumb' \in ThMade /\ thThumb' # ThNone /\ thThumb'.of = pic /\ thThumb'.at = thNow
         /\ thThumb'.doubt <=> over \/ Both
<1>1. PICK d : d = [of |-> pic, at |-> thNow, doubt |-> over \/ Cardinality(There) = 2]
  OBVIOUS
<1>2. d \in ThMade /\ d.of = pic /\ d.at = thNow /\ (d.doubt <=> over \/ Cardinality(There) = 2)
  BY <1>1 DEF ThMade, ThTypes
<1> QED
  BY <1>1, <1>2, TwoFiles, ThAssumption DEF Thumb, ThMade

\* One who is at the name writes the thumbnail and is done.
LEMMA WritesAndGoes ==
  ASSUME ThInv, NEW a \in ThActor, thOp[a].at \in {"write", "thumb in"}, Goes(a, "idle"),
         thThumb' = Thumb(thOp[a].pic, thOp[a].over), UNCHANGED <<thFiles, thCarried, thRest>>
  PROVE  ThInv'
<1>1. PICK d : d = [thOp[a] EXCEPT !.at = "idle"]
  OBVIOUS
<1>2. /\ d \in ThDoes /\ d.at = "idle" /\ (d.over <=> thOp[a].over) /\ thOp' = [thOp EXCEPT ![a] = d]
      /\ UNCHANGED <<thFile, thNow, thYoung, thRun, thSkip, thSettled, thCarried>>
  BY <1>1 DEF Goes, ThInv, ThTypes, ThDoes, thFiles, thRest
<1>3. /\ thOp' \in [ThActor -> ThDoes] /\ ThAlone' /\ JobAlone' /\ ThQuiet' /\ ThSettles'
      /\ thOp'[a] = d /\ \A b \in ThActor \ {a} : thOp'[b] = thOp[b]
      /\ \A b \in ThActor \ {a} : thOp[b].at # "idle" => thOp[b].over /\ thOp[a].over
  BY <1>2, GoesKeeps
<1>4. thOp[a].pic \in Nat /\ thOp[a].over \in BOOLEAN /\ thOp[a].ext \in ThExt
  BY DEF ThInv, ThTypes, ThDoes
<1>5. /\ thThumb' \in ThMade /\ thThumb' # ThNone /\ thThumb'.of = thOp[a].pic
      /\ thThumb'.doubt <=> thOp[a].over \/ Both
  BY <1>4, WrittenIs DEF ThInv
<1>6. ThTypes'
  BY <1>2, <1>3, <1>5 DEF ThInv, ThTypes, There
<1>7. ThSure'
  <2>1. CASE thOp[a].over
    BY <1>5, <2>1 DEF ThSure, Sure
  <2>2. CASE ~thOp[a].over
    <3>1. \A b \in ThActor : thOp'[b].at = "idle"
      BY <1>2, <1>3, <2>2
    <3>2. Its(a) # ThNone /\ Its(a).pic = thOp[a].pic
      BY <2>2 DEF ThInv, ThAlone
    <3>3. OfTheFile'
      BY <1>2, <1>4, <1>5, <3>1, <3>2 DEF OfTheFile, Its
    <3> QED
      BY <3>1, <3>3 DEF ThSure
  <2> QED
    BY <2>1, <2>2
<1>8. ThSeen' /\ CarriesItsOwn'
  BY <1>2 DEF ThInv, ThSeen, Needless, Seen, CarriesItsOwn
<1> QED
  BY <1>3, <1>6, <1>7, <1>8 DEF ThInv

\* One who is at the name goes on, and has no thumbnail, or leaves it as it is.
LEMMA GoesOn ==
  ASSUME ThInv, NEW a \in ThActor, thOp[a].at # "idle", NEW d \in ThDoes,
         thOp' = [thOp EXCEPT ![a] = d], d.over <=> thOp[a].over,
         d.at \in {"idle", "ensure", "write"},
         d.at = "write" => thFile'[d.ext] # ThNone /\ thFile'[d.ext].pic = d.pic,
         UNCHANGED <<thFiles, thCarried, thRest>>,
         \/ thThumb' = ThNone
         \/ /\ thThumb' = thThumb
            /\ (\/ thOp[a].at \in {"save", "ensure"}
                \/ thOp[a].at = "rebuild" /\ (Its(a) = ThNone \/ d.at = "write"))
  PROVE  ThInv'
<1>1. UNCHANGED <<thFile, thNow, thYoung, thRun, thSkip, thSettled, thCarried>>
  BY DEF thFiles, thRest
<1>2. /\ thOp' \in [ThActor -> ThDoes] /\ ThAlone' /\ JobAlone' /\ ThQuiet' /\ ThSettles'
      /\ thOp'[a] = d /\ \A b \in ThActor \ {a} : thOp'[b] = thOp[b]
  BY <1>1, GoesKeeps
<1>3. ThTypes'
  BY <1>1, <1>2 DEF ThInv, ThTypes, There
<1>4. ThSeen' /\ CarriesItsOwn'
  BY <1>1 DEF ThInv, ThSeen, Needless, Seen, CarriesItsOwn
<1>5. ThSure'
  <2>1. CASE thThumb' = ThNone
    BY <2>1 DEF ThSure, Sure
  <2>2. CASE /\ thThumb' = thThumb
             /\ \/ thOp[a].at \in {"save", "ensure"}
                \/ thOp[a].at = "rebuild" /\ (Its(a) = ThNone \/ d.at = "write")
    <3>1. (Sure' <=> Sure) /\ (Both' <=> Both)
      BY <1>1, <2>2 DEF Sure, Both
    <3>2. Pending => Pending'
      <4>1. ASSUME NEW b \in ThActor,
                   \/ thOp[b].at \in {"write", "thumb in", "thumb out"}
                   \/ thOp[b].at = "rebuild" /\ Its(b) # ThNone
            PROVE  Pending'
        <5>1. CASE b # a
          BY <1>1, <1>2, <4>1, <5>1 DEF Pending, Its
        <5>2. CASE b = a
          <6>1. d.at = "write"
            BY <2>2, <4>1, <5>2
          <6> QED
            BY <1>2, <6>1 DEF Pending
        <5> QED
          BY <5>1, <5>2
      <4> QED
        BY <4>1 DEF Pending
    <3>3. OfTheFile => OfTheFile'
      BY <1>1, <1>2, <2>2 DEF OfTheFile
    <3>4. \A b \in ThActor : thOp'[b].at = "delete" => thOp[b].at = "delete"
      BY <1>2
    <3> QED
      BY <3>1, <3>2, <3>3, <3>4 DEF ThInv, ThSure
  <2> QED
    BY <2>1, <2>2
<1> QED
  BY <1>2, <1>3, <1>4, <1>5 DEF ThInv

LEMMA NowIs == ThInv => thNow \in Nat /\ (New => thNow' = thNow + 1 /\ thNow' \in Nat)
  BY DEF New, ThInv, ThTypes

LEMMA PictureComes ==
  ASSUME ThInv, NEW e \in ThExt, NEW f \in ThPic, New, f.pic = thNow', thFile' = [thFile EXCEPT ![e] = f]
  PROVE  /\ thNow' \in Nat /\ thNow < thNow' /\ thFile' \in [ThExt -> ThPic \cup {ThNone}]
         /\ \A x \in There' : thFile'[x].pic <= thNow'
         /\ thFile'[e] = f /\ f # ThNone /\ \A x \in ThExt \ {e} : thFile'[x] = thFile[x]
<1>1. thNow \in Nat /\ thNow' = thNow + 1 /\ thNow' \in Nat
  BY DEF New, ThInv, ThTypes
<1>2. thFile' \in [ThExt -> ThPic \cup {ThNone}] /\ thFile'[e] = f /\ \A x \in ThExt \ {e} : thFile'[x] = thFile[x]
  BY DEF ThInv, ThTypes
<1>3. \A x \in ThExt : thFile[x] # ThNone => thFile[x].pic \in Nat /\ thFile[x].pic <= thNow
  BY DEF ThInv, ThTypes, There, ThPic
<1>4. \A x \in There' : thFile'[x].pic <= thNow'
  BY <1>1, <1>2, <1>3 DEF There
<1>5. f # ThNone
  BY ThAssumption DEF ThPic
<1> QED
  BY <1>1, <1>2, <1>4, <1>5

LEMMA PictureGoes ==
  ASSUME ThInv, NEW e \in ThExt, thNow' = thNow, thFile' = [thFile EXCEPT ![e] = ThNone]
  PROVE  /\ thFile' \in [ThExt -> ThPic \cup {ThNone}] /\ \A x \in There' : thFile'[x].pic <= thNow'
         /\ thFile'[e] = ThNone /\ \A x \in ThExt \ {e} : thFile'[x] = thFile[x]
  BY DEF ThInv, ThTypes, There

LEMMA CollectOpenKeeps == ASSUME ThInv, NEW a \in ThActor, NEW e \in ThExt, CollectOpen(a, e) PROVE ThInv'
<1>1. PICK f : f = [pic |-> thNow', at |-> thNow', big |-> FALSE]
  OBVIOUS
<1>2. /\ thFile[e] = ThNone /\ New /\ Begin(a, "save", e, thNow', thNow', FALSE) /\ thFile' = [thFile EXCEPT ![e] = f]
      /\ UNCHANGED <<thThumb, thSkip, thCarried>>
  BY <1>1 DEF CollectOpen
<1>3. f \in ThPic /\ f.pic = thNow' /\ thNow' \in Nat
  <2>1. thNow' \in Nat
    BY <1>2, NowIs
  <2> QED
    BY <1>1, <2>1 DEF ThPic
<1>4. /\ thNow' \in Nat /\ thNow < thNow' /\ thFile' \in [ThExt -> ThPic \cup {ThNone}]
      /\ \A x \in There' : thFile'[x].pic <= thNow'
      /\ thFile'[e] = f /\ f # ThNone /\ \A x \in ThExt \ {e} : thFile'[x] = thFile[x]
  BY <1>2, <1>3, PictureComes
<1>5. /\ thOp' \in [ThActor -> ThDoes] /\ thRun' \in ThJob
      /\ ThAlone' /\ JobAlone' /\ ThQuiet' /\ ThSettles'
      /\ thOp[a].at = "idle" /\ thOp'[a].at = "save" /\ thOp'[a].ext = e
      /\ \A b \in ThActor \ {a} : thOp'[b].at = thOp[b].at /\ thOp'[b].ext = thOp[b].ext
      /\ thRun'.recs = thRun.recs /\ thRun'.files = thRun.files /\ thRun'.todo = thRun.todo
  BY <1>2, <1>4, BeginKeeps, ZenonT(40)
<1>6. ThTypes'
  BY <1>2, <1>4, <1>5 DEF ThInv, ThTypes
<1>7. ThSeen'
  <2>1. \A x \in ThExt : thFile'[x] = thFile[x] \/ thFile'[x] = ThNone \/ thNow < thFile'[x].pic
    BY <1>3, <1>4
  <2>2. thNow <= thNow'
    BY <1>4 DEF ThInv, ThTypes
  <2> QED
    BY <1>2, <1>4, <1>5, <2>1, <2>2, FileChanges DEF ThInv
<1>8. ThSure'
  <2>1. \A b \in ThActor : thOp'[b].at = "delete" => thOp[b].at = "delete"
    BY <1>5
  <2>2. Sure' <=> Sure
    BY <1>2 DEF Sure
  <2>3. ASSUME Pending PROVE Pending'
    <3>1. PICK b \in ThActor : thOp[b].at \in {"write", "thumb in", "thumb out"}
                              \/ (thOp[b].at = "rebuild" /\ Its(b) # ThNone)
      BY <2>3 DEF Pending
    <3>2. b # a /\ thOp[b].ext \in ThExt
      BY <1>5, <3>1 DEF ThInv, ThTypes, ThDoes
    <3> QED
      BY <1>4, <1>5, <3>1, <3>2 DEF Pending, Its
  <2>4. OfTheFile => Both'
    BY <1>2, <1>4 DEF OfTheFile, Both, ThExt
  <2> QED
    BY <1>2, <2>1, <2>2, <2>3, <2>4 DEF ThInv, ThSure, Both
<1> QED
  BY <1>2, <1>5, <1>6, <1>7, <1>8 DEF ThInv, CarriesItsOwn

LEMMA MoveInKeeps ==
  ASSUME ThInv, NEW a \in ThActor, NEW e \in ThExt, NEW big \in BOOLEAN, NEW with \in BOOLEAN, MoveIn(a, e, big, with)
  PROVE  ThInv'
<1>1. PICK f : f = [pic |-> thNow', at |-> 0, big |-> big]
  OBVIOUS
<1>2. /\ New /\ Begin(a, "thumb in", e, thNow', 0, with) /\ thFile' = [thFile EXCEPT ![e] = f]
      /\ UNCHANGED <<thThumb, thSkip, thCarried>>
  BY <1>1 DEF MoveIn
<1>3. f \in ThPic /\ f.pic = thNow' /\ thNow' \in Nat
  <2>1. thNow' \in Nat
    BY <1>2, NowIs
  <2> QED
    BY <1>1, <2>1 DEF ThPic
<1>4. /\ thNow' \in Nat /\ thNow < thNow' /\ thFile' \in [ThExt -> ThPic \cup {ThNone}]
      /\ \A x \in There' : thFile'[x].pic <= thNow'
      /\ thFile'[e] = f /\ f # ThNone /\ \A x \in ThExt \ {e} : thFile'[x] = thFile[x]
  BY <1>2, <1>3, PictureComes
<1>5. /\ thOp' \in [ThActor -> ThDoes] /\ thRun' \in ThJob
      /\ ThAlone' /\ JobAlone' /\ ThQuiet' /\ ThSettles'
      /\ thOp'[a].at = "thumb in" /\ \A b \in ThActor \ {a} : thOp'[b].at = thOp[b].at
      /\ thRun'.recs = thRun.recs /\ thRun'.files = thRun.files /\ thRun'.todo = thRun.todo
  <2>1. /\ 0 \in Nat /\ "thumb in" \in {"save", "thumb in", "thumb out", "rebuild", "delete"}
        /\ "thumb in" # "thumb out" /\ thFile'[e] # ThNone /\ thFile'[e].pic = thNow' /\ thNow' \in Nat
    BY <1>3, <1>4
  <2>2. CASE with = TRUE
    <3>1. Begin(a, "thumb in", e, thNow', 0, TRUE)
      BY <1>2, <2>2
    <3> QED
      BY <2>1, <3>1, BeginKeeps, ZenonT(40)
  <2>3. CASE with = FALSE
    <3>1. Begin(a, "thumb in", e, thNow', 0, FALSE)
      BY <1>2, <2>3
    <3> QED
      BY <2>1, <3>1, BeginKeeps, ZenonT(40)
  <2> QED
    BY <2>2, <2>3
<1>6. ThTypes'
  BY <1>2, <1>4, <1>5 DEF ThInv, ThTypes
<1>7. ThSeen'
  <2>1. \A x \in ThExt : thFile'[x] = thFile[x] \/ thFile'[x] = ThNone \/ thNow < thFile'[x].pic
    BY <1>3, <1>4
  <2>2. thNow <= thNow'
    BY <1>4 DEF ThInv, ThTypes
  <2> QED
    BY <1>2, <1>4, <1>5, <2>1, <2>2, FileChanges DEF ThInv
<1>8. ThSure'
  BY <1>2, <1>5 DEF ThInv, ThSure, Sure, Pending
<1> QED
  BY <1>2, <1>5, <1>6, <1>7, <1>8 DEF ThInv, CarriesItsOwn

LEMMA EditKeeps ==
  ASSUME ThInv, NEW a \in ThActor, NEW e \in ThExt, NEW big \in BOOLEAN, Edit(a, e, big) PROVE ThInv'
<1>1. PICK f : f = [thFile[e] EXCEPT !.pic = thNow', !.big = big]
  OBVIOUS
<1>2. /\ thFile[e] # ThNone /\ New /\ Begin(a, "rebuild", e, thNow', thFile[e].at, FALSE)
      /\ thFile' = [thFile EXCEPT ![e] = f] /\ UNCHANGED <<thThumb, thSkip, thCarried>>
  BY <1>1 DEF Edit
<1>3. f \in ThPic /\ f.pic = thNow' /\ thFile[e].at \in Nat /\ thNow' \in Nat
  <2>1. thNow' \in Nat /\ thFile[e] \in ThPic
    BY <1>2 DEF New, ThInv, ThTypes
  <2> QED
    BY <1>1, <2>1 DEF ThPic
<1>4. /\ thNow' \in Nat /\ thNow < thNow' /\ thFile' \in [ThExt -> ThPic \cup {ThNone}]
      /\ \A x \in There' : thFile'[x].pic <= thNow'
      /\ thFile'[e] = f /\ f # ThNone /\ \A x \in ThExt \ {e} : thFile'[x] = thFile[x]
  BY <1>2, <1>3, PictureComes
<1>5. /\ thOp' \in [ThActor -> ThDoes] /\ thRun' \in ThJob
      /\ ThAlone' /\ JobAlone' /\ ThQuiet' /\ ThSettles'
      /\ thOp'[a].at = "rebuild" /\ thOp'[a].ext = e /\ \A b \in ThActor \ {a} : thOp'[b].at = thOp[b].at
      /\ thRun'.recs = thRun.recs /\ thRun'.files = thRun.files /\ thRun'.todo = thRun.todo
  BY <1>2, <1>3, BeginKeeps, ZenonT(40)
<1>6. ThTypes'
  BY <1>2, <1>4, <1>5 DEF ThInv, ThTypes
<1>7. ThSeen'
  <2>1. \A x \in ThExt : thFile'[x] = thFile[x] \/ thFile'[x] = ThNone \/ thNow < thFile'[x].pic
    BY <1>3, <1>4
  <2>2. thNow <= thNow'
    BY <1>4 DEF ThInv, ThTypes
  <2> QED
    BY <1>2, <1>4, <1>5, <2>1, <2>2, FileChanges DEF ThInv
<1>8. ThSure'
  BY <1>2, <1>4, <1>5 DEF ThInv, ThSure, Sure, Pending, Its
<1> QED
  BY <1>2, <1>5, <1>6, <1>7, <1>8 DEF ThInv, CarriesItsOwn

LEMMA MoveOutKeeps == ASSUME ThInv, NEW a \in ThActor, NEW e \in ThExt, MoveOut(a, e) PROVE ThInv'
<1>1. /\ thFile[e] # ThNone /\ Begin(a, "thumb out", e, thFile[e].pic, thFile[e].at, FALSE)
      /\ thFile' = [thFile EXCEPT ![e] = ThNone] /\ UNCHANGED <<thThumb, thSkip, thCarried, thNow>>
  BY DEF MoveOut
<1>2. thFile[e].pic \in Nat /\ thFile[e].at \in Nat
  BY <1>1 DEF ThInv, ThTypes, ThPic
<1>3. /\ thFile' \in [ThExt -> ThPic \cup {ThNone}] /\ \A x \in There' : thFile'[x].pic <= thNow'
      /\ thFile'[e] = ThNone /\ \A x \in ThExt \ {e} : thFile'[x] = thFile[x]
  BY <1>1, PictureGoes
<1>4. Active = {} /\ Sure' /\ There' = {} => thThumb'.of = thFile[e].pic
  <2> SUFFICES ASSUME Active = {}, Sure', There' = {} PROVE thThumb.of = thFile[e].pic
    BY <1>1
  <2>1. ~Pending
    BY DEF Active, Pending
  <2>2. \A x \in ThExt \ {e} : thFile[x] = ThNone
    BY <1>3 DEF There
  <2>3. ~Both
    BY <2>2 DEF Both, ThExt
  <2>4. OfTheFile
    BY <1>1, <2>1, <2>3 DEF ThInv, ThSure, Sure
  <2> QED
    BY <2>2, <2>4 DEF OfTheFile
<1>5. /\ thOp' \in [ThActor -> ThDoes] /\ thRun' \in ThJob
      /\ ThAlone' /\ JobAlone' /\ ThQuiet' /\ ThSettles'
      /\ thOp'[a].at = "thumb out" /\ \A b \in ThActor \ {a} : thOp'[b].at = thOp[b].at
      /\ thRun'.recs = thRun.recs /\ thRun'.files = thRun.files /\ thRun'.todo = thRun.todo
  BY <1>1, <1>2, <1>4, BeginKeeps, ZenonT(40)
<1>6. ThTypes'
  BY <1>1, <1>3, <1>5 DEF ThInv, ThTypes
<1>7. ThSeen'
  <2>1. \A x \in ThExt : thFile'[x] = thFile[x] \/ thFile'[x] = ThNone \/ thNow < thFile'[x].pic
    BY <1>3
  <2>2. thNow \in Nat /\ thNow' \in Nat /\ thNow <= thNow'
    <3>1. thNow' = thNow
      BY <1>1
    <3> QED
      BY <3>1, NowIs
  <2> QED
    BY <1>1, <1>5, <2>1, <2>2, FileChanges DEF ThInv
<1>8. ThSure'
  BY <1>1, <1>5 DEF ThInv, ThSure, Sure, Pending
<1> QED
  BY <1>1, <1>5, <1>6, <1>7, <1>8 DEF ThInv, CarriesItsOwn

LEMMA DeleteThumbKeeps == ASSUME ThInv, NEW a \in ThActor, NEW e \in ThExt, DeleteThumb(a, e) PROVE ThInv'
<1>1. /\ thFile[e] # ThNone /\ Begin(a, "delete", e, thFile[e].pic, thFile[e].at, FALSE) /\ thThumb' = ThNone
      /\ UNCHANGED <<thFile, thNow, thSkip, thCarried>>
  BY DEF DeleteThumb, thFiles
<1>2. thFile[e].pic \in Nat /\ thFile[e].at \in Nat
  BY <1>1 DEF ThInv, ThTypes, ThPic
<1>3. /\ thOp' \in [ThActor -> ThDoes] /\ thRun' \in ThJob
      /\ ThAlone' /\ JobAlone' /\ ThQuiet' /\ ThSettles'
      /\ thRun'.recs = thRun.recs /\ thRun'.files = thRun.files /\ thRun'.todo = thRun.todo
  BY <1>1, <1>2, BeginKeeps, ZenonT(40)
<1>4. ThTypes'
  BY <1>1, <1>3 DEF ThInv, ThTypes, There
<1>5. ThSeen'
  BY <1>1, <1>3, FileChanges DEF ThInv, ThTypes
<1>6. ThSure'
  BY <1>1 DEF ThSure, Sure
<1> QED
  BY <1>1, <1>3, <1>4, <1>5, <1>6 DEF ThInv, CarriesItsOwn

\* Where the actor goes, as a record.
LEMMA GoesTo ==
  ASSUME ThInv, NEW a \in ThActor, NEW at \in {"idle", "ensure"}, Goes(a, at)
  PROVE  \E d \in ThDoes : /\ thOp' = [thOp EXCEPT ![a] = d] /\ d.at = at /\ d.ext = thOp[a].ext
                           /\ d.pic = thOp[a].pic /\ (d.over <=> thOp[a].over)
<1>1. PICK d : d = [thOp[a] EXCEPT !.at = at]
  OBVIOUS
<1>2. thOp[a] \in ThDoes
  BY DEF ThInv, ThTypes
<1>3. d \in ThDoes /\ d.at = at /\ d.ext = thOp[a].ext /\ d.pic = thOp[a].pic /\ (d.over <=> thOp[a].over)
  BY <1>1, <1>2 DEF ThDoes
<1>4. thOp' = [thOp EXCEPT ![a] = d]
  BY <1>1 DEF Goes
<1> QED
  BY <1>3, <1>4

LEMMA HoldsIt ==
  ASSUME ThInv, NEW a \in ThActor, NEW pic \in Nat, Holds(a, pic)
  PROVE  \E d \in ThDoes : /\ thOp' = [thOp EXCEPT ![a] = d] /\ d.at = "write" /\ d.ext = thOp[a].ext
                           /\ d.pic = pic /\ (d.over <=> thOp[a].over)
<1>1. PICK d : d = [thOp[a] EXCEPT !.at = "write", !.pic = pic]
  OBVIOUS
<1>2. thOp[a] \in ThDoes
  BY DEF ThInv, ThTypes
<1>3. d \in ThDoes /\ d.at = "write" /\ d.ext = thOp[a].ext /\ d.pic = pic /\ (d.over <=> thOp[a].over)
  BY <1>1, <1>2 DEF ThDoes
<1>4. thOp' = [thOp EXCEPT ![a] = d]
  BY <1>1, <1>2 DEF Holds
<1> QED
  BY <1>3, <1>4

LEMMA CollectDoneKeeps ==
  ASSUME ThInv, NEW a \in ThActor, NEW big \in BOOLEAN, CollectDone(a, big) PROVE ThInv'
<1>1. PICK e, f : e = thOp[a].ext /\ f = [pic |-> thNow', at |-> thNow', big |-> big]
  OBVIOUS
<1>2. /\ thOp[a].at = "save" /\ thFile[e] # ThNone /\ New /\ Goes(a, "ensure") /\ thFile' = [thFile EXCEPT ![e] = f]
      /\ UNCHANGED <<thThumb, thCarried, thRun, thSkip, thSettled>>
  BY <1>1 DEF CollectDone, thRest
<1>3. thNow' \in Nat /\ e \in ThExt
  BY <1>1, <1>2, NowIs DEF ThInv, ThTypes, ThDoes
<1>4. f \in ThPic /\ f.pic = thNow'
  BY <1>1, <1>3 DEF ThPic
<1>5. /\ thNow' \in Nat /\ thNow < thNow' /\ thFile' \in [ThExt -> ThPic \cup {ThNone}]
      /\ \A x \in There' : thFile'[x].pic <= thNow'
      /\ thFile'[e] = f /\ f # ThNone /\ \A x \in ThExt \ {e} : thFile'[x] = thFile[x]
  BY <1>2, <1>3, <1>4, PictureComes
<1>6. PICK d \in ThDoes : /\ thOp' = [thOp EXCEPT ![a] = d] /\ d.at = "ensure" /\ d.ext = e
                          /\ (d.over <=> thOp[a].over)
  BY <1>1, <1>2, GoesTo
<1>7. /\ thOp' \in [ThActor -> ThDoes] /\ ThAlone' /\ JobAlone' /\ ThQuiet' /\ ThSettles'
      /\ thOp'[a] = d /\ \A b \in ThActor \ {a} : thOp'[b] = thOp[b]
  BY <1>2, <1>6, GoesKeeps
<1>8. ThTypes'
  BY <1>2, <1>5, <1>7 DEF ThInv, ThTypes
<1>9. ThSeen'
  <2>1. \A x \in ThExt : thFile'[x] = thFile[x] \/ thFile'[x] = ThNone \/ thNow < thFile'[x].pic
    BY <1>4, <1>5
  <2>2. thNow <= thNow'
    BY <1>5, NowIs
  <2>3. thRun'.recs = thRun.recs /\ thRun'.files = thRun.files /\ thRun'.todo = thRun.todo /\ thSkip' = thSkip
    BY <1>2
  <2> QED
    BY <1>5, <2>1, <2>2, <2>3, FileChanges DEF ThInv
<1>10. ThSure'
  <2>1. \A b \in ThActor : thOp'[b].at = "delete" => thOp[b].at = "delete"
    BY <1>6, <1>7
  <2>2. Sure' <=> Sure
    BY <1>2 DEF Sure
  <2>3. ASSUME Pending PROVE Pending'
    <3>1. PICK b \in ThActor : thOp[b].at \in {"write", "thumb in", "thumb out"}
                               \/ (thOp[b].at = "rebuild" /\ Its(b) # ThNone)
      BY <2>3 DEF Pending
    <3>2. b # a /\ thOp[b].ext \in ThExt
      BY <1>2, <3>1 DEF ThInv, ThTypes, ThDoes
    <3> QED
      BY <1>5, <1>7, <3>1, <3>2 DEF Pending, Its
  <2>4. ASSUME OfTheFile PROVE OfTheFile'
    <3>1. PICK x \in ThExt : /\ thFile[x] # ThNone /\ thThumb.of = thFile[x].pic
                             /\ \A b \in ThActor : thOp[b].at = "save" => thOp[b].ext # x
      BY <2>4 DEF OfTheFile
    <3>2. x # e
      BY <1>1, <1>2, <3>1
    <3> QED
      BY <1>2, <1>5, <1>6, <1>7, <3>1, <3>2 DEF OfTheFile
  <2>5. Both => Both'
    BY <1>5 DEF Both
  <2> QED
    BY <2>1, <2>2, <2>3, <2>4, <2>5 DEF ThInv, ThSure
<1> QED
  BY <1>2, <1>7, <1>8, <1>9, <1>10 DEF ThInv, CarriesItsOwn

LEMMA EnsureThumbKeeps == ASSUME ThInv, NEW a \in ThActor, EnsureThumb(a) PROVE ThInv'
<1>1. PICK f : f = thFile[thOp[a].ext]
  OBVIOUS
<1>2. /\ thOp[a].at \in {"save", "ensure"} /\ thThumb' = thThumb
      /\ IF f = ThNone \/ ~f.big \/ Fresh(f.at) THEN Goes(a, "idle") ELSE Holds(a, f.pic)
      /\ UNCHANGED <<thFiles, thCarried, thRest>>
  BY <1>1 DEF EnsureThumb
<1>3. CASE Goes(a, "idle")
  <2>1. PICK d \in ThDoes : thOp' = [thOp EXCEPT ![a] = d] /\ d.at = "idle" /\ (d.over <=> thOp[a].over)
    BY <1>3, GoesTo
  <2> QED
    BY <1>2, <2>1, GoesOn
<1>4. CASE f # ThNone /\ Holds(a, f.pic)
  <2>1. thOp[a].ext \in ThExt
    BY DEF ThInv, ThTypes, ThDoes
  <2>2. f.pic \in Nat
    BY <1>1, <1>4, <2>1 DEF ThInv, ThTypes, ThPic
  <2>3. PICK d \in ThDoes : /\ thOp' = [thOp EXCEPT ![a] = d] /\ d.at = "write" /\ d.ext = thOp[a].ext
                            /\ d.pic = f.pic /\ (d.over <=> thOp[a].over)
    BY <1>4, <2>2, HoldsIt
  <2>4. thFile'[d.ext] # ThNone /\ thFile'[d.ext].pic = d.pic
    BY <1>1, <1>2, <1>4, <2>3 DEF thFiles
  <2> QED
    BY <1>2, <2>3, <2>4, GoesOn
<1> QED
  BY <1>2, <1>3, <1>4

LEMMA ThumbInKeeps == ASSUME ThInv, NEW a \in ThActor, ThumbIn(a) PROVE ThInv'
<1>1. CASE thOp[a].with
  BY <1>1, WritesAndGoes DEF ThumbIn
<1>2. CASE ~thOp[a].with
  <2>1. /\ thOp[a].at = "thumb in" /\ Goes(a, "ensure") /\ thThumb' = ThNone
        /\ UNCHANGED <<thFiles, thCarried, thRest>>
    BY <1>2 DEF ThumbIn, LeftThumb
  <2>2. PICK d \in ThDoes : thOp' = [thOp EXCEPT ![a] = d] /\ d.at = "ensure" /\ (d.over <=> thOp[a].over)
    BY <2>1, GoesTo
  <2> QED
    BY <2>1, <2>2, GoesOn
<1> QED
  BY <1>1, <1>2

LEMMA ThumbOutKeeps == ASSUME ThInv, NEW a \in ThActor, ThumbOut(a) PROVE ThInv'
<1>1. PICK c : c = [pic |-> thOp[a].pic, of |-> thThumb.of, doubt |-> thThumb.doubt \/ thOp[a].over \/ There # {}]
  OBVIOUS
<1>2. /\ thOp[a].at = "thumb out" /\ Goes(a, "idle") /\ thThumb' = ThNone
      /\ thCarried' = IF ~Fresh(thOp[a].time) THEN thCarried ELSE thCarried \cup {c}
      /\ UNCHANGED <<thFile, thYoung, thNow, thRun, thSkip, thSettled>>
  BY <1>1 DEF ThumbOut, thFiles, thRest
<1>3. Fresh(thOp[a].time) => c.doubt \/ c.of = c.pic
  <2>1. CASE thThumb.doubt \/ thOp[a].over \/ There # {}
    BY <1>1, <2>1
  <2>2. CASE ~thThumb.doubt /\ ~thOp[a].over /\ There = {}
    <3>1. Fresh(thOp[a].time) => Sure
      BY <2>2 DEF Fresh, Sure
    <3>2. Sure => thThumb.of = thOp[a].pic
      BY <1>2, <2>2 DEF ThInv, ThAlone
    <3> QED
      BY <1>1, <3>1, <3>2
  <2> QED
    BY <2>1, <2>2
<1>4. CarriesItsOwn'
  BY <1>2, <1>3 DEF ThInv, CarriesItsOwn
<1>5. PICK d \in ThDoes : thOp' = [thOp EXCEPT ![a] = d] /\ d.at = "idle" /\ (d.over <=> thOp[a].over)
  BY <1>2, GoesTo
<1>6. thOp' \in [ThActor -> ThDoes] /\ ThAlone' /\ JobAlone' /\ ThQuiet' /\ ThSettles'
  BY <1>2, <1>5, GoesKeeps
<1>7. ThTypes' /\ ThSeen' /\ ThSure'
  BY <1>2, <1>6 DEF ThInv, ThTypes, There, ThSeen, Needless, Seen, ThSure, Sure
<1> QED
  BY <1>4, <1>6, <1>7 DEF ThInv

LEMMA RebuildThumbKeeps == ASSUME ThInv, NEW a \in ThActor, RebuildThumb(a) PROVE ThInv'
<1>1. PICK f : f = thFile[thOp[a].ext]
  OBVIOUS
<1>2. /\ thOp[a].at = "rebuild" /\ IF f # ThNone /\ f.big THEN Holds(a, f.pic) ELSE Goes(a, "idle")
      /\ thThumb' = IF f # ThNone /\ ~f.big THEN ThNone ELSE thThumb
      /\ UNCHANGED <<thFiles, thCarried, thRest>>
  BY <1>1 DEF RebuildThumb, Outdated
<1>3. CASE f # ThNone /\ f.big
  <2>1. thOp[a].ext \in ThExt
    BY DEF ThInv, ThTypes, ThDoes
  <2>2. f.pic \in Nat
    BY <1>1, <1>3, <2>1 DEF ThInv, ThTypes, ThPic
  <2>3. PICK d \in ThDoes : /\ thOp' = [thOp EXCEPT ![a] = d] /\ d.at = "write" /\ d.ext = thOp[a].ext
                            /\ d.pic = f.pic /\ (d.over <=> thOp[a].over)
    BY <1>2, <1>3, <2>2, HoldsIt
  <2>4. thFile'[d.ext] # ThNone /\ thFile'[d.ext].pic = d.pic /\ thThumb' = thThumb
    BY <1>1, <1>2, <1>3, <2>3 DEF thFiles
  <2> QED
    BY <1>2, <2>3, <2>4, GoesOn
<1>4. CASE ~(f # ThNone /\ f.big)
  <2>1. PICK d \in ThDoes : thOp' = [thOp EXCEPT ![a] = d] /\ d.at = "idle" /\ (d.over <=> thOp[a].over)
    BY <1>2, <1>4, GoesTo
  <2>2. thThumb' = ThNone \/ (thThumb' = thThumb /\ Its(a) = ThNone)
    BY <1>1, <1>2, <1>4 DEF Its
  <2> QED
    BY <1>2, <2>1, <2>2, GoesOn
<1> QED
  BY <1>3, <1>4

LEMMA DeleteFileKeeps == ASSUME ThInv, NEW a \in ThActor, DeleteFile(a) PROVE ThInv'
<1>1. PICK e : e = thOp[a].ext
  OBVIOUS
<1>2. /\ thOp[a].at = "delete" /\ Goes(a, "idle") /\ thFile' = [thFile EXCEPT ![e] = ThNone]
      /\ UNCHANGED <<thThumb, thCarried, thNow, thRun, thSkip, thSettled>>
  BY <1>1 DEF DeleteFile, thRest
<1>3. e \in ThExt
  BY <1>1 DEF ThInv, ThTypes, ThDoes
<1>4. /\ thFile' \in [ThExt -> ThPic \cup {ThNone}] /\ \A x \in There' : thFile'[x].pic <= thNow'
      /\ thFile'[e] = ThNone /\ \A x \in ThExt \ {e} : thFile'[x] = thFile[x]
  BY <1>2, <1>3, PictureGoes
<1>5. PICK d \in ThDoes : thOp' = [thOp EXCEPT ![a] = d] /\ d.at = "idle" /\ (d.over <=> thOp[a].over)
  BY <1>2, GoesTo
<1>6. thOp' \in [ThActor -> ThDoes] /\ ThAlone' /\ JobAlone' /\ ThQuiet' /\ ThSettles'
  BY <1>2, <1>5, GoesKeeps
<1>7. ThTypes'
  BY <1>2, <1>4, <1>6 DEF ThInv, ThTypes
<1>8. ThSure'
  BY <1>2 DEF ThInv, ThSure, Sure
<1>9. ThSeen'
  <2>1. \A x \in ThExt : thFile'[x] = thFile[x] \/ thFile'[x] = ThNone \/ thNow < thFile'[x].pic
    BY <1>4
  <2>2. thNow \in Nat /\ thNow' = thNow
    BY <1>2, NowIs
  <2>3. thRun'.recs = thRun.recs /\ thRun'.files = thRun.files /\ thRun'.todo = thRun.todo /\ thSkip' = thSkip
    BY <1>2
  <2>4. thNow' \in Nat /\ thNow <= thNow'
    BY <2>2
  <2> QED
    BY <2>1, <2>3, <2>4, FileChanges DEF ThInv
<1> QED
  BY <1>2, <1>6, <1>7, <1>8, <1>9 DEF ThInv, CarriesItsOwn

LEMMA ActorDiesKeeps == ASSUME ThInv, NEW a \in ThActor, ActorDies(a) PROVE ThInv'
<1>1. PICK t : t = [thThumb EXCEPT !.doubt = TRUE]
  OBVIOUS
<1>2. /\ thOp[a].at # "idle" /\ thThumb' = IF thThumb # ThNone THEN t ELSE ThNone
      /\ thOp' = [thOp EXCEPT ![a] = NoOp]
      /\ UNCHANGED <<thFile, thYoung, thNow, thRun, thSkip, thCarried, thSettled>>
  BY <1>1 DEF ActorDies, thFiles
<1>3. thThumb # ThNone => t \in ThMade /\ t.doubt
  BY <1>1 DEF ThInv, ThTypes, ThMade
<1>4. ~Sure' /\ thThumb' \in ThMade \cup {ThNone}
  BY <1>2, <1>3 DEF Sure
<1>5. PICK n : n = NoOp
  OBVIOUS
<1>6. n \in ThDoes /\ n.at = "idle"
  BY <1>5 DEF NoOp, ThDoes, ThExt
<1>7. thOp' \in [ThActor -> ThDoes] /\ thOp'[a] = n /\ \A b \in ThActor \ {a} : thOp'[b] = thOp[b]
  BY <1>2, <1>5, <1>6 DEF ThInv, ThTypes
<1>8. a \in Active
  BY <1>2 DEF Active
<1>9. ThAlone'
  <2>1. ASSUME NEW b \in ThActor, thOp'[b].at # "idle", ~thOp'[b].over PROVE FALSE
    <3>1. b # a /\ thOp'[b] = thOp[b]
      BY <1>6, <1>7, <2>1
    <3>2. Active = {b}
      BY <2>1, <3>1 DEF ThInv, ThAlone
    <3> QED
      BY <1>8, <3>1, <3>2
  <2> QED
    BY <2>1 DEF ThAlone
<1>10. JobAlone' /\ ThQuiet' /\ ThSettles'
  BY <1>2, <1>8 DEF ThInv, JobAlone, ThQuiet, ThSettles
<1>11. ThTypes' /\ ThSeen' /\ ThSure' /\ CarriesItsOwn'
  BY <1>2, <1>4, <1>7 DEF ThInv, ThTypes, There, ThSeen, Needless, Seen, ThSure, CarriesItsOwn
<1> QED
  BY <1>9, <1>10, <1>11 DEF ThInv

\* Nobody begins or ends.
LEMMA SureStays ==
  ASSUME ThInv, UNCHANGED <<thFile, thThumb>>,
         \A a \in ThActor : thOp'[a].at = thOp[a].at /\ thOp'[a].ext = thOp[a].ext
  PROVE  ThSure'
<1>1. Sure' <=> Sure
  BY DEF Sure
<1>2. Both' <=> Both
  BY DEF Both
<1>3. Pending => Pending'
  BY DEF Pending, Its
<1>4. OfTheFile => OfTheFile'
  BY DEF OfTheFile
<1> QED
  BY <1>1, <1>2, <1>3, <1>4 DEF ThInv, ThSure

\* The job goes on, while nobody is alone at the name.
LEMMA JobGoesOn ==
  ASSUME ThInv, thRun.at # "idle", thRun' \in ThJob, UNCHANGED <<thFiles, thOp, thCarried>>,
         thThumb' \in ThMade \cup {ThNone}, thSkip' \in [ThExt -> ThRec \cup {ThNone}],
         thThumb' = thThumb \/ thThumb' = ThNone
  PROVE  /\ ThTypes' /\ ThAlone' /\ ThSure' /\ CarriesItsOwn' /\ Active' = Active
         /\ thFile' = thFile /\ thNow' = thNow /\ thYoung' = thYoung
<1>1. thFile' = thFile /\ thNow' = thNow /\ thYoung' = thYoung /\ thOp' = thOp /\ thCarried' = thCarried
  BY DEF thFiles
<1>2. \A a \in ThActor : thOp[a].at # "idle" => thOp[a].over
  BY DEF ThInv, ThAlone
<1>3. ThTypes' /\ ThAlone' /\ CarriesItsOwn' /\ Active' = Active
  BY <1>1, <1>2 DEF ThInv, ThTypes, There, ThAlone, CarriesItsOwn, Active
<1>4. ThSure'
  <2>1. CASE thThumb' = thThumb
    BY <1>1, <2>1, SureStays
  <2>2. CASE thThumb' = ThNone
    BY <2>2 DEF ThSure, Sure
  <2> QED
    BY <2>1, <2>2
<1> QED
  BY <1>1, <1>3, <1>4

LEMMA ScanKeeps == ASSUME ThInv, Scan PROVE ThInv'
<1>1. PICK n : n = [NoRun EXCEPT !.at = "judge", !.files = thFile, !.old = There \ thYoung,
                       !.todo = There, !.quiet = Active = {},
                       !.recs = [e \in ThExt |-> IF e \in There THEN thSkip[e] ELSE ThNone]]
  OBVIOUS
<1>2. /\ thRun.at = "idle" /\ thRun' = n /\ ~thSettled'
      /\ thOp' = [a \in ThActor |-> IF a \in Active THEN [thOp[a] EXCEPT !.over = TRUE] ELSE thOp[a]]
      /\ UNCHANGED <<thFile, thYoung, thNow, thThumb, thSkip, thCarried>>
  BY <1>1 DEF Scan, thFiles
<1>3. thFile \in [ThExt -> ThPic \cup {ThNone}] /\ thSkip \in [ThExt -> ThRec \cup {ThNone}] /\ There \subseteq ThExt
  BY DEF ThInv, ThTypes, There
<1>4. /\ n.at = "judge" /\ n.files = thFile /\ n.old = There \ thYoung /\ n.todo = There
      /\ (n.quiet <=> Active = {}) /\ \A e \in ThExt : n.recs[e] = IF e \in There THEN thSkip[e] ELSE ThNone
  BY <1>1 DEF NoRun
<1>5. n \in ThJob
  <2>1. [e \in ThExt |-> IF e \in There THEN thSkip[e] ELSE ThNone] \in [ThExt -> ThRec \cup {ThNone}]
    BY <1>3
  <2> QED
    BY <1>1, <1>3, <2>1 DEF NoRun, ThJob
<1>6. \A a \in ThActor : /\ thOp'[a] \in ThDoes /\ thOp'[a].at = thOp[a].at /\ thOp'[a].ext = thOp[a].ext
                         /\ thOp'[a].at # "idle" => thOp'[a].over
  BY <1>2 DEF ThInv, ThTypes, ThDoes, Active
<1>7. thOp' \in [ThActor -> ThDoes] /\ Active' = Active
  BY <1>2, <1>6 DEF Active
<1>8. ThTypes' /\ ThAlone' /\ JobAlone' /\ CarriesItsOwn' /\ ThSettles'
  BY <1>2, <1>4, <1>5, <1>6, <1>7 DEF ThInv, ThTypes, There, ThAlone, JobAlone, CarriesItsOwn, ThSettles
<1>9. ThSure'
  BY <1>2, <1>6, SureStays
<1>10. ThSeen'
  BY <1>2, <1>4 DEF ThInv, ThTypes, There, ThSeen, Needless, Seen
<1>11. ThQuiet'
  <2>1. Both => ThExt \ n.todo = {}
    BY <1>4 DEF Both, There
  <2>2. DoneFor(ThExt \ n.todo)
    BY <1>4, <2>1 DEF DoneFor, There
  <2>3. DoneFor(ThExt \ thRun.todo)'
    BY <1>2, <2>2 DEF DoneFor, Both
  <2> QED
    BY <1>2, <1>4, <1>7, <2>3 DEF ThQuiet, There
<1> QED
  BY <1>8, <1>9, <1>10, <1>11 DEF ThInv

LEMMA JudgeKeeps == ASSUME ThInv, NEW e \in ThExt, Judge(e) PROVE ThInv'
<1>1. PICK both \in BOOLEAN : both <=> \A x \in ThExt : thRun.files[x] # ThNone
  OBVIOUS
<1>2. PICK done \in BOOLEAN : done <=> (both \/ Fresh(thRun.files[e].at) \/ Known(e) \/ e \notin thRun.old)
  OBVIOUS
<1>3. /\ thRun.at = "judge" /\ e \in thRun.todo /\ thThumb' = IF both THEN ThNone ELSE thThumb
      /\ thRun' = IF done THEN [thRun EXCEPT !.todo = thRun.todo \ {e}] ELSE [thRun EXCEPT !.at = "convert"]
      /\ UNCHANGED <<thFiles, thOp, thSkip, thCarried, thSettled>>
  BY <1>1, <1>2 DEF Judge, Clash
<1>4. /\ thRun' \in ThJob /\ thRun'.files = thRun.files /\ thRun'.recs = thRun.recs /\ thRun'.old = thRun.old
      /\ (thRun'.quiet <=> thRun.quiet) /\ thRun'.at \in {"judge", "convert"} /\ (thRun'.at = "judge" <=> done)
      /\ thRun'.todo = IF done THEN thRun.todo \ {e} ELSE thRun.todo
  BY <1>3 DEF ThInv, ThTypes, ThJob
<1>5. /\ ThTypes' /\ ThAlone' /\ ThSure' /\ CarriesItsOwn' /\ Active' = Active
      /\ thFile' = thFile /\ thNow' = thNow /\ thYoung' = thYoung
  BY <1>3, <1>4, JobGoesOn DEF ThInv, ThTypes
<1>6. JobAlone' /\ ThSettles'
  BY <1>3, <1>4 DEF ThInv, JobAlone, ThSettles
<1>7. ThSeen'
  BY <1>3, <1>4, <1>5 DEF ThInv, ThSeen, Needless, Seen
<1>8. ASSUME thRun'.quiet PROVE ThQuiet'
  <2>1. /\ Active = {} /\ thRun.files = thFile /\ thRun.old = There \ thYoung /\ DoneFor(ThExt \ thRun.todo)
    BY <1>3, <1>4, <1>8 DEF ThInv, ThQuiet
  <2>2. both <=> Both
    BY <1>1, <2>1 DEF Both
  <2>3. CASE Both
    <3>1. done /\ thThumb' = ThNone
      BY <1>2, <1>3, <2>2, <2>3
    <3>2. DoneFor(ThExt \ thRun.todo)'
      BY <1>5, <2>3, <3>1 DEF DoneFor, Both
    <3> QED
      BY <1>4, <1>5, <2>1, <3>1, <3>2 DEF ThQuiet, There
  <2>4. CASE ~Both
    <3>1. thThumb' = thThumb
      BY <1>3, <2>2, <2>4
    <3>2. ASSUME done, thFile[e] # ThNone, e \notin thYoung, thFile[e].big PROVE thThumb # ThNone
      <4>1. CASE Fresh(thRun.files[e].at)
        BY <4>1 DEF Fresh
      <4>2. CASE Known(e)
        <5>1. thRun.recs[e] # ThNone /\ thRun.recs[e].pic = thFile[e].pic
          BY <2>1, <4>2 DEF Known
        <5> QED
          BY <3>2, <5>1 DEF ThInv, ThSeen, Needless
      <4>3. CASE e \notin thRun.old
        BY <2>1, <3>2, <4>3 DEF There
      <4> QED
        BY <1>2, <2>2, <2>4, <3>2, <4>1, <4>2, <4>3
    <3>3. DoneFor(ThExt \ thRun.todo)'
      BY <1>4, <1>5, <2>1, <2>4, <3>1, <3>2 DEF DoneFor, Both
    <3> QED
      BY <1>4, <1>5, <2>1, <2>4, <3>3 DEF ThQuiet, There, Both
  <2> QED
    BY <2>3, <2>4
<1> QED
  BY <1>5, <1>6, <1>7, <1>8 DEF ThInv, ThQuiet

LEMMA ConvertKeeps == ASSUME ThInv, NEW e \in ThExt, Convert(e) PROVE ThInv'
<1>1. PICK f, r : f = thFile[e] /\ r = [pic |-> thRun.files[e].pic, at |-> thRun.files[e].at]
  OBVIOUS
<1>2. PICK makes \in BOOLEAN : makes <=> (thRun.files[e].big /\ f # ThNone /\ f.big)
  OBVIOUS
<1>3. /\ thRun.at = "convert" /\ e \in thRun.todo /\ UNCHANGED <<thFiles, thThumb, thOp, thSkip, thCarried, thSettled>>
      /\ \/ makes /\ thRun' = [thRun EXCEPT !.at = "write", !.pic = f.pic, !.over = Active # {}]
         \/ ~makes /\ thRun' = [thRun EXCEPT !.at = "judge", !.todo = thRun.todo \ {e}, !.recs[e] = r]
         \/ thRun' = [thRun EXCEPT !.at = "judge", !.todo = thRun.todo \ {e}, !.quiet = FALSE]
  BY <1>1, <1>2 DEF Convert
<1>4. thRun \in ThJob /\ thRun.files[e] \in ThPic /\ f \in ThPic \cup {ThNone} /\ Seen(e, thRun.files[e])
  BY <1>1, <1>3 DEF ThInv, ThTypes, ThJob, ThSeen
<1>5. r \in ThRec /\ r.pic = thRun.files[e].pic
  BY <1>1, <1>4 DEF ThPic, ThRec
<1>6. CASE makes /\ thRun' = [thRun EXCEPT !.at = "write", !.pic = f.pic, !.over = Active # {}]
  <2>1. f # ThNone /\ f.pic \in Nat
    BY <1>2, <1>4, <1>6 DEF ThPic
  <2>2. /\ thRun' \in ThJob /\ thRun'.at = "write" /\ thRun'.pic = f.pic /\ (thRun'.over <=> Active # {})
        /\ thRun'.files = thRun.files /\ thRun'.recs = thRun.recs /\ thRun'.old = thRun.old
        /\ (thRun'.quiet <=> thRun.quiet) /\ thRun'.todo = thRun.todo
    BY <1>4, <1>6, <2>1 DEF ThJob
  <2>3. /\ ThTypes' /\ ThAlone' /\ ThSure' /\ CarriesItsOwn' /\ Active' = Active
        /\ thFile' = thFile /\ thNow' = thNow /\ thYoung' = thYoung
    BY <1>3, <2>2, JobGoesOn DEF ThInv, ThTypes
  <2>4. JobAlone'
    BY <1>1, <2>1, <2>2, <2>3 DEF JobAlone, OfOneThere
  <2>5. ThSettles'
    BY <1>3 DEF ThInv, ThSettles
  <2>6. ThSeen' /\ ThQuiet'
    BY <1>3, <2>2, <2>3 DEF ThInv, ThSeen, Needless, Seen, ThQuiet, DoneFor, Both, There
  <2> QED
    BY <2>3, <2>4, <2>5, <2>6 DEF ThInv
<1>7. CASE ~makes /\ thRun' = [thRun EXCEPT !.at = "judge", !.todo = thRun.todo \ {e}, !.recs[e] = r]
  <2>1. PICK recs : recs = [thRun.recs EXCEPT ![e] = r]
    OBVIOUS
  <2>2. recs \in [ThExt -> ThRec \cup {ThNone}] /\ recs[e] = r /\ \A x \in ThExt \ {e} : recs[x] = thRun.recs[x]
    BY <1>4, <1>5, <2>1 DEF ThJob
  <2>3. thRun' = [thRun EXCEPT !.at = "judge", !.todo = thRun.todo \ {e}, !.recs = recs]
    BY <1>4, <1>7, <2>1 DEF ThJob
  <2>4. /\ thRun' \in ThJob /\ thRun'.at = "judge" /\ thRun'.files = thRun.files /\ thRun'.recs = recs
        /\ thRun'.old = thRun.old /\ (thRun'.quiet <=> thRun.quiet) /\ thRun'.todo = thRun.todo \ {e}
    BY <1>4, <2>2, <2>3 DEF ThJob
  <2>5. /\ ThTypes' /\ ThAlone' /\ ThSure' /\ CarriesItsOwn' /\ Active' = Active
        /\ thFile' = thFile /\ thNow' = thNow /\ thYoung' = thYoung
    BY <1>3, <2>4, JobGoesOn DEF ThInv, ThTypes
  <2>6. Needless(e, r)
    BY <1>1, <1>2, <1>4, <1>5, <1>7, ThAssumption DEF Needless, Seen, ThPic
  <2>7. ThSeen'
    BY <1>3, <2>2, <2>4, <2>5, <2>6 DEF ThInv, ThSeen, Needless, Seen
  <2>8. JobAlone' /\ ThSettles'
    BY <1>3, <2>4 DEF ThInv, JobAlone, ThSettles
  <2>9. ThQuiet'
    <3>1. ASSUME thRun'.quiet
          PROVE  /\ Active = {} /\ thRun.files = thFile /\ thRun.old = There \ thYoung /\ ~Both
                 /\ DoneFor(ThExt \ thRun.todo) /\ ~f.big
      BY <1>1, <1>2, <1>3, <1>4, <1>7, <2>4, <3>1, ThAssumption DEF ThInv, ThQuiet, ThPic
    <3>2. ASSUME thRun'.quiet PROVE DoneFor(ThExt \ thRun.todo)'
      BY <1>1, <1>3, <2>4, <2>5, <3>1, <3>2 DEF DoneFor, Both
    <3> QED
      BY <2>4, <2>5, <3>1, <3>2 DEF ThQuiet, There
  <2> QED
    BY <2>5, <2>7, <2>8, <2>9 DEF ThInv
<1>8. CASE thRun' = [thRun EXCEPT !.at = "judge", !.todo = thRun.todo \ {e}, !.quiet = FALSE]
  <2>1. /\ thRun' \in ThJob /\ thRun'.at = "judge" /\ thRun'.files = thRun.files /\ thRun'.recs = thRun.recs
        /\ ~thRun'.quiet /\ thRun'.todo = thRun.todo \ {e}
    BY <1>4, <1>8 DEF ThJob
  <2>2. /\ ThTypes' /\ ThAlone' /\ ThSure' /\ CarriesItsOwn' /\ Active' = Active
        /\ thFile' = thFile /\ thNow' = thNow /\ thYoung' = thYoung
    BY <1>3, <2>1, JobGoesOn DEF ThInv, ThTypes
  <2>3. JobAlone' /\ ThSettles' /\ ThQuiet'
    BY <1>3, <2>1 DEF ThInv, JobAlone, ThSettles, ThQuiet
  <2>4. ThSeen'
    BY <1>3, <2>1, <2>2 DEF ThInv, ThSeen, Needless, Seen
  <2> QED
    BY <2>2, <2>3, <2>4 DEF ThInv
<1> QED
  BY <1>3, <1>6, <1>7, <1>8

LEMMA JobWritesKeeps == ASSUME ThInv, JobWrites PROVE ThInv'
<1>1. /\ thRun.at = "write" /\ thThumb' = Thumb(thRun.pic, thRun.over)
      /\ thRun' = [thRun EXCEPT !.at = "judge", !.todo = {}]
      /\ UNCHANGED <<thFile, thYoung, thNow, thOp, thSkip, thCarried, thSettled>>
  BY DEF JobWrites, thFiles
<1>2. thRun \in ThJob /\ thRun.pic \in Nat /\ thRun.over \in BOOLEAN
  BY DEF ThInv, ThTypes, ThJob
<1>3. /\ thThumb' \in ThMade /\ thThumb' # ThNone /\ thThumb'.of = thRun.pic
      /\ thThumb'.doubt <=> thRun.over \/ Both
  BY <1>1, <1>2, WrittenIs DEF ThInv
<1>4. /\ thRun' \in ThJob /\ thRun'.at = "judge" /\ thRun'.files = thRun.files /\ thRun'.recs = thRun.recs
      /\ thRun'.old = thRun.old /\ (thRun'.quiet <=> thRun.quiet) /\ thRun'.todo = {}
  BY <1>1, <1>2 DEF ThJob
<1>5. \A a \in ThActor : thOp[a].at # "idle" => thOp[a].over
  BY <1>1 DEF ThInv, ThAlone
<1>6. ThTypes' /\ ThAlone' /\ CarriesItsOwn' /\ JobAlone' /\ ThSettles'
  BY <1>1, <1>3, <1>4, <1>5 DEF ThInv, ThTypes, There, ThAlone, CarriesItsOwn, JobAlone, ThSettles
<1>7. ThSeen'
  BY <1>1, <1>4 DEF ThInv, ThSeen, Needless, Seen
<1>8. ThSure'
  <2>1. CASE thRun.over
    BY <1>3, <2>1 DEF ThSure, Sure
  <2>2. CASE ~thRun.over
    <3>1. Active = {} /\ OfOneThere(thRun.pic)
      BY <1>1, <2>2 DEF ThInv, JobAlone
    <3>2. \A a \in ThActor : thOp[a].at = "idle"
      BY <3>1 DEF Active
    <3>3. OfTheFile'
      BY <1>1, <1>3, <3>1, <3>2 DEF OfTheFile, OfOneThere
    <3> QED
      BY <1>1, <3>2, <3>3 DEF ThSure
  <2> QED
    BY <2>1, <2>2
<1>9. ThQuiet'
  <2>1. thRun'.quiet => Active = {} /\ thRun.files = thFile /\ thRun.old = There \ thYoung /\ ~Both
    BY <1>1, <1>4 DEF ThInv, ThQuiet
  <2>2. ~Both => DoneFor(ThExt)'
    BY <1>1, <1>3 DEF DoneFor, Both
  <2>3. ThExt \ thRun'.todo = ThExt
    BY <1>4
  <2> QED
    BY <1>1, <1>4, <2>1, <2>2, <2>3 DEF ThQuiet, There, Active, Both, DoneFor
<1> QED
  BY <1>6, <1>7, <1>8, <1>9 DEF ThInv

\* The run ends, or is ended.
LEMMA JobEndsKeeps == ASSUME ThInv, SaveSkip \/ JobDies PROVE ThInv'
<1>1. PICK n : n = NoRun
  OBVIOUS
<1>2. n \in ThJob /\ n.at = "idle" /\ \A e \in ThExt : n.files[e] = ThNone /\ n.recs[e] = ThNone /\ e \notin n.todo
  BY <1>1 DEF NoRun, ThJob
<1>3. /\ thRun.at # "idle" /\ thRun' = n /\ thThumb' = thThumb /\ (thSkip' = thSkip \/ thSkip' = thRun.recs)
      /\ UNCHANGED <<thFiles, thOp, thCarried>>
  BY <1>1 DEF SaveSkip, JobDies
<1>4. thRun.recs \in [ThExt -> ThRec \cup {ThNone}]
  BY DEF ThInv, ThTypes, ThJob
<1>5. /\ ThTypes' /\ ThAlone' /\ ThSure' /\ CarriesItsOwn' /\ Active' = Active
      /\ thFile' = thFile /\ thNow' = thNow /\ thYoung' = thYoung
  BY <1>2, <1>3, <1>4, JobGoesOn DEF ThInv, ThTypes
<1>6. JobAlone' /\ ThQuiet'
  BY <1>2, <1>3 DEF JobAlone, ThQuiet
<1>7. ThSeen'
  BY <1>2, <1>3, <1>5 DEF ThInv, ThSeen, Needless, Seen
<1>8. ThSettles'
  <2>1. ASSUME thSettled' PROVE thRun.quiet /\ thRun.todo = {}
    BY <1>3, <2>1 DEF SaveSkip, JobDies, ThInv, ThSettles
  <2>2. ThExt \ {} = ThExt
    OBVIOUS
  <2>3. ASSUME thSettled' PROVE Active = {} /\ DoneFor(ThExt)
    BY <1>3, <2>1, <2>2, <2>3 DEF ThInv, ThQuiet
  <2> QED
    BY <1>2, <1>3, <1>5, <2>3 DEF ThSettles, DoneFor, Both
<1> QED
  BY <1>5, <1>6, <1>7, <1>8 DEF ThInv

LEMMA AgeKeeps == ASSUME ThInv, NEW e \in ThExt, Age(e) PROVE ThInv'
<1>1. /\ thRun' = [thRun EXCEPT !.quiet = FALSE] /\ ~thSettled'
      /\ UNCHANGED <<thFile, thThumb, thOp, thSkip, thCarried, thNow>>
  BY DEF Age
<1>2. /\ thRun' \in ThJob /\ ~thRun'.quiet /\ thRun'.at = thRun.at /\ thRun'.files = thRun.files
      /\ thRun'.recs = thRun.recs /\ thRun'.todo = thRun.todo /\ thRun'.pic = thRun.pic /\ (thRun'.over <=> thRun.over)
  BY <1>1 DEF ThInv, ThTypes, ThJob
<1>3. ThTypes' /\ JobAlone' /\ CarriesItsOwn' /\ ThQuiet' /\ ThSettles'
  BY <1>1, <1>2 DEF ThInv, ThTypes, There, Active, JobAlone, OfOneThere, CarriesItsOwn, ThQuiet, ThSettles
<1>5. ThAlone'
  BY <1>1, <1>2 DEF ThInv, There, Active, ThAlone, Its, Sure
<1>4. ThSure' /\ ThSeen'
  BY <1>1, <1>2, SureStays DEF ThInv, ThSeen, Needless, Seen
<1> QED
  BY <1>3, <1>4, <1>5 DEF ThInv

LEMMA ThKept == ThInv /\ [ThNext]_ThVars => ThInv'
<1> SUFFICES ASSUME ThInv, [ThNext]_ThVars PROVE ThInv'
  OBVIOUS
<1>1. CASE UNCHANGED ThVars
  <2>1. UNCHANGED <<thFile, thYoung, thThumb, thOp, thRun, thSkip, thCarried, thNow, thSettled>>
    BY <1>1 DEF ThVars
  <2>2. ThTypes' /\ JobAlone' /\ CarriesItsOwn'
    BY <2>1 DEF ThInv, ThTypes, There, Active, JobAlone, OfOneThere, CarriesItsOwn
  <2>5. ThAlone'
    BY <2>1 DEF ThInv, There, Active, ThAlone, Its, Sure
  <2>3. ThSure' /\ ThSeen'
    BY <2>1, SureStays DEF ThInv, ThSeen, Needless, Seen
  <2>4. ThQuiet' /\ ThSettles'
    BY <2>1 DEF ThInv, ThQuiet, ThSettles, Active, There, Both, DoneFor
  <2> QED
    BY <2>2, <2>3, <2>4, <2>5 DEF ThInv
<1>2. CASE \E a \in ThActor, e \in ThExt :
             \/ CollectOpen(a, e) \/ MoveOut(a, e) \/ DeleteThumb(a, e)
             \/ \E big, with \in BOOLEAN : MoveIn(a, e, big, with)
             \/ \E big \in BOOLEAN : Edit(a, e, big)
  BY <1>2, CollectOpenKeeps, MoveOutKeeps, DeleteThumbKeeps, MoveInKeeps, EditKeeps
<1>3. CASE \E a \in ThActor :
             \/ \E big \in BOOLEAN : CollectDone(a, big)
             \/ EnsureThumb(a) \/ WriteThumb(a) \/ ThumbIn(a) \/ ThumbOut(a) \/ RebuildThumb(a)
             \/ DeleteFile(a) \/ ActorDies(a)
  <2>1. \A a \in ThActor : WriteThumb(a) => ThInv'
    BY WritesAndGoes DEF WriteThumb
  <2> QED
    BY <1>3, <2>1, CollectDoneKeeps, EnsureThumbKeeps, ThumbInKeeps, ThumbOutKeeps, RebuildThumbKeeps,
       DeleteFileKeeps, ActorDiesKeeps
<1>4. CASE Scan \/ JobWrites \/ SaveSkip \/ JobDies \/ \E e \in ThExt : Judge(e) \/ Convert(e) \/ Age(e)
  BY <1>4, ScanKeeps, JobWritesKeeps, JobEndsKeeps, JudgeKeeps, ConvertKeeps, AgeKeeps
<1> QED
  BY <1>1, <1>2, <1>3, <1>4 DEF ThNext

(***************************************************************************)
(* The run App_pages.                                                      *)
(***************************************************************************)
EveryVariable == <<part, ApVars, ChVars, CsVars, VcVars, PlVars, LkVars, IvVars, CuVars, ThVars,
                   OdVars, LsVars, BdVars, ScVars, GlVars>>

LEMMA StepOfPictures ==
  ASSUME [Next_Pages]_EveryVariable
  PROVE  [CuNext]_CuVars /\ [OdNext]_OdVars /\ [IvNext]_IvVars /\ [ThNext]_ThVars
<1>1. CASE Next_Pages
  BY <1>1 DEF Next_Pages, Others
<1>2. CASE UNCHANGED EveryVariable
  BY <1>2 DEF EveryVariable
<1> QED
  BY <1>1, <1>2

\* app/image_curate.py and the scripts it runs: for any pictures, and whatever is decided, moved
\* or asked back while the scripts run, wait or fail, a change that a cache lacks has something
\* ahead that reads it, and a round proposes each picture that was not yet decided on in it.
THEOREM PicturesAreSortedAsDecided == Spec_Pages => []CurateRight
<1>1. Init_Pages => CuInv
  BY CuStart DEF Init_Pages
<1>2. CuInv /\ [Next_Pages]_EveryVariable => CuInv'
  BY StepOfPictures, CuKept
<1> QED
  BY <1>1, <1>2, CuSafe, PTL DEF Spec_Pages, EveryVariable

\* app/video.py and app/motion_photo.py: for any files, requests, seats and uploads, whatever
\* fails or overtakes, what requests make is whole; what is sent as fresh was made of what the
\* source is, unless that was written over with an older time or meanwhile; no request makes
\* again what is fresh; and every seat of a converter comes back.
THEOREM MadeOnDemandIsRight == Spec_Pages => []OnDemandRight
<1>1. Init_Pages => OdInv
  BY OdStart DEF Init_Pages
<1>2. OdInv /\ [Next_Pages]_EveryVariable => OdInv'
  BY StepOfPictures, OdKept
<1> QED
  BY <1>1, <1>2, OdSafe, PTL DEF Spec_Pages, EveryVariable

\* static/js/image.js: for any number of pictures, however answers about originals, moves that
\* fail and deletions of the page overtake the slides, the viewer shows the picture it is on,
\* and what the user moved away and could not be moved is not deleted with the page.
THEOREM ViewerShowsItsPicture == Spec_Pages => []ViewerRight
<1>1. Init_Pages => IvInv
  BY IvStart DEF Init_Pages
<1>2. IvInv /\ [Next_Pages]_EveryVariable => IvInv'
  BY StepOfPictures, IvKept
<1> QED
  BY <1>1, <1>2, IvSafe, PTL DEF Spec_Pages, EveryVariable

\* utils/image_thumbs.py and app/image.py: for any number of actors at one name, and wherever one
\* of them or the job dies, a thumbnail that was made alone is that of the one file of its name
\* and goes only with its own picture; a run of the job that nobody disturbs leaves none for two
\* files of one name, and one for every large picture.
THEOREM ThumbnailIsOfItsFile == Spec_Pages => []ThumbsRight
<1>1. Init_Pages => ThInv
  BY ThStart DEF Init_Pages
<1>2. ThInv /\ [Next_Pages]_EveryVariable => ThInv'
  BY StepOfPictures, ThKept
<1> QED
  BY <1>1, <1>2, ThSafe, PTL DEF Spec_Pages, EveryVariable

\* The four together, as the run App_pages states them: whatever overtakes what on the pages and
\* in the jobs, the picture that is shown is the one it stands for.
THEOREM PicturesAreRight == Spec_Pages => []PicturesRight
<1>1. CurateRight /\ OnDemandRight /\ ViewerRight /\ ThumbsRight => PicturesRight
  BY DEF PicturesRight
<1> QED
  BY <1>1, PicturesAreSortedAsDecided, MadeOnDemandIsRight, ViewerShowsItsPicture, ThumbnailIsOfItsFile, PTL
=============================================================================
