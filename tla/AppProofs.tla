------------------------------ MODULE AppProofs ------------------------------
(***************************************************************************)
(* Proofs about the parts of MC_App: the analysis of recordings, the       *)
(* scripts of the scheduler, and what the account page shows; for any      *)
(* jobs, settings, threads, failures and restarts.                         *)
(***************************************************************************)
EXTENDS Audio, BatchProcess, Dashboard, FiniteSetTheorems, TLAPS

Stage   == {"none", "queued", "running", "error", "done", "gone"}
Run     == [at : {"gone", "convert", "listen", "heard", "diarize", "sum"},
            speakers : Nat, words : Nat, turns : Nat]
Outcome == [speakers : Nat, turns : Nat, words : Nat, key : Nat \X Nat,
            summary : {AuNone} \cup [turns : Nat, words : Nat]]
Asked == [job : AuJob, speakers : Nat, id : Nat]

AuTypeOK ==
  /\ auStage \in [AuJob -> Stage] /\ auWanted \in [AuJob -> Nat]
  /\ auHeard \in [AuJob -> BOOLEAN] /\ auTurns \in [AuJob -> Nat]
  /\ auResult \in [AuJob -> Outcome \cup {AuNone}] /\ auWav \in [AuJob -> BOOLEAN]
  /\ auWords \in Nat /\ auThread \in BOOLEAN /\ auQueue \in Seq(AuJob)
  /\ auNow \in [job : AuJob \cup {AuNone}, speakers : Nat, begun : BOOLEAN]
  /\ auRun \in [AuJob -> [Worker -> Run]] /\ auRequest \subseteq Asked
  /\ auRetried \in Nat /\ auCaught \subseteq AuJob

(***************************************************************************)
(* The inductive invariant.                                                *)
(***************************************************************************)
\* the job is in the queue, or a request is about to put it there
Pending(j) == Waiting(j) \/ \E r \in auRequest : r.job = j /\ r.speakers = 0

\* a result is consistent in itself
Matches(r) ==
  /\ r.key = <<r.turns, r.words>> /\ r.turns \in {0, r.speakers}
  /\ r.summary # AuNone => r.summary = [turns |-> r.turns, words |-> r.words]

\* A worker of the thread works for the job the thread is at, with the settings
\* the thread has read, and what it and its predecessors made fits together.
Made(j) ==
  /\ auRun[j]["own"] # Gone =>
       auNow.job = j /\ auNow.begun /\ auRun[j]["own"].speakers = auNow.speakers
  /\ \A w \in Worker :
       auRun[j][w].at = "sum" => auRun[j][w].turns \in {0, auRun[j][w].speakers}
  /\ auResult[j] # AuNone => Matches(auResult[j])

\* A job whose stage says that it is being worked at is with the thread, and what
\* it has, or is getting, is of its settings or will be made again.
Kept(j) ==
  /\ auRun[j]["stray"] = Gone
  /\ auThread /\ auStage[j] = "queued" => Waiting(j)
  /\ auThread /\ auStage[j] = "running" => auNow.job = j \/ Waiting(j)
  /\ auNow.job = j /\ There(j) => auNow.speakers = auWanted[j] \/ Pending(j)
  /\ auStage[j] = "done" =>
       Matches(auResult[j]) /\ (auResult[j].speakers = auWanted[j] \/ Pending(j))

AtRest  == ~auThread => auNow = NoJob /\ auQueue = <<>> /\ auRequest = {}
AllMade == \A j \in AuJob : Made(j)
AllKept == \A j \in AuJob \ auCaught : Kept(j)
AuInv   == AuTypeOK /\ AtRest /\ AllMade /\ AllKept

LEMMA GoneRun == Gone \in Run /\ Gone.at = "gone"
  BY DEF Gone, Run

\* A worker's next state is its own only.
LEMMA BecomesType ==
  ASSUME AuTypeOK, NEW j \in AuJob, NEW w \in Worker, NEW r \in Run, Becomes(j, w, r)
  PROVE  /\ auRun' \in [AuJob -> [Worker -> Run]] /\ auRun'[j][w] = r
         /\ \A i \in AuJob, v \in Worker : i # j \/ v # w => auRun'[i][v] = auRun[i][v]
  BY DEF AuTypeOK, Becomes

\* What was queued stays queued, and what is queued is.
LEMMA AppendWaits ==
  ASSUME AuTypeOK, NEW j \in AuJob, auQueue' = Append(auQueue, j)
  PROVE  /\ auQueue' \in Seq(AuJob) /\ Waiting(j)'
         /\ \A i \in AuJob : Waiting(i) => Waiting(i)'
<1>1. /\ auQueue' \in Seq(AuJob) /\ Len(auQueue') = Len(auQueue) + 1
      /\ auQueue'[Len(auQueue) + 1] = j
      /\ \A k \in 1..Len(auQueue) : auQueue'[k] = auQueue[k]
  BY DEF AuTypeOK
<1>2. DOMAIN auQueue = 1..Len(auQueue) /\ DOMAIN auQueue' = 1..Len(auQueue')
      /\ Len(auQueue) \in Nat
  BY <1>1 DEF AuTypeOK
<1> QED
  BY <1>1, <1>2 DEF Waiting

\* The thread takes the first one only.
LEMMA TailWaits ==
  ASSUME AuTypeOK, auQueue # <<>>, auQueue' = Tail(auQueue)
  PROVE  /\ auQueue' \in Seq(AuJob) /\ Head(auQueue) \in AuJob
         /\ \A i \in AuJob : Waiting(i) /\ i # Head(auQueue) => Waiting(i)'
         /\ \A i \in AuJob : Waiting(i)' => Waiting(i)
<1>1. /\ auQueue \in Seq(AuJob) /\ Len(auQueue) \in Nat \ {0}
      /\ auQueue' \in Seq(AuJob) /\ Len(auQueue') = Len(auQueue) - 1
      /\ Head(auQueue) = auQueue[1] /\ Head(auQueue) \in AuJob
      /\ \A k \in 1..Len(auQueue) - 1 : auQueue'[k] = auQueue[k + 1]
  BY DEF AuTypeOK
<1>2. DOMAIN auQueue = 1..Len(auQueue) /\ DOMAIN auQueue' = 1..Len(auQueue')
  BY <1>1
<1>3. ASSUME NEW i \in AuJob, Waiting(i), i # Head(auQueue)
      PROVE  Waiting(i)'
  <2>1. PICK k \in 1..Len(auQueue) : auQueue[k] = i
    BY <1>2, <1>3 DEF Waiting
  <2>2. k # 1
    BY <1>1, <1>3, <2>1
  <2>3. k - 1 \in 1..Len(auQueue') /\ auQueue'[k - 1] = i
    BY <1>1, <2>1, <2>2
  <2> QED
    BY <1>2, <2>3 DEF Waiting
<1>4. ASSUME NEW i \in AuJob, Waiting(i)'
      PROVE  Waiting(i)
  <2>1. PICK k \in 1..Len(auQueue') : auQueue'[k] = i
    BY <1>2, <1>4 DEF Waiting
  <2>2. k + 1 \in 1..Len(auQueue) /\ auQueue[k + 1] = i
    BY <1>1, <2>1
  <2> QED
    BY <1>2, <2>2 DEF Waiting
<1> QED
  BY <1>1, <1>3, <1>4

(***************************************************************************)
(* The worker processes.                                                   *)
(***************************************************************************)
\* A worker reports that it runs: one of the thread's, or one that is caught.
LEMMA WorkerRuns ==
  ASSUME AuInv, NEW j \in AuJob, NEW w \in Worker, NEW r \in Run,
         auRun[j][w].at # "gone", There(j), Reports(j, "running"), Becomes(j, w, r),
         r.speakers = auRun[j][w].speakers, r.at = "sum" => r.turns \in {0, r.speakers},
         UNCHANGED <<auWanted, auResult, auServer, auBounds>>
  PROVE  AtRest' /\ AllMade' /\ AllKept'
<1>1. /\ auRun' \in [AuJob -> [Worker -> Run]] /\ auRun'[j][w] = r
      /\ \A i \in AuJob, v \in Worker : i # j \/ v # w => auRun'[i][v] = auRun[i][v]
  BY BecomesType DEF AuInv
<1>2. auStage' = [auStage EXCEPT ![j] = "running"] /\ auStage \in [AuJob -> Stage]
  BY DEF Reports, AuInv, AuTypeOK
<1>3. UNCHANGED <<auThread, auQueue, auNow, auRequest, auCaught>>
  BY DEF auServer, auBounds
<1>4. AtRest'
  BY <1>3 DEF AuInv, AtRest
<1>5. auRun[j][w] # Gone
  BY GoneRun
<1>6. ASSUME NEW i \in AuJob
      PROVE  Made(i)'
  <2>1. Made(i)
    BY DEF AuInv, AllMade
  <2>2. auRun'[i]["own"] # Gone => auRun[i]["own"] # Gone
    BY <1>1, <1>5 DEF Worker
  <2>3. auRun'[i]["own"].speakers = auRun[i]["own"].speakers
    BY <1>1 DEF Worker
  <2>4. \A v \in Worker :
          auRun'[i][v].at = "sum" => auRun'[i][v].turns \in {0, auRun'[i][v].speakers}
    BY <1>1, <2>1 DEF Made
  <2> QED
    BY <1>3, <2>1, <2>2, <2>3, <2>4 DEF Made
<1>7. ASSUME NEW i \in AuJob \ auCaught
      PROVE  Kept(i)'
  <2>1. Kept(i)
    BY DEF AuInv, AllKept
  <2>2. /\ Waiting(i)' = Waiting(i) /\ Pending(i)' = Pending(i)
    BY <1>3 DEF Waiting, Pending
  <2>3. CASE i # j
    BY <1>1, <1>2, <1>3, <2>1, <2>2, <2>3 DEF Kept, There, Worker
  <2>4. CASE i = j
    <3>1. w = "own"
      BY <1>5, <2>1, <2>4 DEF Kept, Worker
    <3>2. auNow.job = j
      BY <1>5, <3>1 DEF AuInv, AllMade, Made
    <3>3. auRun'[i]["stray"] = Gone
      BY <1>1, <2>1, <2>4, <3>1 DEF Kept, Worker
    <3>4. auStage'[i] = "running"
      BY <1>2, <2>4
    <3> QED
      BY <1>3, <2>1, <2>2, <2>4, <3>2, <3>3, <3>4 DEF Kept
  <2> QED
    BY <2>3, <2>4
<1> QED
  BY <1>3, <1>4, <1>6, <1>7 DEF AllMade, AllKept

\* The steps of a worker keep the types.
LEMMA TypeWorker ==
  ASSUME AuTypeOK, NEW j \in AuJob, NEW w \in Worker,
         \/ Convert(j, w) \/ ReadWords(j, w) \/ Listen(j, w) \/ Diarize(j, w) \/ Finish(j, w)
         \/ \E reported \in BOOLEAN : WorkerFails(j, w, reported)
  PROVE  AuTypeOK'
<1> DEFINE run == auRun[j][w]
<1>1. run \in Run /\ Gone \in Run
  BY GoneRun DEF AuTypeOK
<1>2. ASSUME NEW r \in Run, NEW s \in Stage, Becomes(j, w, r), Reports(j, s) \/ auStage' = auStage,
             auTurns' \in [AuJob -> Nat], auResult' \in [AuJob -> Outcome \cup {AuNone}],
             auHeard' \in [AuJob -> BOOLEAN], auWav' \in [AuJob -> BOOLEAN],
             UNCHANGED <<auWanted, auWords, auServer, auBounds>>
      PROVE  AuTypeOK'
  <2>1. auRun' \in [AuJob -> [Worker -> Run]]
    BY <1>2, BecomesType
  <2>2. auStage' \in [AuJob -> Stage]
    BY <1>2 DEF Reports, AuTypeOK
  <2> QED
    BY <1>2, <2>1, <2>2 DEF AuTypeOK, auServer, auBounds
<1>3. CASE Convert(j, w)
  <2>1. [run EXCEPT !.at = "listen"] \in Run /\ "running" \in Stage
    BY <1>1 DEF Run, Stage
  <2> QED
    BY <1>2, <1>3, <2>1 DEF Convert, AuTypeOK
<1>4. CASE ReadWords(j, w)
  <2>1. [run EXCEPT !.at = "heard", !.words = auWords] \in Run /\ "running" \in Stage
    BY <1>1 DEF Run, Stage, AuTypeOK
  <2> QED
    BY <1>2, <1>4, <2>1 DEF ReadWords, AuTypeOK, auKept
<1>5. CASE Listen(j, w)
  <2>1. [run EXCEPT !.at = "diarize"] \in Run /\ "running" \in Stage
    BY <1>1 DEF Run, Stage
  <2> QED
    BY <1>2, <1>5, <2>1 DEF Listen, AuTypeOK
<1>6. CASE Diarize(j, w)
  <2>1. PICK n \in Nat : Becomes(j, w, [run EXCEPT !.at = "sum", !.turns = n])
    BY <1>1, <1>6 DEF Diarize, AuTypeOK, Run
  <2>2. [run EXCEPT !.at = "sum", !.turns = n] \in Run /\ "running" \in Stage
    BY <1>1, <2>1 DEF Run, Stage
  <2>3. auTurns' \in [AuJob -> Nat]
    BY <1>1, <1>6 DEF Diarize, AuTypeOK, Run
  <2>4. Reports(j, "running") /\ UNCHANGED <<auWanted, auHeard, auResult, auWav, auWords, auServer, auBounds>>
    BY <1>6 DEF Diarize
  <2> QED
    BY <1>2, <2>1, <2>2, <2>3, <2>4 DEF AuTypeOK
<1>7. CASE Finish(j, w)
  <2>1. PICK summary \in Summary(j, run) :
          auResult' = [auResult EXCEPT ![j] =
            [speakers |-> run.speakers, turns |-> run.turns, words |-> run.words,
             key |-> KeyOf(run), summary |-> summary]]
    BY <1>7 DEF Finish
  <2>2. summary \in {AuNone} \cup [turns : Nat, words : Nat]
    BY SMTT(40), <1>1, <2>1 DEF Summary, AuTypeOK, Outcome, Run
  <2>3. KeyOf(run) \in Nat \X Nat
    BY <1>1 DEF KeyOf, Run
  <2>4. auResult' \in [AuJob -> Outcome \cup {AuNone}]
    BY <1>1, <2>1, <2>2, <2>3 DEF AuTypeOK, Outcome, Run
  <2>5. /\ Reports(j, IF auWav[j] THEN "done" ELSE "error") /\ Becomes(j, w, Gone)
        /\ auWav' = [auWav EXCEPT ![j] = FALSE]
        /\ UNCHANGED <<auWanted, auHeard, auTurns, auWords, auServer, auBounds>>
    BY <1>7 DEF Finish
  <2>6. (IF auWav[j] THEN "done" ELSE "error") \in Stage
    BY DEF Stage
  <2> QED
    BY <1>1, <1>2, <2>4, <2>5, <2>6 DEF AuTypeOK
<1>8. ASSUME NEW reported \in BOOLEAN, WorkerFails(j, w, reported)
      PROVE  AuTypeOK'
  BY <1>1, <1>2, <1>8 DEF WorkerFails, AuTypeOK, auKept, Stage
<1> QED
  BY <1>3, <1>4, <1>5, <1>6, <1>7, <1>8

\* What a worker makes fits its settings, and a summary that is taken over is
\* of the same transcript.
LEMMA InvWorker ==
  ASSUME AuInv, NEW j \in AuJob, NEW w \in Worker,
         \/ Convert(j, w) \/ ReadWords(j, w) \/ Listen(j, w) \/ Diarize(j, w) \/ Finish(j, w)
         \/ \E reported \in BOOLEAN : WorkerFails(j, w, reported)
  PROVE  AtRest' /\ AllMade' /\ AllKept'
<1> DEFINE run == auRun[j][w]
<1>1. run \in Run /\ Gone \in Run /\ AuTypeOK
  BY GoneRun DEF AuInv, AuTypeOK
<1>2. CASE Convert(j, w)
  <2>1. [run EXCEPT !.at = "listen"] \in Run
    BY <1>1 DEF Run
  <2>2. [run EXCEPT !.at = "listen"].at = "listen" /\ [run EXCEPT !.at = "listen"].speakers = run.speakers
    BY <1>1 DEF Run
  <2> QED
    BY <1>2, <2>1, <2>2, WorkerRuns DEF Convert
<1>3. CASE ReadWords(j, w)
  <2> DEFINE r == [run EXCEPT !.at = "heard", !.words = auWords]
  <2>1. r \in Run /\ r.at = "heard" /\ r.speakers = run.speakers
    BY <1>1 DEF Run, AuTypeOK
  <2>2. /\ run.at = "listen" /\ There(j) /\ Reports(j, "running") /\ Becomes(j, w, r)
        /\ UNCHANGED <<auWanted, auResult, auServer, auBounds>>
    BY <1>3 DEF ReadWords, auKept
  <2> HIDE DEF r
  <2> QED
    BY <2>1, <2>2, WorkerRuns
<1>4. CASE Listen(j, w)
  <2> DEFINE r == [run EXCEPT !.at = "diarize"]
  <2>1. r \in Run /\ r.at = "diarize" /\ r.speakers = run.speakers
    BY <1>1 DEF Run
  <2>2. /\ run.at = "heard" /\ There(j) /\ Reports(j, "running") /\ Becomes(j, w, r)
        /\ UNCHANGED <<auWanted, auResult, auServer, auBounds>>
    BY <1>4 DEF Listen
  <2> HIDE DEF r
  <2> QED
    BY <2>1, <2>2, WorkerRuns
\* the speakers are those asked for, of this run or kept from one for as many
<1>5. CASE Diarize(j, w)
  <2>1. PICK n \in {0, run.speakers} : Becomes(j, w, [run EXCEPT !.at = "sum", !.turns = n])
    BY <1>1, <1>5 DEF Diarize, Fits
  <2> DEFINE r == [run EXCEPT !.at = "sum", !.turns = n]
  <2>2. r \in Run /\ r.speakers = run.speakers /\ r.turns = n
    <3>1. n \in Nat
      BY <1>1, <2>1 DEF Run
    <3> HIDE DEF run
    <3> QED
      BY <1>1, <3>1 DEF Run
  <2>3. /\ run.at = "diarize" /\ There(j) /\ Reports(j, "running") /\ Becomes(j, w, r)
        /\ UNCHANGED <<auWanted, auResult, auServer, auBounds>>
    BY <1>5, <2>1 DEF Diarize
  <2> HIDE DEF r
  <2> QED
    BY <2>1, <2>2, <2>3, WorkerRuns
<1>6. CASE Finish(j, w)
  <2> DEFINE Made1(summary) == [speakers |-> run.speakers, turns |-> run.turns,
                                words |-> run.words, key |-> KeyOf(run), summary |-> summary]
  <2>1. PICK summary \in Summary(j, run) : auResult' = [auResult EXCEPT ![j] = Made1(summary)]
    BY <1>6 DEF Finish
  <2> DEFINE res == Made1(summary)
  <2>2. /\ run.at = "sum" /\ There(j) /\ Becomes(j, w, Gone)
        /\ auStage' = [auStage EXCEPT ![j] = IF auWav[j] THEN "done" ELSE "error"]
        /\ UNCHANGED <<auWanted, auThread, auQueue, auNow, auRequest, auCaught>>
    BY <1>6 DEF Finish, Reports, auServer, auBounds
  <2>3. /\ auRun' \in [AuJob -> [Worker -> Run]] /\ auRun'[j][w] = Gone
        /\ \A i \in AuJob, v \in Worker : i # j \/ v # w => auRun'[i][v] = auRun[i][v]
    BY <1>1, <2>2, BecomesType
  <2>4. Matches(res)
    <3>1. run.turns \in {0, run.speakers}
      BY <2>2 DEF AuInv, AllMade, Made
    <3>2. summary # AuNone => summary = [turns |-> run.turns, words |-> run.words]
      <4>1. CASE auResult[j] # AuNone /\ auResult[j].key = KeyOf(run)
                   /\ auResult[j].summary # AuNone
        <5>1. Matches(auResult[j]) /\ summary = auResult[j].summary
          BY <2>1, <4>1 DEF Summary, AuInv, AllMade, Made
        <5>2. <<auResult[j].turns, auResult[j].words>> = <<run.turns, run.words>>
          BY <4>1, <5>1 DEF Matches, KeyOf
        <5> QED
          BY <4>1, <5>1, <5>2 DEF Matches
      <4>2. CASE ~(auResult[j] # AuNone /\ auResult[j].key = KeyOf(run)
                     /\ auResult[j].summary # AuNone)
        BY <2>1, <4>2 DEF Summary
      <4> QED
        BY <4>1, <4>2
    <3> QED
      BY <3>1, <3>2 DEF Matches, KeyOf
  <2>5. res.speakers = run.speakers
    OBVIOUS
  <2>6. auResult'[j] = res /\ \A i \in AuJob \ {j} : auResult'[i] = auResult[i]
    BY <1>1, <2>1 DEF AuTypeOK
  <2> HIDE DEF res
  <2>7. AtRest'
    BY <2>2 DEF AuInv, AtRest
  <2>8. ASSUME NEW i \in AuJob
        PROVE  Made(i)'
    <3>1. Made(i)
      BY DEF AuInv, AllMade
    <3>2. auResult'[i] # AuNone => Matches(auResult'[i])
      BY <2>4, <2>6, <3>1 DEF Made
    <3>3. \A v \in Worker : auRun'[i][v] = Gone \/ auRun'[i][v] = auRun[i][v]
      BY <2>3
    <3> QED
      BY <2>2, <3>1, <3>2, <3>3, GoneRun DEF Made, Worker, Matches
  <2>9. ASSUME NEW i \in AuJob \ auCaught
        PROVE  Kept(i)'
    <3>1. Kept(i) /\ Waiting(i)' = Waiting(i) /\ Pending(i)' = Pending(i)
      BY <2>2 DEF AuInv, AllKept, Waiting, Pending
    <3>2. CASE i # j
      BY <1>1, <2>2, <2>3, <2>6, <3>1, <3>2 DEF Kept, There, Worker, Matches, AuTypeOK
    <3>3. CASE i = j
      <4>1. run # Gone
        BY <2>2, GoneRun
      <4>2. w = "own"
        BY <3>1, <3>3, <4>1 DEF Kept, Worker
      <4>3. auNow.job = j /\ run.speakers = auNow.speakers
        BY <4>1, <4>2 DEF AuInv, AllMade, Made
      <4>4. auResult'[i].speakers = auWanted[i] \/ Pending(i)
        BY <2>2, <2>5, <2>6, <3>1, <3>3, <4>3 DEF Kept
      <4>5. Matches(auResult'[i])
        BY <2>4, <2>6, <3>3
      <4>6. auStage'[i] \in {"done", "error"}
        BY <1>1, <2>2, <3>3 DEF AuTypeOK
      <4>7. auRun'[i]["stray"] = Gone
        BY <2>3, <3>1, <3>3, <4>2 DEF Kept, Worker
      <4>8. auNow.speakers = auWanted[i] \/ Pending(i)
        BY <2>2, <3>1, <3>3, <4>3 DEF Kept
      <4> QED
        BY <2>2, <3>1, <3>3, <4>4, <4>5, <4>6, <4>7, <4>8 DEF Kept, Matches
    <3> QED
      BY <3>2, <3>3
  <2> QED
    BY <2>2, <2>7, <2>8, <2>9 DEF AllMade, AllKept
<1>7. ASSUME NEW reported \in BOOLEAN, WorkerFails(j, w, reported)
      PROVE  AtRest' /\ AllMade' /\ AllKept'
  <2>1. /\ Becomes(j, w, Gone)
        /\ auStage' = auStage \/ (There(j) /\ auStage' = [auStage EXCEPT ![j] = "error"])
        /\ UNCHANGED <<auWanted, auResult, auThread, auQueue, auNow, auRequest, auCaught>>
    BY <1>7 DEF WorkerFails, Reports, auKept, auServer, auBounds
  <2>2. /\ auRun' \in [AuJob -> [Worker -> Run]] /\ auRun'[j][w] = Gone
        /\ \A i \in AuJob, v \in Worker : i # j \/ v # w => auRun'[i][v] = auRun[i][v]
    BY <1>1, <2>1, BecomesType
  <2>3. AtRest'
    BY <2>1 DEF AuInv, AtRest
  <2>4. ASSUME NEW i \in AuJob
        PROVE  Made(i)'
    <3>1. Made(i) /\ \A v \in Worker : auRun'[i][v] = Gone \/ auRun'[i][v] = auRun[i][v]
      BY <2>2 DEF AuInv, AllMade
    <3> QED
      BY <2>1, <3>1, GoneRun DEF Made, Worker, Matches
  <2>5. ASSUME NEW i \in AuJob \ auCaught
        PROVE  Kept(i)'
    <3>1. Kept(i) /\ Waiting(i)' = Waiting(i) /\ Pending(i)' = Pending(i)
      BY <2>1 DEF AuInv, AllKept, Waiting, Pending
    <3>2. auStage'[i] = auStage[i] \/ (auStage'[i] = "error" /\ There(i))
      BY <1>1, <2>1 DEF AuTypeOK
    <3>3. auRun'[i]["stray"] = Gone
      BY <2>2, <3>1 DEF Kept, Worker
    <3> QED
      BY <2>1, <3>1, <3>2, <3>3 DEF Kept, There, Matches
  <2> QED
    BY <2>1, <2>3, <2>4, <2>5 DEF AllMade, AllKept
<1> QED
  BY <1>2, <1>3, <1>4, <1>5, <1>6, <1>7

(***************************************************************************)
(* The queue thread.                                                       *)
(***************************************************************************)
LEMMA TypeThread ==
  ASSUME AuTypeOK, NEW j \in AuJob, TakeJob \/ StartWorker(j) \/ ThreadDone(j)
  PROVE  AuTypeOK'
<1>1. CASE TakeJob
  <2>1. auQueue # <<>> /\ auQueue' = Tail(auQueue)
    BY <1>1 DEF TakeJob
  <2>2. auQueue' \in Seq(AuJob) /\ Head(auQueue) \in AuJob
    BY <2>1, TailWaits
  <2>3. auStage' \in [AuJob -> Stage]
    BY <1>1, <2>2 DEF TakeJob, AuTypeOK, Stage
  <2>4. auNow' \in [job : AuJob \cup {AuNone}, speakers : Nat, begun : BOOLEAN]
    <3>1. auWanted[Head(auQueue)] \in Nat
      BY <2>2 DEF AuTypeOK
    <3>2. [job |-> Head(auQueue), speakers |-> auWanted[Head(auQueue)], begun |-> FALSE]
            \in [job : AuJob \cup {AuNone}, speakers : Nat, begun : BOOLEAN]
      BY <2>2, <3>1
    <3> QED
      BY <1>1, <3>2 DEF TakeJob, AuTypeOK
  <2> QED
    BY <1>1, <2>2, <2>3, <2>4 DEF TakeJob, AuTypeOK, auKept, auBounds
<1>2. CASE StartWorker(j)
  <2>1. [Gone EXCEPT !.at = "convert", !.speakers = auNow.speakers] \in Run
    BY DEF Gone, Run, AuTypeOK
  <2>2. auRun' \in [AuJob -> [Worker -> Run]]
    BY <1>2, <2>1, BecomesType DEF StartWorker, Becomes, Worker
  <2>3. auNow' \in [job : AuJob \cup {AuNone}, speakers : Nat, begun : BOOLEAN]
    BY <1>2 DEF StartWorker, AuTypeOK
  <2> QED
    BY <1>2, <2>2, <2>3 DEF StartWorker, AuTypeOK, auDir, auKept, auBounds
<1>3. CASE ThreadDone(j)
  <2>1. auNow' \in [job : AuJob \cup {AuNone}, speakers : Nat, begun : BOOLEAN]
    BY <1>3 DEF ThreadDone, NoJob
  <2>2. auStage' \in [AuJob -> Stage]
    BY <1>3 DEF ThreadDone, AuTypeOK, Stage
  <2> QED
    BY <1>3, <2>1, <2>2 DEF ThreadDone, AuTypeOK, auKept, auBounds
<1> QED
  BY <1>1, <1>2, <1>3

LEMMA InvThread ==
  ASSUME AuInv, NEW j \in AuJob, TakeJob \/ StartWorker(j) \/ ThreadDone(j)
  PROVE  AtRest' /\ AllMade' /\ AllKept'
<1>1. AuTypeOK /\ \A i \in AuJob : Made(i) /\ (i \notin auCaught => Kept(i))
  BY DEF AuInv, AllMade, AllKept
\* a job is taken with the settings it has by now
<1>2. CASE TakeJob
  <2> DEFINE h == Head(auQueue)
  <2>1. /\ auThread /\ auNow = NoJob /\ auQueue # <<>> /\ auQueue' = Tail(auQueue)
        /\ UNCHANGED <<auWanted, auResult, auThread, auRequest, auRun, auCaught>>
    BY <1>2 DEF TakeJob, auKept, auBounds
  <2>2. /\ h \in AuJob /\ \A i \in AuJob : Waiting(i) /\ i # h => Waiting(i)'
    BY <1>1, <2>1, TailWaits
  <2>3. \A i \in AuJob : i # h => (Pending(i) => Pending(i)')
    BY <2>1, <2>2 DEF Pending
  <2>4. AuNone \notin AuJob /\ NoJob.job = AuNone
    BY AuAssumption DEF NoJob
  <2>5. \A i \in AuJob : auRun[i]["own"] = Gone
    BY <1>1, <2>1, <2>4 DEF Made
  <2>6. AllMade'
    BY <1>1, <2>1, <2>5 DEF AllMade, Made, Matches
  <2>7. CASE There(h)
    <3>1. /\ auNow' = [job |-> h, speakers |-> auWanted[h], begun |-> FALSE]
          /\ auStage' = [auStage EXCEPT ![h] = "running"]
      BY <1>2, <2>7 DEF TakeJob
    <3>2. ASSUME NEW i \in AuJob \ auCaught
          PROVE  Kept(i)'
      <4>1. CASE i = h
        BY <1>1, <2>1, <2>2, <3>1, <4>1 DEF Kept, AuTypeOK
      <4>2. CASE i # h
        BY <1>1, <2>1, <2>2, <2>3, <2>4, <3>1, <4>2 DEF Kept, AuTypeOK, Matches, There
      <4> QED
        BY <4>1, <4>2
    <3> QED
      BY <2>1, <2>6, <3>2 DEF AtRest, AllKept
  <2>8. CASE ~There(h)
    <3>1. UNCHANGED <<auNow, auStage>>
      BY <1>2, <2>8 DEF TakeJob
    <3>2. ASSUME NEW i \in AuJob \ auCaught
          PROVE  Kept(i)'
      <4>1. CASE i = h
        BY <1>1, <2>1, <2>4, <2>8, <3>1, <4>1 DEF Kept, There
      <4>2. CASE i # h
        BY <1>1, <2>1, <2>2, <2>3, <2>4, <3>1, <4>2 DEF Kept, Matches, There
      <4> QED
        BY <4>1, <4>2
    <3> QED
      BY <2>1, <2>6, <3>2 DEF AtRest, AllKept
  <2> QED
    BY <2>7, <2>8
<1>3. CASE StartWorker(j)
  <2> DEFINE r == [Gone EXCEPT !.at = "convert", !.speakers = auNow.speakers]
  <2>1. /\ auNow.job = j /\ There(j) /\ Becomes(j, "own", r)
        /\ auNow' = [auNow EXCEPT !.begun = TRUE]
        /\ UNCHANGED <<auStage, auWanted, auResult, auThread, auQueue, auRequest, auCaught>>
    BY <1>3 DEF StartWorker, Becomes, auDir, auBounds
  <2>2. r \in Run /\ r.at = "convert" /\ r.speakers = auNow.speakers /\ "own" \in Worker
    BY <1>1 DEF Gone, Run, AuTypeOK, Worker
  <2>3. /\ auRun'[j]["own"] = r
        /\ \A i \in AuJob, v \in Worker : i # j \/ v # "own" => auRun'[i][v] = auRun[i][v]
    BY <1>1, <2>1, <2>2, BecomesType
  <2>4. auNow'.job = j /\ auNow'.begun /\ auNow'.speakers = auNow.speakers
    BY <1>1, <2>1 DEF AuTypeOK
  <2> HIDE DEF r
  <2>5. j \in AuJob /\ AuNone \notin AuJob
    BY AuAssumption
  <2>6. AtRest'
    BY <2>1, <2>5 DEF AuInv, AtRest, NoJob
  <2>7. ASSUME NEW i \in AuJob
        PROVE  Made(i)'
    <3>1. i # j => auRun[i]["own"] = Gone
      BY <1>1, <2>1 DEF Made
    <3> QED
      BY <1>1, <2>1, <2>2, <2>3, <2>4, <3>1 DEF Made, Worker, Matches
  <2>8. ASSUME NEW i \in AuJob \ auCaught
        PROVE  Kept(i)'
    <3>1. /\ Waiting(i)' = Waiting(i) /\ Pending(i)' = Pending(i)
          /\ auRun'[i]["stray"] = auRun[i]["stray"]
      BY <2>1, <2>3 DEF Waiting, Pending, Worker
    <3> QED
      BY <1>1, <2>1, <2>4, <3>1 DEF Kept, There, Matches
  <2> QED
    BY <2>1, <2>6, <2>7, <2>8 DEF AllMade, AllKept
<1>4. CASE ThreadDone(j)
  <2>1. /\ auNow.job = j /\ auRun[j]["own"] = Gone /\ auNow' = NoJob
        /\ UNCHANGED <<auWanted, auResult, auRun, auThread, auQueue, auRequest, auCaught>>
    BY <1>4 DEF ThreadDone, auKept, auBounds
  <2>2. /\ \/ auStage'[j] = auStage[j] /\ auStage[j] \in {"done", "error", "gone"}
           \/ auStage'[j] = "error"
        /\ \A i \in AuJob \ {j} : auStage'[i] = auStage[i]
    BY <1>1, <1>4 DEF ThreadDone, AuTypeOK
  <2>3. AuNone \notin AuJob /\ NoJob.job = AuNone
    BY AuAssumption DEF NoJob
  <2>4. AtRest'
    BY <2>1 DEF AuInv, AtRest
  <2>5. ASSUME NEW i \in AuJob
        PROVE  Made(i)'
    BY <1>1, <2>1 DEF Made, Matches
  <2>6. ASSUME NEW i \in AuJob \ auCaught
        PROVE  Kept(i)'
    <3>1. Waiting(i)' = Waiting(i) /\ Pending(i)' = Pending(i)
      BY <2>1 DEF Waiting, Pending
    <3>2. CASE i = j
      BY <1>1, <2>1, <2>2, <2>3, <3>1, <3>2 DEF Kept, Matches
    <3>3. CASE i # j
      BY <1>1, <2>1, <2>2, <2>3, <3>1, <3>3 DEF Kept, There, Matches
    <3> QED
      BY <3>2, <3>3
  <2> QED
    BY <2>1, <2>4, <2>5, <2>6 DEF AllMade, AllKept
<1> QED
  BY <1>2, <1>3, <1>4

(***************************************************************************)
(* The routes.                                                             *)
(***************************************************************************)
Routes ==
  \/ SaveDictionary
  \/ \E j \in AuJob : DeleteKills(j) \/ Deleted(j)
  \/ \E j \in AuJob, n \in AuSpeakers : Upload(j, n) \/ RetryAllowed(j, n)
  \/ \E r \in auRequest : RetrySettings(r) \/ RetryQueued(r) \/ RetryFails(r)

LEMMA TypeRoutes ==
  ASSUME AuTypeOK, Routes
  PROVE  AuTypeOK'
<1>1. \A n \in AuSpeakers : n \in Nat
  BY AuAssumption
<1>2. CASE SaveDictionary
  BY <1>2 DEF SaveDictionary, AuTypeOK, auDir, auServer, auBounds
<1>3. ASSUME NEW j \in AuJob, DeleteKills(j)
      PROVE  AuTypeOK'
  <2>1. auRun' \in [AuJob -> [Worker -> Run]]
    BY <1>3, GoneRun DEF DeleteKills, AuTypeOK, Worker
  <2> QED
    BY <1>3, <2>1 DEF DeleteKills, AuTypeOK, auDir, auServer, auBounds
<1>4. ASSUME NEW j \in AuJob, Deleted(j)
      PROVE  AuTypeOK'
  BY <1>4 DEF Deleted, AuTypeOK, auServer, auBounds, Stage
<1>5. ASSUME NEW j \in AuJob, NEW n \in AuSpeakers, Upload(j, n)
      PROVE  AuTypeOK'
  <2>1. auQueue' \in Seq(AuJob)
    BY <1>5 DEF Upload, AuTypeOK
  <2> QED
    BY <1>1, <1>5, <2>1 DEF Upload, AuTypeOK, auKept, auBounds, Stage
<1>6. ASSUME NEW j \in AuJob, NEW n \in AuSpeakers, RetryAllowed(j, n)
      PROVE  AuTypeOK'
  <2>1. [job |-> j, speakers |-> n, id |-> auRetried] \in Asked /\ auRetried + 1 \in Nat
    BY <1>1 DEF Asked, AuTypeOK
  <2> QED
    BY <1>6, <2>1 DEF RetryAllowed, AuTypeOK, auDir, auBounds
<1>7. ASSUME NEW r \in auRequest, RetrySettings(r) \/ RetryQueued(r) \/ RetryFails(r)
      PROVE  AuTypeOK'
  <2>1. r \in Asked
    BY DEF AuTypeOK
  <2>2. [r EXCEPT !.speakers = 0] \in Asked /\ r.job \in AuJob /\ r.speakers \in Nat
    BY <2>1 DEF Asked
  <2>3. auRequest' \subseteq Asked
    BY <1>7, <2>2 DEF RetrySettings, RetryQueued, RetryFails, AuTypeOK
  <2>4. auQueue' \in Seq(AuJob)
    <3>1. auQueue' = auQueue \/ auQueue' = Append(auQueue, r.job)
      BY <1>7 DEF RetrySettings, RetryQueued, RetryFails
    <3> HIDE DEF Asked
    <3> QED
      BY <2>2, <3>1, AppendWaits DEF AuTypeOK
  <2>5. auWanted' \in [AuJob -> Nat] /\ auStage' \in [AuJob -> Stage]
    BY <1>7, <2>2 DEF RetrySettings, RetryQueued, RetryFails, AuTypeOK, auDir, Stage
  <2>6. UNCHANGED <<auKept, auWords, auThread, auNow, auRun, auBounds>>
    BY <1>7 DEF RetrySettings, RetryQueued, RetryFails, auDir, auKept
  <2> QED
    BY <2>3, <2>4, <2>5, <2>6 DEF AuTypeOK, auKept, auBounds
<1> QED
  BY <1>2, <1>3, <1>4, <1>5, <1>6, <1>7 DEF Routes

LEMMA InvRoutes ==
  ASSUME AuInv, Routes
  PROVE  AtRest' /\ AllMade' /\ AllKept'
<1>1. AuTypeOK /\ \A i \in AuJob : Made(i) /\ (i \notin auCaught => Kept(i))
  BY DEF AuInv, AllMade, AllKept
\* no worker and no result is touched
<1>2. ASSUME UNCHANGED <<auNow, auThread, auRun, auResult, auCaught>>,
             auThread \/ UNCHANGED <<auQueue, auRequest>>,
             \A i \in AuJob \ auCaught : Kept(i)'
      PROVE  AtRest' /\ AllMade' /\ AllKept'
  <2>1. AllMade'
    BY <1>1, <1>2 DEF AllMade, Made, Matches
  <2>2. AtRest'
    BY <1>2 DEF AuInv, AtRest
  <2> QED
    BY <1>2, <2>1, <2>2 DEF AllKept
\* what a job of which neither stage nor settings change has to keep
<1>3. ASSUME NEW i \in AuJob \ auCaught,
             UNCHANGED <<auNow, auThread, auRun, auResult>>,
             auStage'[i] = auStage[i], auWanted'[i] = auWanted[i],
             Waiting(i) => Waiting(i)', There(i) => (Pending(i) => Pending(i)')
      PROVE  Kept(i)'
  BY <1>1, <1>3 DEF Kept, There, Matches
<1>4. CASE SaveDictionary
  <2>1. UNCHANGED <<auNow, auThread, auRun, auResult, auCaught, auQueue, auRequest, auStage, auWanted>>
    BY <1>4 DEF SaveDictionary, auDir, auServer, auBounds
  <2>2. \A i \in AuJob : Waiting(i)' = Waiting(i) /\ Pending(i)' = Pending(i)
    BY <2>1 DEF Waiting, Pending
  <2> QED
    BY <1>2, <1>3, <2>1, <2>2
<1>5. ASSUME NEW j \in AuJob, DeleteKills(j)
      PROVE  AtRest' /\ AllMade' /\ AllKept'
  <2>1. /\ auRun' = [auRun EXCEPT ![j]["own"] = Gone]
        /\ UNCHANGED <<auNow, auThread, auResult, auCaught, auQueue, auRequest, auStage, auWanted>>
    BY <1>5 DEF DeleteKills, auDir, auServer, auBounds
  <2>2. Becomes(j, "own", Gone) /\ "own" \in Worker
    BY <2>1 DEF Becomes, Worker
  <2>3. /\ auRun'[j]["own"] = Gone
        /\ \A i \in AuJob, v \in Worker : i # j \/ v # "own" => auRun'[i][v] = auRun[i][v]
    BY <1>1, <2>2, GoneRun, BecomesType
  <2>4. \A i \in AuJob : Waiting(i)' = Waiting(i) /\ Pending(i)' = Pending(i)
    BY <2>1 DEF Waiting, Pending
  <2>5. ASSUME NEW i \in AuJob
        PROVE  Made(i)'
    BY <1>1, <2>1, <2>3, GoneRun DEF Made, Worker, Matches
  <2>6. ASSUME NEW i \in AuJob \ auCaught
        PROVE  Kept(i)'
    BY <1>1, <2>1, <2>3, <2>4 DEF Kept, There, Worker, Matches
  <2>7. AtRest'
    BY <2>1 DEF AuInv, AtRest
  <2> QED
    BY <2>1, <2>5, <2>6, <2>7 DEF AllMade, AllKept
\* nothing is left of the directory, and nothing works in it
<1>6. ASSUME NEW j \in AuJob, Deleted(j)
      PROVE  AtRest' /\ AllMade' /\ AllKept'
  <2>1. /\ auStage' = [auStage EXCEPT ![j] = "gone"] /\ auWanted' = [auWanted EXCEPT ![j] = 0]
        /\ auResult' = [auResult EXCEPT ![j] = AuNone]
        /\ UNCHANGED <<auNow, auThread, auRun, auCaught, auQueue, auRequest>>
    BY <1>6 DEF Deleted, auServer, auBounds
  <2>2. /\ auStage'[j] = "gone" /\ auResult'[j] = AuNone
        /\ \A i \in AuJob \ {j} : /\ auStage'[i] = auStage[i] /\ auWanted'[i] = auWanted[i]
                                  /\ auResult'[i] = auResult[i]
    BY <1>1, <2>1 DEF AuTypeOK
  <2>3. \A i \in AuJob : Waiting(i)' = Waiting(i) /\ Pending(i)' = Pending(i)
    BY <2>1 DEF Waiting, Pending
  <2>4. ASSUME NEW i \in AuJob
        PROVE  Made(i)'
    <3>1. Made(i)
      BY <1>1
    <3>2. auResult'[i] = AuNone \/ auResult'[i] = auResult[i]
      BY <2>2
    <3> QED
      BY <2>1, <3>1, <3>2 DEF Made, Matches
  <2>5. ASSUME NEW i \in AuJob \ auCaught
        PROVE  Kept(i)'
    BY ZenonT(60), <1>1, <2>1, <2>2, <2>3 DEF Kept, There, Matches
  <2>6. AtRest'
    BY <2>1 DEF AuInv, AtRest
  <2> QED
    BY <2>1, <2>4, <2>5, <2>6 DEF AllMade, AllKept
<1>7. ASSUME NEW j \in AuJob, NEW n \in AuSpeakers, Upload(j, n)
      PROVE  AtRest' /\ AllMade' /\ AllKept'
  <2>1. /\ auThread /\ auStage' = [auStage EXCEPT ![j] = "queued"]
        /\ auWanted' = [auWanted EXCEPT ![j] = n] /\ auQueue' = Append(auQueue, j)
        /\ UNCHANGED <<auNow, auThread, auRun, auResult, auCaught, auRequest>>
    BY <1>7 DEF Upload, auKept, auBounds
  <2>2. Waiting(j)' /\ \A i \in AuJob : Waiting(i) => Waiting(i)'
    BY <1>1, <2>1, AppendWaits
  <2>3. \A i \in AuJob : Pending(i) => Pending(i)'
    BY <2>1, <2>2 DEF Pending
  <2>4. ASSUME NEW i \in AuJob \ auCaught
        PROVE  Kept(i)'
    <3>1. CASE i = j
      <4>1. auStage'[i] = "queued" /\ Waiting(i)' /\ Pending(i)'
        BY <1>1, <2>1, <2>2, <3>1 DEF AuTypeOK, Pending
      <4> QED
        BY <1>1, <2>1, <4>1 DEF Kept
    <3>2. CASE i # j
      BY <1>1, <1>3, <2>1, <2>2, <2>3, <3>2 DEF AuTypeOK
    <3> QED
      BY <3>1, <3>2
  <2> QED
    BY <1>2, <2>1, <2>4
<1>8. ASSUME NEW j \in AuJob, NEW n \in AuSpeakers, RetryAllowed(j, n)
      PROVE  AtRest' /\ AllMade' /\ AllKept'
  <2>1. /\ auThread /\ auRequest \subseteq auRequest'
        /\ UNCHANGED <<auNow, auThread, auRun, auResult, auCaught, auQueue, auStage, auWanted>>
    BY <1>8 DEF RetryAllowed, auDir
  <2>2. \A i \in AuJob : Waiting(i)' = Waiting(i) /\ (Pending(i) => Pending(i)')
    BY <2>1 DEF Waiting, Pending
  <2> QED
    BY <1>2, <1>3, <2>1, <2>2
<1>9. ASSUME NEW r \in auRequest, RetrySettings(r) \/ RetryQueued(r) \/ RetryFails(r)
      PROVE  AtRest' /\ AllMade' /\ AllKept'
  <2>1. r.job \in AuJob /\ r.speakers \in Nat /\ auThread
    <3>1. r \in Asked
      BY <1>1 DEF AuTypeOK
    <3>2. auThread
      BY <1>1 DEF AuInv, AtRest, AuTypeOK
    <3> QED
      BY <3>1, <3>2 DEF Asked
  \* from here on the job will be queued
  <2>2. CASE RetrySettings(r)
    <3> DEFINE q == [r EXCEPT !.speakers = 0]
    <3>1. /\ r.speakers # 0 /\ auWanted' = [auWanted EXCEPT ![r.job] = r.speakers]
          /\ auRequest' = (auRequest \ {r}) \cup {q}
          /\ UNCHANGED <<auNow, auThread, auRun, auResult, auCaught, auQueue, auStage>>
      BY <2>2 DEF RetrySettings, auKept, auBounds
    <3>2. q.job = r.job /\ q.speakers = 0
      BY <1>1 DEF AuTypeOK, Asked
    <3> HIDE DEF q
    <3>3. \A i \in AuJob : Waiting(i)' = Waiting(i)
      BY <3>1 DEF Waiting
    <3>4. Pending(r.job)'
      BY <3>1, <3>2 DEF Pending
    <3>5. \A i \in AuJob : Pending(i) => Pending(i)'
      BY <3>1, <3>3 DEF Pending
    <3>6. ASSUME NEW i \in AuJob \ auCaught
          PROVE  Kept(i)'
      <4>1. CASE i = r.job
        BY <1>1, <3>1, <3>3, <3>4, <4>1 DEF Kept, There, Matches
      <4>2. CASE i # r.job
        BY <1>1, <1>3, <2>1, <3>1, <3>3, <3>5, <4>2 DEF AuTypeOK
      <4> QED
        BY <4>1, <4>2
    <3> QED
      BY <1>2, <2>1, <3>1, <3>6
  <2>3. CASE RetryQueued(r)
    <3>1. /\ auStage' = [auStage EXCEPT ![r.job] = "queued"]
          /\ auQueue' = Append(auQueue, r.job) /\ auRequest' = auRequest \ {r}
          /\ UNCHANGED <<auNow, auThread, auRun, auResult, auCaught, auWanted>>
      BY <2>3 DEF RetryQueued, auKept, auBounds
    <3>2. Waiting(r.job)' /\ \A i \in AuJob : Waiting(i) => Waiting(i)'
      BY <1>1, <2>1, <3>1, AppendWaits
    <3>3. \A i \in AuJob : Pending(i) => Pending(i)'
      BY <3>1, <3>2 DEF Pending
    <3>4. ASSUME NEW i \in AuJob \ auCaught
          PROVE  Kept(i)'
      <4>1. CASE i = r.job
        <5>1. auStage'[i] = "queued" /\ Waiting(i)' /\ Pending(i)'
          BY <1>1, <2>1, <3>1, <3>2, <4>1 DEF AuTypeOK, Pending
        <5> QED
          BY <1>1, <3>1, <5>1 DEF Kept
      <4>2. CASE i # r.job
        BY <1>1, <1>3, <2>1, <3>1, <3>2, <3>3, <4>2 DEF AuTypeOK
      <4> QED
        BY <4>1, <4>2
    <3> QED
      BY <1>2, <2>1, <3>1, <3>4
  <2>4. CASE RetryFails(r)
    <3>1. /\ ~There(r.job) /\ auRequest' = auRequest \ {r}
          /\ UNCHANGED <<auNow, auThread, auRun, auResult, auCaught, auQueue, auStage, auWanted>>
      BY <2>4 DEF RetryFails, auDir, auBounds
    <3>2. \A i \in AuJob : Waiting(i)' = Waiting(i)
      BY <3>1 DEF Waiting
    <3>3. \A i \in AuJob : i # r.job => (Pending(i) => Pending(i)')
      BY <3>1, <3>2 DEF Pending
    <3> QED
      BY <1>2, <1>3, <2>1, <3>1, <3>2, <3>3
  <2> QED
    BY <1>9, <2>2, <2>3, <2>4
<1> QED
  BY <1>4, <1>5, <1>6, <1>7, <1>8, <1>9 DEF Routes

(***************************************************************************)
(* The server comes up and goes down.                                      *)
(***************************************************************************)
LEMMA InvServer ==
  ASSUME AuInv, EnsureWorker \/ Restart
  PROVE  AuTypeOK' /\ AtRest' /\ AllMade' /\ AllKept'
<1>1. AuTypeOK /\ \A i \in AuJob : Made(i) /\ (i \notin auCaught => Kept(i))
  BY DEF AuInv, AllMade, AllKept
<1>2. CASE EnsureWorker
  <2> DEFINE waits == {j \in AuJob : auStage[j] = "queued"}
  <2>1. PICK order \in [1..Cardinality(waits) -> AuJob] :
          {order[i] : i \in DOMAIN order} = waits /\ auQueue' = order
    BY <1>2 DEF EnsureWorker
  <2>2. Cardinality(waits) \in Nat
    <3>1. waits \subseteq AuJob /\ IsFiniteSet(AuJob)
      BY AuAssumption
    <3> QED
      BY <3>1, FS_Subset, FS_CardinalityType
  <2> HIDE DEF waits
  <2>3. auQueue' \in Seq(AuJob)
    BY <2>1, <2>2
  <2>4. /\ ~auThread /\ auThread' = TRUE /\ auStage' = [j \in AuJob |-> Restaged(j)]
        /\ UNCHANGED <<auWanted, auKept, auWords, auNow, auRequest, auRun, auBounds>>
    BY <1>2 DEF EnsureWorker
  <2>5. \A i \in AuJob : Restaged(i) \in Stage /\ Restaged(i) # "running"
    BY <1>1 DEF Restaged, AuTypeOK, Stage
  <2>6. AuTypeOK'
    BY <1>1, <2>3, <2>4, <2>5 DEF AuTypeOK, auKept, auBounds
  <2>7. AllMade'
    BY <1>1, <2>4 DEF AllMade, Made, Matches, auKept
  <2>8. auNow = NoJob /\ auQueue = <<>> /\ auRequest = {}
    BY <2>4 DEF AuInv, AtRest
  <2>9. ASSUME NEW i \in AuJob \ auCaught
        PROVE  Kept(i)'
    <3>1. auStage'[i] = "queued" => Waiting(i)'
      <4>1. auStage'[i] = "queued" => i \in waits
        BY <2>4 DEF Restaged, waits
      <4> QED
        BY <2>1, <4>1 DEF Waiting
    <3>2. auStage'[i] # "running"
      BY <2>4, <2>5
    <3>3. auNow'.job # i
      BY <2>4, <2>8, AuAssumption DEF NoJob
    <3>4. ~Pending(i)
      BY <2>8 DEF Pending, Waiting
    <3>5. auStage'[i] = "done" => auStage[i] = "done"
      BY <2>4 DEF Restaged
    <3> QED
      BY <1>1, <2>4, <3>1, <3>2, <3>3, <3>4, <3>5 DEF Kept, Matches, auKept
  <2>10. AtRest'
    BY <2>4 DEF AtRest
  <2> QED
    BY <2>4, <2>6, <2>7, <2>9, <2>10 DEF AllKept, auBounds
\* the queue and the requests are lost, and a worker goes on by itself
<1>3. CASE Restart
  <2>1. /\ auThread' = FALSE /\ auQueue' = <<>> /\ auNow' = NoJob /\ auRequest' = {}
        /\ auCaught' = auCaught \cup {j \in AuJob : auRun[j]["own"] # Gone}
                         \cup {r.job : r \in {q \in auRequest : q.speakers = 0}}
                         \cup {j \in AuJob : Waiting(j) /\ auStage[j] # "queued"}
        /\ UNCHANGED <<auDir, auWords, auRetried>>
    BY <1>3 DEF Restart
  <2>2. auRun' = [j \in AuJob |-> IF auRun[j]["own"] = Gone THEN auRun[j]
                    ELSE [w \in Worker |-> IF w = "own" THEN Gone ELSE auRun[j]["own"]]]
    BY <1>3 DEF Restart
  <2>3. \A i \in AuJob : /\ auRun'[i]["own"] = Gone
                         /\ auRun'[i]["stray"] \in {auRun[i]["own"], auRun[i]["stray"]}
                         /\ auRun[i]["own"] = Gone => auRun'[i]["stray"] = auRun[i]["stray"]
    BY <2>2 DEF Worker
  <2>4. auRun' \in [AuJob -> [Worker -> Run]]
    BY <1>1, <2>2, GoneRun DEF AuTypeOK, Worker
  <2>5. AuTypeOK'
    <3>1. auNow' \in [job : AuJob \cup {AuNone}, speakers : Nat, begun : BOOLEAN]
      BY <2>1 DEF NoJob
    <3>2. auCaught' \subseteq AuJob
      BY <1>1, <2>1 DEF AuTypeOK, Asked
    <3>3. auQueue' \in Seq(AuJob) /\ auRequest' \subseteq Asked
      BY <2>1, <<>> \in Seq(AuJob)
    <3>4. auThread' \in BOOLEAN
      BY <2>1, Zenon
    <3>5. /\ auStage' = auStage /\ auWanted' = auWanted /\ auHeard' = auHeard /\ auTurns' = auTurns
          /\ auResult' = auResult /\ auWav' = auWav /\ auWords' = auWords /\ auRetried' = auRetried
      BY <2>1 DEF auDir
    <3> HIDE DEF Asked
    <3> QED
      BY <1>1, <2>4, <3>1, <3>2, <3>3, <3>5, <3>4 DEF AuTypeOK
  <2>6. ASSUME NEW i \in AuJob
        PROVE  Made(i)'
    <3>1. auResult'[i] # AuNone => Matches(auResult'[i])
      BY <1>1, <2>1 DEF Made, auDir
    <3>2. \A w \in Worker : auRun'[i][w].at = "sum" => auRun'[i][w].turns \in {0, auRun'[i][w].speakers}
      BY <1>1, <2>3, GoneRun DEF Made, Worker
    <3> QED
      BY <2>3, <3>1, <3>2 DEF Made, Matches
  <2>7. ASSUME NEW i \in AuJob \ auCaught'
        PROVE  Kept(i)'
    <3>1. /\ i \notin auCaught /\ auRun[i]["own"] = Gone
          /\ \A r \in auRequest : ~(r.job = i /\ r.speakers = 0)
          /\ auStage[i] # "queued" => ~Waiting(i)
      BY <2>1
    <3>2. Kept(i) /\ (auStage[i] = "done" => ~Pending(i))
      BY <1>1, <3>1 DEF Pending
    <3>3. auNow'.job # i
      BY <2>1, AuAssumption DEF NoJob
    <3> QED
      BY <2>1, <2>3, <3>1, <3>2, <3>3 DEF Kept, Matches, auDir
  <2> QED
    BY <2>1, <2>5, <2>6, <2>7 DEF AtRest, AllMade, AllKept
<1> QED
  BY <1>2, <1>3

LEMMA AuStep == AuInv /\ [AuNext]_AuVars => AuInv'
<1> SUFFICES ASSUME AuInv, [AuNext]_AuVars
             PROVE  AuInv'
  OBVIOUS
<1>1. AuTypeOK
  BY DEF AuInv
<1>2. CASE UNCHANGED AuVars
  <2>1. AuTypeOK'
    BY <1>1, <1>2 DEF AuTypeOK, AuVars, auDir, auServer, auBounds
  <2>2. \A i \in AuJob : Waiting(i)' = Waiting(i) /\ Pending(i)' = Pending(i)
    BY <1>2 DEF AuVars, auServer, Waiting, Pending
  <2>3. AtRest' /\ AllMade'
    BY <1>2 DEF AuInv, AtRest, AllMade, Made, Matches, AuVars, auDir, auServer
  <2>4. AllKept'
    BY <1>2, <2>2 DEF AuInv, AllKept, Kept, There, Matches, AuVars, auDir, auServer, auBounds
  <2> QED
    BY <2>1, <2>3, <2>4 DEF AuInv
<1>3. CASE EnsureWorker \/ Restart
  BY <1>3, InvServer DEF AuInv
<1>4. ASSUME NEW j \in AuJob, StartWorker(j) \/ ThreadDone(j)
      PROVE  AuInv'
  BY <1>1, <1>4, TypeThread, InvThread DEF AuInv
<1>5. CASE Routes
  BY <1>1, <1>5, TypeRoutes, InvRoutes DEF AuInv
<1>6. ASSUME NEW j \in AuJob, NEW w \in Worker,
             \/ Convert(j, w) \/ ReadWords(j, w) \/ Listen(j, w) \/ Diarize(j, w) \/ Finish(j, w)
             \/ \E reported \in BOOLEAN : WorkerFails(j, w, reported)
      PROVE  AuInv'
  BY <1>1, <1>6, TypeWorker, InvWorker DEF AuInv
<1>7. CASE TakeJob
  <2>1. PICK j \in AuJob : TRUE
    <3>1. Head(auQueue) \in AuJob
      BY <1>1, <1>7, TailWaits DEF TakeJob
    <3> QED
      BY <3>1
  <2> QED
    BY <1>1, <1>7, <2>1, TypeThread, InvThread DEF AuInv
<1> QED
  BY <1>2, <1>3, <1>4, <1>5, <1>6, <1>7 DEF AuNext, Routes

LEMMA AuStart == AuInit => AuInv
<1> SUFFICES ASSUME AuInit
             PROVE  AuInv
  OBVIOUS
<1>1. auRun = [j \in AuJob |-> [w \in Worker |-> Gone]]
  BY DEF AuInit
<1>2. AuTypeOK
  <2>1. auNow \in [job : AuJob \cup {AuNone}, speakers : Nat, begun : BOOLEAN]
    BY DEF AuInit, NoJob
  <2>2. auRun \in [AuJob -> [Worker -> Run]]
    BY <1>1, GoneRun
  <2>3. auQueue \in Seq(AuJob) /\ auRequest \subseteq Asked /\ auCaught \subseteq AuJob
    BY DEF AuInit
  <2> QED
    BY <2>1, <2>2, <2>3 DEF AuInit, AuTypeOK, Stage
<1>3. ASSUME NEW j \in AuJob
      PROVE  Made(j) /\ Kept(j)
  <2>1. \A w \in Worker : auRun[j][w] = Gone
    BY <1>1
  <2>2. auResult[j] = AuNone /\ auStage[j] = "none" /\ auNow.job # j
    BY AuAssumption DEF AuInit, NoJob
  <2> QED
    BY <2>1, <2>2, GoneRun DEF Made, Kept, There, Worker
<1>4. AtRest
  BY DEF AtRest, AuInit
<1> QED
  BY <1>2, <1>3, <1>4 DEF AuInv, AllMade, AllKept

LEMMA AuImplies == AuInv => AudioRight
<1> SUFFICES ASSUME AuInv, NEW j \in AuJob \ auCaught
             PROVE  /\ auThread /\ auStage[j] \in {"queued", "running"} => ~Settled(j)
                    /\ auStage[j] = "done" /\ Settled(j) =>
                         /\ auResult[j].speakers = auWanted[j]
                         /\ auResult[j].turns \in {0, auWanted[j]}
                         /\ auResult[j].summary # AuNone =>
                              auResult[j].summary = [turns |-> auResult[j].turns,
                                                     words |-> auResult[j].words]
  BY DEF AudioRight, NeverForgotten, ResultOfSettings
<1>1. Kept(j)
  BY DEF AuInv, AllKept
<1>2. Settled(j) => ~Pending(j) /\ auNow.job # j
  BY DEF Settled, Pending
<1> QED
  BY <1>1, <1>2 DEF Kept, Matches, Settled

\* However many recordings are uploaded, retried with other settings, deleted and
\* worked at, and wherever the server stops and a worker fails: a job the page shows
\* as queued or running is with the queue thread (_worker_loop), and a job that is
\* done shows a result of its own settings, the summary being of the transcript
\* beside it (worker.py, the three caches).  Set aside are the jobs of auCaught.
THEOREM AnalysisAsAsked == AuSpec => []AudioRight
<1>1. AuSpec => []AuInv
  BY AuStart, AuStep, PTL DEF AuSpec
<1> QED
  BY <1>1, AuImplies, PTL

(***************************************************************************)
(* The scripts of the scheduler.  A script of the pool of threads that is  *)
(* alive while the clean-up kills is one it has listed and not yet killed, *)
(* or one that was registered after its list was made.                     *)
(***************************************************************************)
BpWhere == {"up", "shut", "killing", "closing", "down"}
Alive == {j \in BpScripted : bpChild[j] # "no"}
BpInv ==
  /\ bpServer \in BpWhere
  /\ bpChild \in [BpScripted -> {"no", "started", "listed"}]
  /\ bpServer \in {"killing", "closing"} => Alive \subseteq bpVictims \cup bpLate \cup BpCpu
  /\ bpServer = "closing" => bpVictims = {}
  /\ bpServer # "down" => bpLeft = {}
  /\ StopLeavesOnlyUnknown

LEMMA BpStart == BpInit => BpInv
  BY DEF BpInit, BpInv, BpWhere, StopLeavesOnlyUnknown

LEMMA BpKept == BpInv /\ [BpNext]_BpVars => BpInv'
<1> SUFFICES ASSUME BpInv, [BpNext]_BpVars PROVE BpInv'
  OBVIOUS
<1> USE DEF BpInv, BpWhere, Alive, StopLeavesOnlyUnknown, bpStop, bpWork, bpMemory
<1>1. CASE UNCHANGED BpVars
  BY <1>1 DEF BpVars
<1>2. ASSUME NEW j \in BpJobs, JobDue(j) \/ GraceOver(j) \/ JobBegins(j) \/ JobEnds(j) PROVE BpInv'
  <2>1. UNCHANGED <<bpStop, bpChild, bpOrphan, bpLate, bpMemory>>
    BY <1>2 DEF JobDue, GraceOver, JobBegins, JobEnds
  <2> QED
    BY <2>1
<1>3. ASSUME NEW j \in BpScripted, Spawn(j) PROVE BpInv'
  BY <1>3 DEF Spawn
<1>4. ASSUME NEW j \in BpScripted, Enlist(j) PROVE BpInv'
  BY <1>4 DEF Enlist
<1>5. ASSUME NEW j \in BpScripted, ScriptEnds(j) PROVE BpInv'
  BY <1>5 DEF ScriptEnds
<1>6. ASSUME NEW j \in BpScripted, KillVictim(j) PROVE BpInv'
  BY <1>6 DEF KillVictim
<1>7. ASSUME NEW j \in BpScripted, OrphanEnds(j) PROVE BpInv'
  BY <1>7 DEF OrphanEnds
<1>8. CASE StopSignal
  BY <1>8 DEF StopSignal
<1>9. CASE ListVictims
  BY <1>9 DEF ListVictims, BpScripted
<1>10. CASE KilledAll
  BY <1>10 DEF KilledAll
<1>11. ASSUME NEW clean \in BOOLEAN, ServerGone(clean) PROVE BpInv'
  <2>1. /\ bpServer \in BpWhere \ {"down"} /\ (clean => bpServer = "closing")
        /\ bpServer' = "down" /\ bpVictims' = {} /\ bpChild' = [j \in BpScripted |-> "no"]
        /\ bpLeft' = bpLeft \cup Alive /\ bpLate' = bpLate /\ bpClean' = clean
    BY <1>11 DEF ServerGone
  <2> QED
    BY <2>1
<1>12. ASSUME NEW young \in SUBSET BpScripted, ServerStarts(young) PROVE BpInv'
  BY <1>12 DEF ServerStarts
<1> QED
  BY <1>1, <1>2, <1>3, <1>4, <1>5, <1>6, <1>7, <1>8, <1>9, <1>10, <1>11, <1>12 DEF BpNext

\* kill_all_active_processes: for any jobs, workers and restarts, after a stop by a signal the
\* only scripts alive are those started since the clean-up made its list and those of the pool of
\* processes, whose registry is elsewhere; a script that was registered in time is never left.
THEOREM StopKillsWhatItKnew == BpSpec => []StopLeavesOnlyUnknown
<1>1. BpInv => StopLeavesOnlyUnknown
  BY DEF BpInv
<1> QED
  BY <1>1, BpStart, BpKept, PTL DEF BpSpec

(***************************************************************************)
(* The cache of the account page.  Who looks again, fetches or stores has  *)
(* the lock of the key, so that nobody brings an answer while another      *)
(* fetches it; and what is in the cache, or is being fetched, has all      *)
(* orders that are answered, but for the keys that were caught.            *)
(***************************************************************************)
DcEntry == [value : Int, age : Nat]
DcTypes ==
  /\ dcAccount \in Nat /\ dcAnswered \in Nat /\ dcAnswered <= dcAccount
  /\ dcCache \in [DcKeys -> DcEntry] /\ dcLock \in [DcKeys -> DcThread \cup {NoThread}]
  /\ dcAt \in [DcThread -> {"idle", "look", "wait", "again", "fetch", "store", "drop"}]
  /\ dcKey \in [DcThread -> DcKeys] /\ dcOuter \in [DcThread -> BOOLEAN]
  /\ dcGot \in [DcThread -> [DcKeys -> Int]] /\ dcTold \in [DcThread -> Nat]
DcLocks ==
  /\ \A t \in DcThread : dcAt[t] \in {"again", "fetch", "store"} => dcLock[dcKey[t]] = t
  /\ \A t \in DcThread : dcOuter[t] =>
       /\ dcKey[t] = "unfilled" /\ dcLock["holdings"] = t
       /\ dcAt[t] \in {"look", "wait", "again", "fetch", "store"}
  /\ \A t \in DcThread : dcAt[t] = "fetch" => ~Fresh(dcKey[t])
DcAnswers ==
  /\ \A k \in DcKeys \ dcCaught : dcCache[k] # Empty => dcAnswered <= dcCache[k].value
  /\ \A t \in DcThread : dcTold[t] <= dcAnswered
  /\ \A t \in DcThread : \A k \in Fetching(t) :
       ~(dcAt[t] = "fetch" /\ k = dcKey[t]) =>
         dcGot[t][k] # -1 /\ (k \notin dcCaught => dcAnswered <= dcGot[t][k])
  /\ \A t \in DcThread, k \in DcKeys \ dcCaught : dcGot[t][k] # -1 => dcTold[t] <= dcGot[t][k]
DcInv == DcTypes /\ DcLocks /\ DcAnswers

LEMMA DcSafe == DcInv => OrderShownUnlessCaught
  BY DEF DcInv, DcTypes, DcAnswers, OrderShownUnlessCaught

LEMMA EmptyIsEntry == Empty \in DcEntry /\ Empty.value = -1
  BY DEF Empty, DcEntry

LEMMA DcStart == DcInit => DcInv
<1> SUFFICES ASSUME DcInit PROVE DcInv
  OBVIOUS
<1>1. DcTypes
  BY EmptyIsEntry DEF DcInit, DcTypes, DcKeys, DcEntry
<1>2. DcLocks
  BY DEF DcInit, DcLocks
<1>3. DcAnswers
  BY DEF DcInit, DcAnswers, Fetching
<1> QED
  BY <1>1, <1>2, <1>3 DEF DcInv

\* The caller has the value.
LEMMA ReturnsType ==
  ASSUME DcTypes, DcLocks, NEW t \in DcThread, NEW value \in Int, Returns(t, dcKey[t], value)
  PROVE  /\ dcAt' \in [DcThread -> {"idle", "look", "wait", "again", "fetch", "store", "drop"}]
         /\ dcKey' \in [DcThread -> DcKeys] /\ dcOuter' \in [DcThread -> BOOLEAN]
         /\ dcGot' \in [DcThread -> [DcKeys -> Int]]
         /\ dcGot'[t][dcKey[t]] = value /\ \A k \in DcKeys \ {dcKey[t]} : dcGot'[t][k] = dcGot[t][k]
         /\ ~dcOuter'[t]
         /\ dcOuter[t] => dcAt'[t] = "store" /\ dcKey'[t] = "holdings"
         /\ ~dcOuter[t] => dcAt'[t] = "idle" /\ dcKey'[t] = dcKey[t]
         /\ \A s \in DcThread \ {t} : /\ dcAt'[s] = dcAt[s] /\ dcKey'[s] = dcKey[s]
                                       /\ (dcOuter'[s] <=> dcOuter[s]) /\ dcGot'[s] = dcGot[s]
<1>1. dcGot' = [dcGot EXCEPT ![t][dcKey[t]] = value]
  BY DEF Returns
<1>2. /\ dcGot' \in [DcThread -> [DcKeys -> Int]]
      /\ dcGot'[t][dcKey[t]] = value /\ \A k \in DcKeys \ {dcKey[t]} : dcGot'[t][k] = dcGot[t][k]
      /\ \A s \in DcThread \ {t} : dcGot'[s] = dcGot[s]
  BY <1>1 DEF DcTypes
<1>3. CASE dcOuter[t]
  <2>1. dcAt' = [dcAt EXCEPT ![t] = "store"]
    BY <1>3 DEF Returns, GoTo
  <2>2. dcKey' = [dcKey EXCEPT ![t] = "holdings"]
    BY <1>3 DEF Returns
  <2>3. dcOuter' = [dcOuter EXCEPT ![t] = FALSE]
    BY <1>3 DEF Returns
  <2>4. /\ dcAt' \in [DcThread -> {"idle", "look", "wait", "again", "fetch", "store", "drop"}]
        /\ dcAt'[t] = "store" /\ \A s \in DcThread \ {t} : dcAt'[s] = dcAt[s]
    BY <2>1 DEF DcTypes
  <2>5. /\ dcKey' \in [DcThread -> DcKeys]
        /\ dcKey'[t] = "holdings" /\ \A s \in DcThread \ {t} : dcKey'[s] = dcKey[s]
    BY <2>2 DEF DcTypes, DcKeys
  <2>6. /\ dcOuter' \in [DcThread -> BOOLEAN]
        /\ ~dcOuter'[t] /\ \A s \in DcThread \ {t} : dcOuter'[s] <=> dcOuter[s]
    BY <2>3 DEF DcTypes
  <2> QED
    BY <1>2, <1>3, <2>4, <2>5, <2>6
<1>4. CASE ~dcOuter[t]
  <2>1. dcAt' = [dcAt EXCEPT ![t] = "idle"] /\ dcKey' = dcKey /\ dcOuter' = dcOuter
    BY <1>4 DEF Returns, GoTo
  <2>2. /\ dcAt' \in [DcThread -> {"idle", "look", "wait", "again", "fetch", "store", "drop"}]
        /\ dcAt'[t] = "idle" /\ \A s \in DcThread \ {t} : dcAt'[s] = dcAt[s]
    BY <2>1 DEF DcTypes
  <2>3. dcKey' \in [DcThread -> DcKeys] /\ dcOuter' \in [DcThread -> BOOLEAN]
    BY <2>1 DEF DcTypes
  <2> QED
    BY <1>2, <1>4, <2>1, <2>2, <2>3
<1> QED
  BY <1>3, <1>4


\* Whoever has the value goes on, and leaves the lock he may have had.
LEMMA ReturnKeeps ==
  ASSUME DcInv, NEW t \in DcThread, NEW value \in Int, Returns(t, dcKey[t], value),
         dcKey[t] \notin dcCaught /\ value # -1 => dcAnswered <= value,
         dcLock' = dcLock \/ (dcLock[dcKey[t]] = t /\ dcLock' = [dcLock EXCEPT ![dcKey[t]] = NoThread]),
         dcCache' \in [DcKeys -> DcEntry],
         \A k \in DcKeys \ dcCaught : dcCache'[k] # Empty => dcAnswered <= dcCache'[k].value,
         \A k \in DcKeys : ~Fresh(k) /\ dcLock[k] # t => ~Fresh(k)',
         UNCHANGED <<dcAccount, dcAnswered, dcCaught, dcTold>>
  PROVE  DcInv'
<1>1. /\ dcAt' \in [DcThread -> {"idle", "look", "wait", "again", "fetch", "store", "drop"}]
      /\ dcKey' \in [DcThread -> DcKeys] /\ dcOuter' \in [DcThread -> BOOLEAN]
      /\ dcGot' \in [DcThread -> [DcKeys -> Int]]
      /\ dcGot'[t][dcKey[t]] = value /\ \A k \in DcKeys \ {dcKey[t]} : dcGot'[t][k] = dcGot[t][k]
      /\ ~dcOuter'[t]
      /\ dcOuter[t] => dcAt'[t] = "store" /\ dcKey'[t] = "holdings"
      /\ ~dcOuter[t] => dcAt'[t] = "idle" /\ dcKey'[t] = dcKey[t]
      /\ \A s \in DcThread \ {t} : /\ dcAt'[s] = dcAt[s] /\ dcKey'[s] = dcKey[s]
                                    /\ (dcOuter'[s] <=> dcOuter[s]) /\ dcGot'[s] = dcGot[s]
  BY ReturnsType DEF DcInv
<1>2. DcTypes'
  BY <1>1 DEF DcInv, DcTypes
<1>3. DcLocks'
  <2>1. \A s \in DcThread \ {t}, k \in DcKeys : dcLock[k] = s => dcLock'[k] = s
    BY DEF DcInv, DcTypes
  <2>2. dcOuter[t] => dcLock'["holdings"] = t
    BY DEF DcInv, DcTypes, DcLocks, DcKeys
  <2>3. ASSUME NEW s \in DcThread, dcAt'[s] = "fetch"
        PROVE  s # t /\ dcKey'[s] = dcKey[s] /\ dcKey[s] \in DcKeys /\ ~Fresh(dcKey[s]) /\ dcLock[dcKey[s]] # t
    BY <1>1, <2>3 DEF DcInv, DcTypes, DcLocks
  <2>4. \A k \in DcKeys : k \in {q \in DcKeys : ~Fresh(q) /\ dcLock[q] # t} => ~Fresh(k)'
    OBVIOUS
  <2>5. \A s \in DcThread : dcAt'[s] = "fetch" => ~Fresh(dcKey[s])'
    BY <2>3, <2>4 DEF Fresh
  <2>6. \A s \in DcThread : dcAt'[s] \in {"again", "fetch", "store"} => dcLock'[dcKey'[s]] = s
    BY <1>1, <2>1, <2>2 DEF DcInv, DcTypes, DcLocks
  <2>7. \A s \in DcThread : dcOuter'[s] =>
          /\ dcKey'[s] = "unfilled" /\ dcLock'["holdings"] = s
          /\ dcAt'[s] \in {"look", "wait", "again", "fetch", "store"}
    BY <1>1, <2>1 DEF DcInv, DcLocks, DcKeys
  <2> QED
    BY <2>5, <2>6, <2>7 DEF DcLocks
<1>4. DcAnswers'
  <2>1. \A s \in DcThread : dcTold'[s] <= dcAnswered'
    BY DEF DcInv, DcAnswers
  <2>2. \A s \in DcThread \ {t} : Fetching(s)' = Fetching(s)
    BY <1>1 DEF Fetching
  <2>3. Fetching(t)' \subseteq {"holdings"} /\ (~dcOuter[t] => Fetching(t)' = {})
    BY <1>1 DEF Fetching
  <2>4. dcOuter[t] => "holdings" \in Fetching(t) /\ dcKey[t] = "unfilled" /\ "holdings" \in DcKeys
    BY DEF DcInv, DcLocks, Fetching, DcKeys
  <2>5. ASSUME NEW s \in DcThread, NEW k \in Fetching(s)', ~(dcAt'[s] = "fetch" /\ k = dcKey'[s])
        PROVE  dcGot'[s][k] # -1 /\ (k \notin dcCaught => dcAnswered <= dcGot'[s][k])
    <3>1. CASE s # t
      BY <1>1, <2>2, <2>5, <3>1 DEF DcInv, DcAnswers
    <3>2. CASE s = t
      BY <1>1, <2>3, <2>4, <2>5, <3>2 DEF DcInv, DcAnswers
    <3> QED
      BY <3>1, <3>2
  <2>6. ASSUME NEW s \in DcThread, NEW k \in DcKeys \ dcCaught, dcGot'[s][k] # -1
        PROVE  dcTold[s] <= dcGot'[s][k]
    <3>1. CASE s = t /\ k = dcKey[t]
      BY <1>1, <2>6, <3>1 DEF DcInv, DcTypes, DcAnswers
    <3>2. CASE ~(s = t /\ k = dcKey[t])
      BY <1>1, <2>6, <3>2 DEF DcInv, DcAnswers
    <3> QED
      BY <3>1, <3>2
  <2> QED
    BY <2>1, <2>5, <2>6 DEF DcAnswers
<1> QED
  BY <1>2, <1>3, <1>4 DEF DcInv


\* The entries as they are, or older.
LEMMA TimeIsKept == DcInv /\ DcTick => DcInv'
<1> SUFFICES ASSUME DcInv, DcTick PROVE DcInv'
  OBVIOUS
<1>1. /\ dcCache' \in [DcKeys -> DcEntry]
      /\ \A k \in DcKeys : /\ dcCache'[k].value = dcCache[k].value /\ (dcCache[k] = Empty => dcCache'[k] = Empty)
                           /\ (~Fresh(k) => dcCache'[k] = dcCache[k])
      /\ UNCHANGED <<dcAccount, dcLock, dcAt, dcKey, dcOuter, dcGot, dcTold, dcAnswered, dcCaught>>
  <2>1. \A k \in DcKeys : dcCache[k] \in DcEntry /\ [dcCache[k] EXCEPT !.age = @ + 1] \in DcEntry
                          /\ [dcCache[k] EXCEPT !.age = @ + 1].value = dcCache[k].value
    BY DEF DcInv, DcTypes, DcEntry
  <2>2. dcCache' = [k \in DcKeys |-> IF Fresh(k) THEN [dcCache[k] EXCEPT !.age = @ + 1] ELSE dcCache[k]]
    BY DEF DcTick
  <2>3. \A k \in DcKeys : Fresh(k) => dcCache[k] # Empty
    BY DEF Fresh
  <2> QED
    BY <2>1, <2>2, <2>3 DEF DcTick, dcThreads, dcMemory
<1>2. DcTypes'
  BY <1>1 DEF DcInv, DcTypes
<1>3. \A k \in DcKeys : ~Fresh(k) => ~Fresh(k)'
  BY <1>1 DEF Fresh
<1>4. DcLocks'
  <2>1. \A t \in DcThread : dcAt'[t] = "fetch" => ~Fresh(dcKey[t])'
    BY <1>1, <1>3 DEF DcInv, DcTypes, DcLocks, Fresh
  <2> QED
    BY <1>1, <2>1 DEF DcInv, DcLocks
<1>5. DcAnswers'
  BY <1>1 DEF DcInv, DcAnswers, Fetching
<1> QED
  BY <1>2, <1>4, <1>5 DEF DcInv

LEMMA NothingMoves == DcInv /\ UNCHANGED DcVars => DcInv'
  BY DEF DcVars, dcThreads, dcMemory, DcInv, DcTypes, DcLocks, DcAnswers, Fetching, Fresh

\* A thread asks, waits, has the lock or begins to fetch: nothing has come yet.
LEMMA RequestKeeps == ASSUME DcInv, NEW t \in DcThread, NEW k \in DcKeys, Request(t, k) PROVE DcInv'
<1>1. /\ dcAt[t] = "idle" /\ dcAt' = [dcAt EXCEPT ![t] = "look"] /\ dcKey' = [dcKey EXCEPT ![t] = k]
      /\ dcTold' = [dcTold EXCEPT ![t] = dcAnswered] /\ dcGot' = [dcGot EXCEPT ![t] = [q \in DcKeys |-> -1]]
      /\ UNCHANGED <<dcAccount, dcCache, dcLock, dcOuter, dcAnswered, dcCaught>>
  BY DEF Request, GoTo
<1>2. DcTypes'
  BY <1>1 DEF DcInv, DcTypes
<1>3. ~dcOuter[t]
  BY <1>1 DEF DcInv, DcLocks
<1>4. DcLocks'
  BY <1>1, <1>3 DEF DcInv, DcTypes, DcLocks, Fresh
<1>5. Fetching(t)' = {} /\ \A s \in DcThread \ {t} : Fetching(s)' = Fetching(s)
  BY <1>1, <1>3 DEF Fetching, DcInv, DcTypes
<1>6. DcAnswers'
  BY <1>1, <1>5 DEF DcInv, DcTypes, DcAnswers
<1> QED
  BY <1>2, <1>4, <1>6 DEF DcInv

LEMMA GoesOn ==
  ASSUME DcInv, NEW t \in DcThread, NEW place \in {"wait", "again", "fetch"},
         dcAt[t] \in {"look", "wait", "again"}, dcAt' = [dcAt EXCEPT ![t] = place],
         dcLock' = dcLock \/ (dcLock[dcKey[t]] = NoThread /\ dcLock' = [dcLock EXCEPT ![dcKey[t]] = t]),
         place \in {"again", "fetch"} => dcLock'[dcKey[t]] = t,
         place = "fetch" => ~Fresh(dcKey[t]),
         UNCHANGED <<dcAccount, dcCache, dcKey, dcOuter, dcGot, dcTold, dcAnswered, dcCaught>>
  PROVE  DcInv'
<1>1. DcTypes'
  <2>1. dcAt' \in [DcThread -> {"idle", "look", "wait", "again", "fetch", "store", "drop"}]
    BY DEF DcInv, DcTypes
  <2>2. dcLock' \in [DcKeys -> DcThread \cup {NoThread}]
    BY DEF DcInv, DcTypes
  <2> QED
    BY <2>1, <2>2 DEF DcInv, DcTypes
<1>2. \A s \in DcThread, k \in DcKeys : dcLock[k] = s => dcLock'[k] = s
  BY DcAssumption DEF DcInv, DcTypes
<1>3. DcLocks'
  BY <1>2 DEF DcInv, DcTypes, DcLocks, Fresh, DcKeys
<1>4. \A s \in DcThread : \A k \in Fetching(s)' : k \in Fetching(s) \/ (dcAt'[s] = "fetch" /\ k = dcKey[s])
  BY DEF Fetching, DcInv, DcTypes
<1>5. DcAnswers'
  <2>1. ASSUME NEW s \in DcThread, NEW k \in Fetching(s)', ~(dcAt'[s] = "fetch" /\ k = dcKey'[s])
        PROVE  dcGot'[s][k] # -1 /\ (k \notin dcCaught => dcAnswered <= dcGot'[s][k])
    <3>1. k \in Fetching(s) /\ ~(dcAt[s] = "fetch" /\ k = dcKey[s])
      BY <1>4, <2>1 DEF DcInv, DcTypes
    <3> QED
      BY <3>1 DEF DcInv, DcAnswers
  <2> QED
    BY <2>1 DEF DcInv, DcAnswers
<1> QED
  BY <1>1, <1>3, <1>5 DEF DcInv

\* What is fresh has the orders that are answered.
LEMMA FromCache ==
  ASSUME DcInv, NEW t \in DcThread, Fresh(dcKey[t])
  PROVE  /\ dcKey[t] \in DcKeys /\ dcCache[dcKey[t]].value \in Int
         /\ dcKey[t] \notin dcCaught => dcAnswered <= dcCache[dcKey[t]].value
  BY DEF DcInv, DcTypes, DcEntry, DcAnswers, Fresh

LEMMA LookKeeps == ASSUME DcInv, NEW t \in DcThread, Look(t) PROVE DcInv'
<1>1. CASE Fresh(dcKey[t])
  <2>1. /\ Returns(t, dcKey[t], dcCache[dcKey[t]].value)
        /\ UNCHANGED <<dcAccount, dcCache, dcLock, dcAnswered, dcCaught, dcTold>>
    BY <1>1 DEF Look, dcMemory
  <2>2. \A k \in DcKeys : ~Fresh(k) /\ dcLock[k] # t => ~Fresh(k)'
    BY <2>1 DEF Fresh
  <2>3. /\ dcCache' \in [DcKeys -> DcEntry]
        /\ \A k \in DcKeys \ dcCaught : dcCache'[k] # Empty => dcAnswered <= dcCache'[k].value
    BY <2>1 DEF DcInv, DcTypes, DcAnswers
  <2> QED
    BY <1>1, <2>1, <2>2, <2>3, FromCache, ReturnKeeps
<1>2. CASE ~Fresh(dcKey[t])
  <2>1. /\ dcAt[t] = "look" /\ dcAt' = [dcAt EXCEPT ![t] = "wait"]
        /\ UNCHANGED <<dcAccount, dcCache, dcLock, dcKey, dcOuter, dcGot, dcTold, dcAnswered, dcCaught>>
    BY <1>2 DEF Look, GoTo, dcMemory
  <2> QED
    BY <2>1, GoesOn
<1> QED
  BY <1>1, <1>2

LEMMA TakeLockKeeps == ASSUME DcInv, NEW t \in DcThread, TakeLock(t) PROVE DcInv'
<1>1. /\ dcAt[t] = "wait" /\ dcAt' = [dcAt EXCEPT ![t] = "again"]
      /\ dcLock[dcKey[t]] = NoThread /\ dcLock' = [dcLock EXCEPT ![dcKey[t]] = t]
      /\ UNCHANGED <<dcAccount, dcCache, dcKey, dcOuter, dcGot, dcTold, dcAnswered, dcCaught>>
  BY DEF TakeLock, GoTo, dcMemory
<1>2. dcLock'[dcKey[t]] = t
  BY <1>1 DEF DcInv, DcTypes
<1> QED
  BY <1>1, <1>2, GoesOn

LEMMA LookAgainKeeps == ASSUME DcInv, NEW t \in DcThread, LookAgain(t) PROVE DcInv'
<1>0. dcAt[t] = "again" /\ dcLock[dcKey[t]] = t
  BY DEF LookAgain, DcInv, DcLocks
<1>1. CASE Fresh(dcKey[t])
  <2>1. /\ Returns(t, dcKey[t], dcCache[dcKey[t]].value) /\ dcLock' = [dcLock EXCEPT ![dcKey[t]] = NoThread]
        /\ UNCHANGED <<dcAccount, dcCache, dcAnswered, dcCaught, dcTold>>
    BY <1>1 DEF LookAgain, dcMemory
  <2>2. \A k \in DcKeys : ~Fresh(k) /\ dcLock[k] # t => ~Fresh(k)'
    BY <2>1 DEF Fresh
  <2>3. /\ dcCache' \in [DcKeys -> DcEntry]
        /\ \A k \in DcKeys \ dcCaught : dcCache'[k] # Empty => dcAnswered <= dcCache'[k].value
    BY <2>1 DEF DcInv, DcTypes, DcAnswers
  <2> QED
    BY <1>0, <1>1, <2>1, <2>2, <2>3, FromCache, ReturnKeeps
<1>2. CASE ~Fresh(dcKey[t])
  <2>1. /\ dcAt' = [dcAt EXCEPT ![t] = "fetch"]
        /\ UNCHANGED <<dcAccount, dcCache, dcLock, dcKey, dcOuter, dcGot, dcTold, dcAnswered, dcCaught>>
    BY <1>2 DEF LookAgain, GoTo, dcMemory
  <2> QED
    BY <1>0, <1>2, <2>1, GoesOn
<1> QED
  BY <1>1, <1>2


LEMMA FetchKeeps == ASSUME DcInv, NEW t \in DcThread, Fetch(t) PROVE DcInv'
<1>1. PICK k : k = dcKey[t]
  OBVIOUS
<1>2. /\ dcAt[t] = "fetch" /\ dcGot' = [dcGot EXCEPT ![t][k] = dcAccount]
      /\ UNCHANGED <<dcAccount, dcCache, dcLock, dcTold, dcAnswered, dcCaught>>
      /\ k = "holdings" => /\ dcKey' = [dcKey EXCEPT ![t] = "unfilled"]
                           /\ dcOuter' = [dcOuter EXCEPT ![t] = TRUE] /\ dcAt' = [dcAt EXCEPT ![t] = "look"]
      /\ k # "holdings" => dcAt' = [dcAt EXCEPT ![t] = "store"] /\ UNCHANGED <<dcKey, dcOuter>>
  BY <1>1 DEF Fetch, GoTo, dcMemory
<1>3. k \in DcKeys /\ dcLock[k] = t /\ dcAccount \in Nat /\ dcAccount # -1 /\ dcAnswered <= dcAccount
  BY <1>1, <1>2 DEF DcInv, DcTypes, DcLocks
<1>4. /\ dcGot' \in [DcThread -> [DcKeys -> Int]] /\ dcGot'[t][k] = dcAccount
      /\ \A q \in DcKeys \ {k} : dcGot'[t][q] = dcGot[t][q]
      /\ \A s \in DcThread \ {t} : dcGot'[s] = dcGot[s]
  BY <1>2, <1>3 DEF DcInv, DcTypes
<1>5. /\ dcAt' \in [DcThread -> {"idle", "look", "wait", "again", "fetch", "store", "drop"}]
      /\ dcKey' \in [DcThread -> DcKeys] /\ dcOuter' \in [DcThread -> BOOLEAN]
      /\ k = "holdings" => dcAt'[t] = "look" /\ dcKey'[t] = "unfilled" /\ dcOuter'[t]
      /\ k # "holdings" => dcAt'[t] = "store" /\ dcKey'[t] = k /\ (dcOuter'[t] <=> dcOuter[t])
      /\ \A s \in DcThread \ {t} : dcAt'[s] = dcAt[s] /\ dcKey'[s] = dcKey[s] /\ (dcOuter'[s] <=> dcOuter[s])
  <2>1. CASE k = "holdings"
    BY <1>2, <2>1 DEF DcInv, DcTypes, DcKeys
  <2>2. CASE k # "holdings"
    BY <1>1, <1>2, <2>2 DEF DcInv, DcTypes
  <2> QED
    BY <2>1, <2>2
<1>6. DcTypes'
  BY <1>2, <1>4, <1>5 DEF DcInv, DcTypes
<1>7. DcLocks'
  <2>1. \A s \in DcThread : dcAt'[s] = "fetch" => ~Fresh(dcKey[s])'
    BY <1>2, <1>5 DEF DcInv, DcLocks, Fresh
  <2>2. \A s \in DcThread : dcAt'[s] \in {"again", "fetch", "store"} => dcLock'[dcKey'[s]] = s
    BY <1>2, <1>3, <1>5 DEF DcInv, DcLocks
  <2>3. \A s \in DcThread : dcOuter'[s] =>
          /\ dcKey'[s] = "unfilled" /\ dcLock'["holdings"] = s
          /\ dcAt'[s] \in {"look", "wait", "again", "fetch", "store"}
    BY <1>1, <1>2, <1>3, <1>5 DEF DcInv, DcLocks
  <2> QED
    BY <2>1, <2>2, <2>3 DEF DcLocks
<1>8. \A s \in DcThread \ {t} : Fetching(s)' = Fetching(s)
  BY <1>5 DEF Fetching
<1>9. Fetching(t)' \subseteq {k} \cup (Fetching(t) \ {dcKey[t]})
  BY <1>1, <1>2, <1>5 DEF Fetching, DcInv, DcLocks
<1>10. DcAnswers'
  <2>1. ASSUME NEW s \in DcThread, NEW q \in Fetching(s)', ~(dcAt'[s] = "fetch" /\ q = dcKey'[s])
        PROVE  dcGot'[s][q] # -1 /\ (q \notin dcCaught => dcAnswered <= dcGot'[s][q])
    <3>1. CASE s # t
      BY <1>4, <1>5, <1>8, <2>1, <3>1 DEF DcInv, DcAnswers
    <3>2. CASE s = t /\ q = k
      BY <1>3, <1>4, <3>2
    <3>3. CASE s = t /\ q # k
      <4>1. q \in Fetching(t) /\ q # dcKey[t] /\ q \in DcKeys
        BY <1>1, <1>9, <2>1, <3>3 DEF Fetching, DcInv, DcTypes, DcKeys
      <4> QED
        BY <1>4, <3>3, <4>1 DEF DcInv, DcAnswers
    <3> QED
      BY <3>1, <3>2, <3>3
  <2>2. ASSUME NEW s \in DcThread, NEW q \in DcKeys \ dcCaught, dcGot'[s][q] # -1
        PROVE  dcTold[s] <= dcGot'[s][q]
    <3>1. CASE s = t /\ q = k
      BY <1>3, <1>4, <3>1 DEF DcInv, DcTypes, DcAnswers
    <3>2. CASE ~(s = t /\ q = k)
      BY <1>4, <2>2, <3>2 DEF DcInv, DcAnswers
    <3> QED
      BY <3>1, <3>2
  <2> QED
    BY <1>2, <2>1, <2>2 DEF DcInv, DcAnswers
<1> QED
  BY <1>6, <1>7, <1>10 DEF DcInv

LEMMA FetchFailsKeeps == ASSUME DcInv, NEW t \in DcThread, FetchFails(t) PROVE DcInv'
<1>1. /\ dcAt[t] = "fetch" /\ Returns(t, dcKey[t], -1) /\ dcLock' = [dcLock EXCEPT ![dcKey[t]] = NoThread]
      /\ UNCHANGED <<dcAccount, dcCache, dcAnswered, dcCaught, dcTold>>
  BY DEF FetchFails, dcMemory
<1>2. dcLock[dcKey[t]] = t
  BY <1>1 DEF DcInv, DcLocks
<1>3. /\ dcCache' \in [DcKeys -> DcEntry]
      /\ \A k \in DcKeys \ dcCaught : dcCache'[k] # Empty => dcAnswered <= dcCache'[k].value
      /\ \A k \in DcKeys : ~Fresh(k) /\ dcLock[k] # t => ~Fresh(k)'
  BY <1>1 DEF DcInv, DcTypes, DcAnswers, Fresh
<1>4. PICK v \in Int : v = -1
  OBVIOUS
<1>5. /\ Returns(t, dcKey[t], v)
      /\ dcKey[t] \notin dcCaught /\ v # -1 => dcAnswered <= v
      /\ dcLock' = dcLock \/ (dcLock[dcKey[t]] = t /\ dcLock' = [dcLock EXCEPT ![dcKey[t]] = NoThread])
      /\ UNCHANGED <<dcAccount, dcAnswered, dcCaught, dcTold>>
  BY <1>1, <1>2, <1>4
<1> QED
  BY <1>3, <1>5, ReturnKeeps

LEMMA StoreKeeps == ASSUME DcInv, NEW t \in DcThread, Store(t) PROVE DcInv'
<1>1. PICK e : e = [value |-> dcGot[t][dcKey[t]], age |-> 0]
  OBVIOUS
<1>2. /\ dcAt[t] = "store" /\ Returns(t, dcKey[t], dcGot[t][dcKey[t]])
      /\ dcLock' = [dcLock EXCEPT ![dcKey[t]] = NoThread] /\ dcCache' = [dcCache EXCEPT ![dcKey[t]] = e]
      /\ UNCHANGED <<dcAccount, dcAnswered, dcCaught, dcTold>>
  BY <1>1 DEF Store, dcMemory
<1>3. dcLock[dcKey[t]] = t /\ dcKey[t] \in DcKeys /\ dcGot[t][dcKey[t]] \in Int
  BY <1>2 DEF DcInv, DcTypes, DcLocks
<1>4. e \in DcEntry /\ e.value = dcGot[t][dcKey[t]]
  BY <1>1, <1>3 DEF DcEntry
<1>5. dcKey[t] \notin dcCaught => dcAnswered <= dcGot[t][dcKey[t]]
  BY <1>2 DEF DcInv, DcAnswers, Fetching
<1>6. /\ dcCache' \in [DcKeys -> DcEntry]
      /\ \A k \in DcKeys \ dcCaught : dcCache'[k] # Empty => dcAnswered <= dcCache'[k].value
      /\ \A k \in DcKeys : ~Fresh(k) /\ dcLock[k] # t => ~Fresh(k)'
  <2>1. dcCache' \in [DcKeys -> DcEntry]
    BY <1>2, <1>4 DEF DcInv, DcTypes
  <2>2. \A k \in DcKeys \ {dcKey[t]} : dcCache'[k] = dcCache[k]
    BY <1>2 DEF DcInv, DcTypes
  <2>3. dcCache'[dcKey[t]] = e
    BY <1>2, <1>3 DEF DcInv, DcTypes
  <2>4. \A k \in DcKeys \ dcCaught : dcCache'[k] # Empty => dcAnswered <= dcCache'[k].value
    BY <1>4, <1>5, <2>2, <2>3 DEF DcInv, DcAnswers
  <2>5. \A k \in DcKeys : ~Fresh(k) /\ dcLock[k] # t => ~Fresh(k)'
    BY <1>3, <2>2 DEF Fresh
  <2> QED
    BY <2>1, <2>4, <2>5
<1> QED
  BY <1>2, <1>3, <1>5, <1>6, ReturnKeeps

LEMMA OrderKeeps == ASSUME DcInv, NEW t \in DcThread, Order(t) PROVE DcInv'
<1>1. /\ dcAt[t] = "idle" /\ dcAccount' = dcAccount + 1 /\ dcAt' = [dcAt EXCEPT ![t] = "drop"]
      /\ UNCHANGED <<dcCache, dcLock, dcKey, dcOuter, dcGot, dcTold, dcAnswered, dcCaught>>
  BY DEF Order, GoTo, dcMemory
<1>2. ~dcOuter[t]
  BY <1>1 DEF DcInv, DcLocks
<1>3. \A s \in DcThread : Fetching(s)' = Fetching(s)
  BY <1>1 DEF Fetching, DcInv, DcTypes
<1>4. DcTypes' /\ DcLocks'
  BY <1>1, <1>2 DEF DcInv, DcTypes, DcLocks, Fresh
<1>5. DcAnswers'
  BY <1>1, <1>3 DEF DcInv, DcTypes, DcAnswers
<1> QED
  BY <1>4, <1>5 DEF DcInv

\* What is being fetched now is caught, and the cache is empty.
LEMMA InvalidateKeeps == ASSUME DcInv, NEW t \in DcThread, Invalidate(t) PROVE DcInv'
<1>1. /\ dcAt[t] = "drop" /\ dcAt' = [dcAt EXCEPT ![t] = "idle"]
      /\ dcCache' = [k \in DcKeys |-> Empty] /\ dcAnswered' = dcAccount
      /\ dcCaught' = dcCaught \cup UNION {Fetching(s) : s \in DcThread}
      /\ UNCHANGED <<dcAccount, dcLock, dcKey, dcOuter, dcGot, dcTold>>
  BY DEF Invalidate, Invalidated, GoTo
<1>2. ~dcOuter[t]
  BY <1>1 DEF DcInv, DcLocks
<1>3. \A s \in DcThread : Fetching(s)' = Fetching(s)
  BY <1>1 DEF Fetching, DcInv, DcTypes
<1>4. DcTypes'
  BY <1>1, EmptyIsEntry DEF DcInv, DcTypes
<1>5. DcLocks'
  <2>1. \A s \in DcThread : dcAt'[s] = "fetch" => ~Fresh(dcKey[s])'
    BY <1>1 DEF DcInv, DcTypes, Fresh
  <2> QED
    BY <1>1, <1>2, <2>1 DEF DcInv, DcTypes, DcLocks
<1>6. DcAnswers'
  <2>1. \A s \in DcThread : \A k \in Fetching(s)' : k \in Fetching(s) /\ k \in dcCaught'
    BY <1>1, <1>3
  <2>2. ASSUME NEW s \in DcThread, NEW k \in Fetching(s)', ~(dcAt'[s] = "fetch" /\ k = dcKey'[s])
        PROVE  dcGot'[s][k] # -1 /\ (k \notin dcCaught' => dcAnswered' <= dcGot'[s][k])
    <3>1. ~(dcAt[s] = "fetch" /\ k = dcKey[s])
      BY <1>1, <2>2 DEF DcInv, DcTypes
    <3> QED
      BY <1>1, <2>1, <3>1 DEF DcInv, DcAnswers
  <2>3. \A s \in DcThread : dcTold'[s] <= dcAnswered'
    BY <1>1 DEF DcInv, DcTypes, DcAnswers
  <2>4. \A k \in DcKeys : dcCache'[k] = Empty
    BY <1>1
  <2>5. \A s \in DcThread, k \in DcKeys \ dcCaught' : dcGot'[s][k] # -1 => dcTold'[s] <= dcGot'[s][k]
    BY <1>1 DEF DcInv, DcAnswers
  <2> QED
    BY <2>2, <2>3, <2>4, <2>5 DEF DcAnswers
<1> QED
  BY <1>4, <1>5, <1>6 DEF DcInv

LEMMA DcKept == DcInv /\ [DcNext]_DcVars => DcInv'
  BY NothingMoves, TimeIsKept, RequestKeeps, LookKeeps, TakeLockKeeps, LookAgainKeeps, FetchKeeps,
     FetchFailsKeeps, StoreKeeps, OrderKeeps, InvalidateKeeps DEF DcNext

\* _dash_cached and _invalidate_dash_cache: for any threads, times to live, orders and failures,
\* an answer to a request that began after an order was answered has the order, unless the key
\* was being fetched when an order emptied the cache.
THEOREM OrdersAreShown == DcSpec => []OrderShownUnlessCaught
  BY DcStart, DcKept, DcSafe, PTL DEF DcSpec

\* _dash_cached: however many browsers ask at once, a thread that calls the broker finds no
\* answer in the cache that is still fresh, so that all of them together make one call for each
\* key within the time an answer lives.
THEOREM OneCallForAll == DcSpec => NoCallForWhatIsThere
<1>1. DcInv => \A t \in DcThread : dcAt[t] = "fetch" => ~Fresh(dcKey[t])
  BY DEF DcInv, DcLocks
<1>2. DcInv /\ [DcNext]_DcVars =>
        [\A t \in DcThread : dcAt[t] = "fetch" /\ dcAt'[t] # "fetch" => ~Fresh(dcKey[t])]_DcVars
  BY <1>1
<1> QED
  BY <1>2, DcStart, DcKept, PTL DEF DcSpec, NoCallForWhatIsThere

(***************************************************************************)
(* The cards of the account page.  A card with a margin is one that was    *)
(* made of the holding as it is.                                           *)
(***************************************************************************)
CdInv ==
  /\ \E case \in CdCases : cdHold = case.hold
  /\ cdCard = CdNothing \/ cdCard.type # "legacy" \/ cdCard = LegacyCard(cdHold.legacy, cdHold.cur)

LEMMA CardOfHolding ==
  ASSUME cdHold.cur \in Nat, cdCard # CdNothing, cdCard = LegacyCard(cdHold.legacy, cdHold.cur)
  PROVE  CardTellsTheStop
<1>1. ~cdHold.legacy.exited /\ cdHold.cur # 0
      /\ cdCard.margin = cdHold.cur - (1000 - StopLevel(cdHold.legacy))
  BY DEF LegacyCard
<1>2. StopLevel(cdHold.legacy) \in Nat /\ CdFees \in Nat
  BY CdAssumption DEF StopLevel
<1>3. EngineStops(cdHold.legacy, cdHold.cur) <=>
        cdHold.cur - 1000 - CdFees <= -StopLevel(cdHold.legacy)
  BY <1>1, <1>2 DEF EngineStops, StopLevel
<1> QED
  BY <1>1, <1>2, <1>3 DEF CardTellsTheStop

\* _legacy_holding_state: for any rates, fees and holdings, a card in the stop is of a holding
\* the engine sells, and what the engine sells stands above its stop by no more than the fees.
THEOREM CardsTellTheStop == CdSpec => []CardTellsTheStop
<1>1. CdInit => CdInv
  BY DEF CdInit, CdCase, CdInv
<1>2. CdInv /\ [CdNext]_CdVars => CdInv'
  <2> SUFFICES ASSUME CdInv, [CdNext]_CdVars PROVE CdInv'
    OBVIOUS
  <2>1. CASE ShowCard
    <3>1. V8Card(cdHold.v8, cdHold.cur) = CdNothing \/ V8Card(cdHold.v8, cdHold.cur).type = "v8"
      BY DEF V8Card
    <3> QED
      BY <2>1, <3>1 DEF ShowCard, CdInv
  <2>2. CASE UNCHANGED <<cdHold, cdCard>>
    BY <2>2 DEF CdInv
  <2> QED
    BY <2>1, <2>2 DEF CdNext, CdVars, ShowRanking, ShowKept, Cleared
<1>3. CdInv => CardTellsTheStop
  <2> SUFFICES ASSUME CdInv, cdCard # CdNothing, cdCard.type = "legacy" PROVE CardTellsTheStop
    BY DEF CardTellsTheStop
  <2> QED
    BY CdAssumption, CardOfHolding DEF CdInv
<1> QED
  BY <1>1, <1>2, <1>3, PTL DEF CdSpec

\* The three together, as the run App_parts states them: whatever threads, orders and failures
\* there are, the account page shows what was ordered, asks once and tells the stop.
THEOREM AccountPageIsRight == DcSpec /\ CdSpec => DashRight
<1>1. []OrderShownUnlessCaught => [][OrderShownUnlessCaught']_DcVars
  BY PTL
<1>2. []CardTellsTheStop => [][CardTellsTheStop']_CdVars
  BY PTL
<1> QED
  BY <1>1, <1>2, OrdersAreShown, OneCallForAll, CardsTellTheStop DEF DashRight
==============================================================================
