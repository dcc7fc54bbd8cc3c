-------------------------------- MODULE Audio --------------------------------
(***************************************************************************)
(* The analysis of recordings: the routes and the queue thread of          *)
(* app/audio.py and the worker process tools/audio_analysis/worker.py.     *)
(*                                                                         *)
(* A job is a directory: job.json (the settings), status.json, what the    *)
(* worker keeps between runs (whisper.json, diarization.json,              *)
(* analysis.json) and audio.wav while it runs.  The queue is in memory.    *)
(* The number of speakers stands for the settings of a job.  A worker that *)
(* runs when the server goes down goes on, in the same directory.          *)
(***************************************************************************)
EXTENDS Integers, Sequences, FiniteSets

CONSTANTS
  AuJob, AuSpeakers,
  AuNone,                  \* no job, no result
  AuEdits, AuRetries, AuRestarts   \* bounds

ASSUME AuAssumption ==
  /\ IsFiniteSet(AuJob) /\ AuNone \notin AuJob /\ AuSpeakers \subseteq Nat \ {0}
  /\ {AuEdits, AuRetries, AuRestarts} \subseteq Nat

Worker == {"own", "stray"}   \* of the queue thread, and one an earlier server left
Gone   == [at |-> "gone", speakers |-> 0, words |-> 0, turns |-> 0]

VARIABLES
  auStage,    \* status.json; "none" before the upload, "gone" once deleted
  auWanted,   \* job.json: the number of speakers
  auHeard,    \* whisper.json is there
  auTurns,    \* diarization.json: for how many speakers; 0 if it is not there
  auResult,   \* analysis.json
  auWav,      \* audio.wav is there
  auWords,    \* the edition of the user's dictionary
  auThread,   \* the queue thread has been started
  auQueue,
  auNow,      \* the job the thread is at, as it read its settings
  auRun,      \* the worker processes
  auRequest,  \* retry requests that have passed the check of the stage
  auRetried, auRestarted,
  auCaught    \* history: jobs of which a restart left a worker or half a request, or
              \* took a second turn in the queue

auDir    == <<auStage, auWanted, auHeard, auTurns, auResult, auWav>>
auKept   == <<auHeard, auTurns, auResult, auWav>>
auServer == <<auThread, auQueue, auNow, auRequest>>
auBounds == <<auRetried, auRestarted, auCaught>>
AuVars   == <<auDir, auWords, auServer, auRun, auBounds>>

NoJob == [job |-> AuNone, speakers |-> 0, begun |-> FALSE]

AuInit ==
  /\ auStage = [j \in AuJob |-> "none"] /\ auWanted = [j \in AuJob |-> 0]
  /\ auHeard = [j \in AuJob |-> FALSE] /\ auTurns = [j \in AuJob |-> 0]
  /\ auResult = [j \in AuJob |-> AuNone] /\ auWav = [j \in AuJob |-> FALSE]
  /\ auWords = 0 /\ auThread = FALSE /\ auQueue = <<>> /\ auNow = NoJob
  /\ auRun = [j \in AuJob |-> [w \in Worker |-> Gone]] /\ auRequest = {}
  /\ auRetried = 0 /\ auRestarted = 0 /\ auCaught = {}

There(j) == auStage[j] \notin {"none", "gone"}

Waiting(j) == \E i \in DOMAIN auQueue : auQueue[i] = j

(***************************************************************************)
(* The routes.                                                             *)
(***************************************************************************)
\* _ensure_worker: what was queued is queued again, what was running is an error.
Restaged_Queued(j) == auStage[j]                                 \* mutant
Restaged(j) == IF auStage[j] = "running" THEN "error" ELSE auStage[j]

EnsureWorker ==
  /\ ~auThread /\ auThread' = TRUE
  /\ \E order \in [1..Cardinality({j \in AuJob : auStage[j] = "queued"}) -> AuJob] :
       /\ {order[i] : i \in DOMAIN order} = {j \in AuJob : auStage[j] = "queued"}
       /\ auQueue' = order
  /\ auStage' = [j \in AuJob |-> Restaged(j)]
  /\ UNCHANGED <<auWanted, auKept, auWords, auNow, auRequest, auRun, auBounds>>

Upload(j, speakers) ==
  /\ auThread /\ auStage[j] = "none"
  /\ auStage' = [auStage EXCEPT ![j] = "queued"]
  /\ auWanted' = [auWanted EXCEPT ![j] = speakers]
  /\ auQueue' = Append(auQueue, j)
  /\ UNCHANGED <<auKept, auWords, auThread, auNow, auRequest, auRun, auBounds>>

SaveDictionary ==
  /\ auWords < AuEdits /\ auWords' = auWords + 1
  /\ UNCHANGED <<auDir, auServer, auRun, auBounds>>

\* A request looks at the stage, writes the settings, then queues the job.
RetryAllowed(j, speakers) ==
  /\ auThread /\ auStage[j] \in {"error", "done"} /\ auRetried < AuRetries
  /\ auRequest' = auRequest \cup {[job |-> j, speakers |-> speakers, id |-> auRetried]}
  /\ auRetried' = auRetried + 1
  /\ UNCHANGED <<auDir, auWords, auThread, auQueue, auNow, auRun, auRestarted, auCaught>>

RetrySettings(r) ==
  /\ r.speakers # 0 /\ There(r.job)
  /\ auWanted' = [auWanted EXCEPT ![r.job] = r.speakers]
  /\ auRequest' = (auRequest \ {r}) \cup {[r EXCEPT !.speakers = 0]}
  /\ UNCHANGED <<auStage, auKept, auWords, auThread, auQueue, auNow, auRun, auBounds>>

RetryQueued(r) ==
  /\ r.speakers = 0 /\ There(r.job)
  /\ auStage' = [auStage EXCEPT ![r.job] = "queued"]
  /\ auQueue' = Append(auQueue, r.job) /\ auRequest' = auRequest \ {r}
  /\ UNCHANGED <<auWanted, auKept, auWords, auThread, auNow, auRun, auBounds>>

RetryFails(r) ==
  /\ ~There(r.job) /\ auRequest' = auRequest \ {r}
  /\ UNCHANGED <<auDir, auWords, auThread, auQueue, auNow, auRun, auBounds>>

\* delete_job kills the worker it knows of and waits for it; then the directory goes
DeleteKills(j) ==
  /\ There(j) /\ auRun[j]["own"] # Gone
  /\ auRun' = [auRun EXCEPT ![j]["own"] = Gone]
  /\ UNCHANGED <<auDir, auWords, auServer, auBounds>>

Deleted(j) ==
  /\ There(j) /\ auRun[j]["own"] = Gone /\ ~(auNow.job = j /\ auNow.begun)
  /\ auStage' = [auStage EXCEPT ![j] = "gone"] /\ auWanted' = [auWanted EXCEPT ![j] = 0]
  /\ auHeard' = [auHeard EXCEPT ![j] = FALSE] /\ auTurns' = [auTurns EXCEPT ![j] = 0]
  /\ auResult' = [auResult EXCEPT ![j] = AuNone] /\ auWav' = [auWav EXCEPT ![j] = FALSE]
  /\ UNCHANGED <<auWords, auServer, auRun, auBounds>>

(***************************************************************************)
(* The queue thread: _worker_loop and _run_job.                            *)
(***************************************************************************)
\* A job deleted while it waited is passed over.
TakeJob ==
  /\ auThread /\ auNow = NoJob /\ auQueue # <<>>
  /\ LET j == Head(auQueue) IN
       IF There(j)
       THEN /\ auNow' = [job |-> j, speakers |-> auWanted[j], begun |-> FALSE]
            /\ auStage' = [auStage EXCEPT ![j] = "running"]
       ELSE UNCHANGED <<auNow, auStage>>
  /\ auQueue' = Tail(auQueue)
  /\ UNCHANGED <<auWanted, auKept, auWords, auThread, auRequest, auRun, auBounds>>

StartWorker(j) ==
  /\ auNow.job = j /\ ~auNow.begun /\ There(j)
  /\ auRun' = [auRun EXCEPT ![j]["own"] = [Gone EXCEPT !.at = "convert", !.speakers = auNow.speakers]]
  /\ auNow' = [auNow EXCEPT !.begun = TRUE]
  /\ UNCHANGED <<auDir, auWords, auThread, auQueue, auRequest, auBounds>>

\* the process could not be started, or has ended; a stage that is not an end is
\* made one
ThreadDone(j) ==
  /\ auNow.job = j /\ auRun[j]["own"] = Gone
  /\ auStage' = IF auStage[j] \in {"done", "error", "gone"} THEN auStage
                ELSE [auStage EXCEPT ![j] = "error"]
  /\ auNow' = NoJob
  /\ UNCHANGED <<auWanted, auKept, auWords, auThread, auQueue, auRequest, auRun, auBounds>>

(***************************************************************************)
(* The worker.                                                             *)
(***************************************************************************)
Becomes(j, w, run) == auRun' = [auRun EXCEPT ![j][w] = run]
Reports(j, stage)  == auStage' = [auStage EXCEPT ![j] = stage]

Convert(j, w) ==
  /\ auRun[j][w].at = "convert" /\ There(j)
  /\ Reports(j, "running") /\ Becomes(j, w, [auRun[j][w] EXCEPT !.at = "listen"])
  /\ auWav' = [auWav EXCEPT ![j] = TRUE]
  /\ UNCHANGED <<auWanted, auHeard, auTurns, auResult, auWords, auServer, auBounds>>

\* The dictionary is read before the listening, which may take minutes.
ReadWords(j, w) ==
  /\ auRun[j][w].at = "listen" /\ There(j)
  /\ Reports(j, "running") /\ Becomes(j, w, [auRun[j][w] EXCEPT !.at = "heard", !.words = auWords])
  /\ UNCHANGED <<auWanted, auKept, auWords, auServer, auBounds>>

Listen(j, w) ==
  /\ auRun[j][w].at = "heard" /\ There(j) /\ (auHeard[j] \/ auWav[j])
  /\ Reports(j, "running") /\ Becomes(j, w, [auRun[j][w] EXCEPT !.at = "diarize"])
  /\ auHeard' = [auHeard EXCEPT ![j] = TRUE]
  /\ UNCHANGED <<auWanted, auTurns, auResult, auWav, auWords, auServer, auBounds>>

\* _load_diar_cache: only what was made for as many speakers
Fits_Always(j, speakers) == auTurns[j] # 0                       \* mutant
Fits(j, speakers) == auTurns[j] = speakers

\* Without the wav, a token or memory there are no speakers, and the worker goes on.
Diarize(j, w) ==
  LET run == auRun[j][w] IN
  /\ run.at = "diarize" /\ There(j) /\ Reports(j, "running")
  /\ \/ /\ Fits(j, run.speakers)
        /\ Becomes(j, w, [run EXCEPT !.at = "sum", !.turns = auTurns[j]])
        /\ UNCHANGED auTurns
     \/ /\ ~Fits(j, run.speakers) /\ auWav[j]
        /\ Becomes(j, w, [run EXCEPT !.at = "sum", !.turns = run.speakers])
        /\ auTurns' = [auTurns EXCEPT ![j] = run.speakers]
     \/ /\ ~Fits(j, run.speakers)
        /\ Becomes(j, w, [run EXCEPT !.at = "sum", !.turns = 0])
        /\ UNCHANGED auTurns
  /\ UNCHANGED <<auWanted, auHeard, auResult, auWav, auWords, auServer, auBounds>>

\* summary_input_key
KeyOf(run) == <<run.turns, run.words>>

\* The summary of a run with the same input is taken over; the language model may be
\* away or fail, which leaves none.
Summary(j, run) ==
  LET old == auResult[j] IN
  IF old # AuNone /\ old.key = KeyOf(run) /\ old.summary # AuNone
  THEN {old.summary} ELSE {AuNone, [turns |-> run.turns, words |-> run.words]}

\* Without audio.wav the last step fails, after the results were written.
Finish(j, w) ==
  LET run == auRun[j][w] IN
  /\ run.at = "sum" /\ There(j)
  /\ \E summary \in Summary(j, run) :
       auResult' = [auResult EXCEPT ![j] =
         [speakers |-> run.speakers, turns |-> run.turns, words |-> run.words,
          key |-> KeyOf(run), summary |-> summary]]
  /\ Reports(j, IF auWav[j] THEN "done" ELSE "error")
  /\ auWav' = [auWav EXCEPT ![j] = FALSE] /\ Becomes(j, w, Gone)
  /\ UNCHANGED <<auWanted, auHeard, auTurns, auWords, auServer, auBounds>>

\* an exception it reports, or its process is killed
WorkerFails(j, w, reported) ==
  /\ auRun[j][w] # Gone /\ Becomes(j, w, Gone)
  /\ IF reported /\ There(j) THEN Reports(j, "error") ELSE UNCHANGED auStage
  /\ UNCHANGED <<auWanted, auKept, auWords, auServer, auBounds>>

(***************************************************************************)
(* The server goes down and comes up; a worker goes on.                    *)
(***************************************************************************)
Restart ==
  /\ auRestarted < AuRestarts /\ auRestarted' = auRestarted + 1
  /\ auThread' = FALSE /\ auQueue' = <<>> /\ auNow' = NoJob /\ auRequest' = {}
  /\ auRun' = [j \in AuJob |-> IF auRun[j]["own"] = Gone THEN auRun[j]
                               ELSE [w \in Worker |-> IF w = "own" THEN Gone ELSE auRun[j]["own"]]]
  /\ auCaught' = auCaught \cup {j \in AuJob : auRun[j]["own"] # Gone}
                          \cup {r.job : r \in {q \in auRequest : q.speakers = 0}}
                          \cup {j \in AuJob : Waiting(j) /\ auStage[j] # "queued"}
  /\ UNCHANGED <<auDir, auWords, auRetried>>

AuNext ==
  \/ EnsureWorker \/ SaveDictionary \/ TakeJob \/ Restart
  \/ \E j \in AuJob : DeleteKills(j) \/ Deleted(j) \/ StartWorker(j) \/ ThreadDone(j)
  \/ \E j \in AuJob, n \in AuSpeakers : Upload(j, n) \/ RetryAllowed(j, n)
  \/ \E r \in auRequest : RetrySettings(r) \/ RetryQueued(r) \/ RetryFails(r)
  \/ \E j \in AuJob, w \in Worker :
       \/ Convert(j, w) \/ ReadWords(j, w) \/ Listen(j, w) \/ Diarize(j, w) \/ Finish(j, w)
       \/ \E reported \in BOOLEAN : WorkerFails(j, w, reported)

AuSpec == AuInit /\ [][AuNext]_AuVars

(***************************************************************************)
(* Properties.                                                             *)
(***************************************************************************)
Settled(j) == ~Waiting(j) /\ auNow.job # j /\ \A r \in auRequest : r.job # j

\* The page shows a job that is queued or running and polls for its end: such a job
\* is with the queue thread, whatever was retried, killed or restarted in between.
\* Only a worker that outlived its server may say "running" with nobody to end it.
NeverForgotten ==
  \A j \in AuJob \ auCaught :
    auThread /\ auStage[j] \in {"queued", "running"} => ~Settled(j)

\* The three things a worker keeps between runs: a job that is done shows speakers of
\* its own settings, and a summary of the very transcript beside it.
ResultOfSettings ==
  \A j \in AuJob \ auCaught :
    auStage[j] = "done" /\ Settled(j) =>
      LET r == auResult[j] IN
      /\ r.speakers = auWanted[j] /\ r.turns \in {0, auWanted[j]}
      /\ r.summary # AuNone => r.summary = [turns |-> r.turns, words |-> r.words]

\* A job asked for comes to an end, and ends as the analysis that was asked for.
AudioRight == NeverForgotten /\ ResultOfSettings
=============================================================================
