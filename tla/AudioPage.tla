------------------------------ MODULE AudioPage ------------------------------
(***************************************************************************)
(* The page of the recordings, app/static/js/audio_analysis.js: it polls   *)
(* the list of the jobs while one of them is not finished, and shows the   *)
(* result of the job the user has opened.  An answer is what the server    *)
(* says at some moment between the request and its arrival, and two        *)
(* answers may arrive in either order.                                     *)
(***************************************************************************)
EXTENDS Integers, FiniteSets

CONSTANTS
  ApJob, ApNone,
  ApLost,           \* whether a call may fail
  ApRuns, ApCalls   \* bounds: analyses of a job, calls in flight

ASSUME ApAssumption == ApNone \notin ApJob /\ {ApRuns, ApCalls} \subseteq Nat /\ ApLost \in BOOLEAN

Stages     == {"queued", "running", "done"}
Unfinished == {"queued", "running"}

VARIABLES
  \* the server
  apStage, apEdition,   \* of each job: its stage, and how often it has been analysed
  \* the page
  apList,       \* view.jobs: the stages in the list
  apTimer,      \* pollTimer is set
  apOpened,     \* view.jobId
  apJob,        \* view.job: [stage, edition], of the job answered last
  apDrawn,      \* what the result card shows: [job, edition]
  apCalls       \* requests in flight; stages or edition once the server has answered

apServer == <<apStage, apEdition>>
apView   == <<apOpened, apJob, apDrawn>>
ApVars   == <<apServer, apList, apTimer, apView, apCalls>>

Blank == [stage |-> "queued", edition |-> 0]

ApInit ==
  /\ apStage \in [ApJob -> {"queued", "done"}] /\ apEdition = [j \in ApJob |-> 0]
  /\ apList = apStage /\ apTimer = TRUE
  /\ apOpened = ApNone /\ apJob = Blank
  /\ apDrawn = [job |-> ApNone, edition |-> 0] /\ apCalls = {}

Ask(kind, job) == [kind |-> kind, job |-> job, said |-> ApNone]
Room == Cardinality(apCalls) < ApCalls

(***************************************************************************)
(* The server.                                                             *)
(***************************************************************************)
ApAnalysis(j) ==
  /\ apStage[j] \in Unfinished
  /\ \/ apStage[j] = "queued"  /\ apStage' = [apStage EXCEPT ![j] = "running"]
        /\ UNCHANGED apEdition
     \/ apStage[j] = "running" /\ apStage' = [apStage EXCEPT ![j] = "done"]
        /\ apEdition' = [apEdition EXCEPT ![j] = @ + 1]
  /\ UNCHANGED <<apList, apTimer, apView, apCalls>>

Answer(c) ==
  /\ c.said = ApNone
  /\ apCalls' = (apCalls \ {c}) \cup
       {[c EXCEPT !.said = IF c.kind = "list" THEN [all |-> apStage]
                           ELSE [stage |-> apStage[c.job], edition |-> apEdition[c.job]]]}
  /\ UNCHANGED <<apServer, apList, apTimer, apView>>

(***************************************************************************)
(* loadJobs: by the timer, or when the page is looked at again.            *)
(***************************************************************************)
LoadJobs ==
  /\ Room /\ apTimer' = FALSE
  /\ apCalls' = apCalls \cup {Ask("list", ApNone)}
  /\ UNCHANGED <<apServer, apList, apView>>

\* The opened job has just ended, so far as the page knows: it is opened again.
JustEnded(stages) ==
  apOpened # ApNone /\ stages[apOpened] = "done" /\ apJob.stage # "done"

ListArrives(c) ==
  /\ c.kind = "list" /\ c.said # ApNone
  /\ apList' = c.said.all
  /\ apTimer' = (apTimer \/ \E j \in ApJob : c.said.all[j] \in Unfinished)
  /\ apCalls' = (apCalls \ {c}) \cup
       (IF JustEnded(c.said.all) THEN {Ask("open", apOpened)} ELSE {})
  /\ UNCHANGED <<apServer, apView>>

ListFails_Stops(c) ==                                            \* mutant
  /\ ApLost /\ c.kind = "list" /\ apCalls' = apCalls \ {c} /\ UNCHANGED apTimer
  /\ UNCHANGED <<apServer, apList, apView>>
ListFails(c) ==
  /\ ApLost /\ c.kind = "list" /\ apCalls' = apCalls \ {c} /\ apTimer' = TRUE
  /\ UNCHANGED <<apServer, apList, apView>>

(***************************************************************************)
(* openJob, showPlain, renderResult.                                       *)
(***************************************************************************)
Open(j) ==
  /\ Room /\ apOpened' = j
  /\ apCalls' = apCalls \cup {Ask("open", j)}
  /\ UNCHANGED <<apServer, apList, apTimer, apJob, apDrawn>>

Opened(c) ==
  /\ c.kind = "open" /\ c.said # ApNone
  /\ apJob' = c.said
  /\ apDrawn' = [job |-> c.job, edition |-> c.said.edition]
  /\ apCalls' = apCalls \ {c}
  /\ UNCHANGED <<apServer, apList, apTimer, apOpened>>

OpenFails(c) ==
  /\ ApLost /\ c.kind = "open" /\ apCalls' = apCalls \ {c}
  /\ UNCHANGED <<apServer, apList, apTimer, apView>>

(***************************************************************************)
(* The analysis is run again: from the list, or from the card with another *)
(* meeting to compare with.                                                *)
(***************************************************************************)
Again(j) ==
  /\ apEdition[j] < ApRuns /\ apStage[j] = "done" /\ Room
  /\ apStage' = [apStage EXCEPT ![j] = "queued"]
  /\ apTimer' = FALSE /\ apCalls' = apCalls \cup {Ask("list", ApNone)}
  /\ UNCHANGED <<apEdition, apList>>

RetryInList(j)  == apList[j] = "done" /\ Again(j) /\ UNCHANGED apView

Compare(j) ==
  /\ apOpened = j /\ apJob.stage = "done" /\ Again(j)
  /\ apJob' = [apJob EXCEPT !.stage = "queued"]
  /\ UNCHANGED <<apOpened, apDrawn>>

ApNext ==
  \/ LoadJobs
  \/ \E j \in ApJob : ApAnalysis(j) \/ Open(j) \/ RetryInList(j) \/ Compare(j)
  \/ \E c \in apCalls :
       Answer(c) \/ ListArrives(c) \/ ListFails(c) \/ Opened(c) \/ OpenFails(c)

ApSpec == ApInit /\ [][ApNext]_ApVars

(***************************************************************************)
(* Properties.                                                             *)
(***************************************************************************)
ListAsked == apTimer \/ \E c \in apCalls : c.kind = "list"

\* loadJobs: the page that shows a job as not finished looks again, whatever fails
\* and in whatever order the answers come.
KeepsLooking == (\E j \in ApJob : apList[j] \in Unfinished) => ListAsked

=============================================================================
