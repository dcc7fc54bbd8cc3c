------------------------------- MODULE Curate -------------------------------
(***************************************************************************)
(* The sorting page over the gallery "refine" (app/image_curate.py): what  *)
(* the user decides of a picture, the rounds in which everything is looked *)
(* at again, the runs of embed.py and features.py that bring the caches up *)
(* to date, and the screening of image2 with the model.  The runs of both  *)
(* take the one GPU in turn.  Where files go is modelled by Gallery.       *)
(***************************************************************************)
EXTENDS Integers, FiniteSets

CONSTANTS
  CuPicture,      \* pictures of the gallery
  CuFound,        \* pictures of image2
  CuNone,
  CuClock,        \* bound: seconds
  CuChanges,      \* bound: pictures that come or are cropped
  CuScreens       \* bound: screenings

ASSUME CuAssumption ==
  CuNone \notin CuPicture /\ CuClock \in Nat /\ CuChanges \in Nat /\ CuScreens \in Nat

Script == {1, 2}                                  \* _EMBED_SCRIPTS: embed.py, features.py

VARIABLES
  cuNow,        \* the clock, in seconds
  cuPlace,      \* where each picture is: "refine", "review", "archive" or "gone"
  cuLabel,      \* labels.json: what was decided, on which tab, at what time
  cuSince,      \* round.json: `started`, or CuNone
  cuAsked,      \* a decision on its way: taken at `ts`, waiting for _lock
  cuLooked,     \* history: pictures decided on after the round was started
  \* the embedding
  cuStale,      \* for each script, the changes that its cache does not have
  cuTimer,      \* _debounce: a timer runs
  cuRunning, cuAgain, cuError,     \* _embed
  cuStep,       \* the worker: the script that is next or runs, 3 when both are over
  cuReads,      \* what the script that runs will have put into its cache
  cuGpu,        \* _gpu_lock: who holds it
  \* the screening of image2
  cuScreen,     \* _screen: "idle", "wait", "gpu", "classify"
  cuResult,     \* _screen["result"]: what passed
  cuMoving,     \* _screen_move: what is left to move
  cuOut,        \* pictures of image2
  cuChanged, cuScreened

decides == <<cuPlace, cuLabel, cuSince, cuAsked, cuLooked>>
worker  == <<cuStep, cuReads, cuError>>
screens == <<cuScreen, cuResult, cuMoving, cuOut, cuScreened>>
CuVars  == <<cuNow, decides, cuStale, cuTimer, cuRunning, cuAgain, worker, cuGpu, screens, cuChanged>>

NotDecided == [label |-> "none", src |-> "none", ts |-> 0]

CuInit ==
  /\ cuNow = 1 /\ cuPlace = [p \in CuPicture |-> "refine"]
  /\ cuLabel = [p \in CuPicture |-> NotDecided] /\ cuSince = CuNone
  /\ cuAsked = CuNone /\ cuLooked = {}
  /\ cuStale = [s \in Script |-> {}] /\ cuTimer = FALSE
  /\ cuRunning = FALSE /\ cuAgain = FALSE /\ cuError = FALSE /\ cuStep = 1 /\ cuReads = {}
  /\ cuGpu = "free"
  /\ cuScreen = "idle" /\ cuResult = CuNone /\ cuMoving = CuNone /\ cuOut = CuFound
  /\ cuChanged = 0 /\ cuScreened = 0

Tick ==
  /\ cuNow < CuClock /\ cuNow' = cuNow + 1
  /\ UNCHANGED <<decides, cuStale, cuTimer, cuRunning, cuAgain, worker, cuGpu, screens, cuChanged>>

(***************************************************************************)
(* The embedding.                                                          *)
(***************************************************************************)
\* _kick_embed: start the worker, or tell the one that runs to go once more
KickEmbed_WhenIdle ==                                            \* mutant
  cuRunning' = TRUE /\ UNCHANGED cuAgain
KickEmbed ==
  cuRunning' = TRUE /\ cuAgain' = cuRunning

\* A picture comes into the gallery or is cropped: schedule_embed, 60 s after the last one
Change(p) ==
  /\ cuChanged < CuChanges /\ cuChanged' = cuChanged + 1 /\ cuPlace[p] = "refine"
  /\ cuStale' = [s \in Script |-> cuStale[s] \cup {p}] /\ cuReads' = cuReads \ {p}
  /\ cuTimer' = TRUE
  /\ UNCHANGED <<cuNow, decides, cuRunning, cuAgain, cuStep, cuError, cuGpu, screens>>

TimerFires ==
  /\ cuTimer /\ cuTimer' = FALSE /\ KickEmbed
  /\ UNCHANGED <<cuNow, decides, cuStale, worker, cuGpu, screens, cuChanged>>

\* api_embed: the page is opened, or has saved a crop
ApiEmbed ==
  /\ KickEmbed
  /\ UNCHANGED <<cuNow, decides, cuStale, cuTimer, worker, cuGpu, screens, cuChanged>>

\* _embed_worker: a script reads the gallery as it is, and computes
ScriptStarts ==
  /\ cuRunning /\ cuStep \in Script /\ cuGpu = "free" /\ cuGpu' = "embed"
  /\ cuReads' = cuStale[cuStep]
  /\ UNCHANGED <<cuNow, decides, cuStale, cuTimer, cuRunning, cuAgain, cuStep, cuError, screens,
                 cuChanged>>

\* it ends, well or not; the second one runs either way
ScriptEnds ==
  /\ cuGpu = "embed" /\ cuGpu' = "free" /\ cuStep' = cuStep + 1 /\ cuReads' = {}
  /\ \/ cuStale' = [cuStale EXCEPT ![cuStep] = @ \ cuReads]
        /\ cuError' = (cuError /\ cuStep = 2)
     \/ UNCHANGED cuStale /\ cuError' = TRUE
  /\ UNCHANGED <<cuNow, decides, cuTimer, cuRunning, cuAgain, screens, cuChanged>>

WorkerEnds ==
  /\ cuRunning /\ cuStep = 3 /\ cuStep' = 1
  /\ cuRunning' = cuAgain /\ cuAgain' = FALSE
  /\ UNCHANGED <<cuNow, decides, cuStale, cuTimer, cuReads, cuError, cuGpu, screens, cuChanged>>

(***************************************************************************)
(* Decisions and rounds.                                                   *)
(***************************************************************************)
\* api_apply and api_restore read the clock, and wait for _lock
Decide(p, what, src) ==
  /\ cuAsked = CuNone
  /\ cuAsked' = [pic |-> p, label |-> what, src |-> src, ts |-> cuNow]
  /\ cuLooked' = cuLooked \cup (IF cuSince # CuNone THEN {p} ELSE {})
  /\ UNCHANGED <<cuNow, cuPlace, cuLabel, cuSince, cuStale, cuTimer, cuRunning, cuAgain, worker,
                 cuGpu, screens, cuChanged>>

Propose(p) ==
  /\ cuPlace[p] = "refine"
  /\ \/ \E what \in {"keep", "remove"} : Decide(p, what, "candidate")
     \/ Decide(p, "remove", "dup")

AskBack(p) == cuPlace[p] \in {"review", "archive"} /\ Decide(p, "keep", "restore")

\* what was moved is recorded, and what is kept
Recorded ==
  LET asked == cuAsked IN
  /\ asked # CuNone /\ cuAsked' = CuNone
  /\ cuPlace' = [cuPlace EXCEPT ![asked.pic] = IF asked.label = "remove" THEN "review" ELSE "refine"]
  /\ cuLabel' = [cuLabel EXCEPT ![asked.pic] =
                            [label |-> asked.label, src |-> asked.src, ts |-> asked.ts]]
  /\ KickEmbed
  /\ UNCHANGED <<cuNow, cuSince, cuLooked, cuStale, cuTimer, worker, cuGpu, screens, cuChanged>>

\* api_archive, and api_purge_dups for what the tab of duplicates removed
Archive(p) ==
  /\ cuPlace[p] = "review" /\ cuAsked = CuNone
  /\ \/ cuPlace' = [cuPlace EXCEPT ![p] = "archive"]
     \/ cuLabel[p].src = "dup" /\ cuPlace' = [cuPlace EXCEPT ![p] = "gone"]
  /\ KickEmbed
  /\ UNCHANGED <<cuNow, cuLabel, cuSince, cuAsked, cuLooked, cuStale, cuTimer, worker, cuGpu, screens,
                 cuChanged>>

\* api_round
StartRound_ThisSecond ==                                         \* mutant
  /\ cuSince' = cuNow /\ cuLooked' = {}
  /\ UNCHANGED <<cuNow, cuPlace, cuLabel, cuAsked, cuStale, cuTimer, cuRunning, cuAgain, worker, cuGpu,
                 screens, cuChanged>>
StartRound ==
  /\ cuSince' = cuNow + 1 /\ cuLooked' = {}
  /\ UNCHANGED <<cuNow, cuPlace, cuLabel, cuAsked, cuStale, cuTimer, cuRunning, cuAgain, worker, cuGpu,
                 screens, cuChanged>>

EndRound ==
  /\ cuSince # CuNone /\ cuSince' = CuNone
  /\ UNCHANGED <<cuNow, cuPlace, cuLabel, cuAsked, cuLooked, cuStale, cuTimer, cuRunning, cuAgain,
                 worker, cuGpu, screens, cuChanged>>

\* api_candidates: in a round, what was not decided since it began; else what was not kept
Candidates == {p \in CuPicture :
  /\ cuPlace[p] = "refine"
  /\ IF cuSince # CuNone THEN cuLabel[p].ts < cuSince ELSE cuLabel[p].label # "keep"}

(***************************************************************************)
(* The screening of image2.                                                *)
(***************************************************************************)
\* _kick_screen
KickScreen ==
  /\ cuScreened < CuScreens /\ cuScreened' = cuScreened + 1
  /\ cuScreen = "idle" /\ cuMoving = CuNone
  /\ cuScreen' = "wait" /\ cuResult' = CuNone
  /\ UNCHANGED <<cuNow, decides, cuStale, cuTimer, cuRunning, cuAgain, worker, cuGpu, cuMoving, cuOut,
                 cuChanged>>

\* _screen_worker: the features, then what passes
ScreenRuns ==
  /\ \/ cuScreen = "wait" /\ cuGpu = "free" /\ cuGpu' = "screen" /\ cuScreen' = "gpu"
        /\ UNCHANGED cuResult
     \/ cuScreen = "gpu" /\ cuGpu' = "free" /\ cuScreen' \in {"classify", "idle"}
        /\ UNCHANGED cuResult
     \/ cuScreen = "classify" /\ cuScreen' = "idle" /\ UNCHANGED cuGpu
        /\ cuResult' \in SUBSET cuOut \cup {CuNone}
  /\ UNCHANGED <<cuNow, decides, cuStale, cuTimer, cuRunning, cuAgain, worker, cuMoving, cuOut,
                 cuScreened, cuChanged>>

\* api_screen_move, and _screen_move_worker: one picture, that is there or not
MovePassed ==
  /\ cuScreen = "idle" /\ cuMoving = CuNone /\ cuResult \notin {CuNone, {}}
  /\ cuMoving' = cuResult
  /\ UNCHANGED <<cuNow, decides, cuStale, cuTimer, cuRunning, cuAgain, worker, cuGpu, cuScreen,
                 cuResult, cuOut, cuScreened, cuChanged>>

MoveOnePassed ==
  /\ cuMoving # CuNone
  /\ IF cuMoving = {} THEN cuMoving' = CuNone /\ cuResult' = CuNone /\ UNCHANGED cuOut
     ELSE \E x \in cuMoving : cuMoving' = cuMoving \ {x} /\ cuOut' = cuOut \ {x} /\ UNCHANGED cuResult
  /\ UNCHANGED <<cuNow, decides, cuStale, cuTimer, cuRunning, cuAgain, worker, cuGpu, cuScreen,
                 cuScreened, cuChanged>>

CuNext ==
  \/ Tick \/ TimerFires \/ ApiEmbed \/ ScriptStarts \/ ScriptEnds \/ WorkerEnds
  \/ Recorded \/ StartRound \/ EndRound
  \/ \E p \in CuPicture : Change(p) \/ Propose(p) \/ AskBack(p) \/ Archive(p)
  \/ KickScreen \/ ScreenRuns \/ MovePassed \/ MoveOnePassed

CuSpec == CuInit /\ [][CuNext]_CuVars

(***************************************************************************)
(* Properties.                                                             *)
(***************************************************************************)
\* "It will be in the caches": a change that a cache lacks has a timer, a script that has read
\* it or has yet to read, or another turn of the worker ahead of it, unless a script failed.
ChangeIsSeen ==
  \A s \in Script : cuStale[s] # {} =>
    \/ cuTimer \/ cuAgain \/ cuError
    \/ cuRunning /\ cuStep < s
    \/ cuRunning /\ cuStep = s /\ (cuGpu = "embed" => cuStale[s] \subseteq cuReads)

\* "Looked at again": in a round every picture of the gallery is proposed until it is decided
\* on in this round, those decided on in the second it began included.
RoundAsksAgain ==
  cuSince # CuNone =>
    \A p \in CuPicture : cuPlace[p] = "refine" /\ p \notin cuLooked => p \in Candidates

\* What the user decides reaches the ranking, and a round goes over everything.
CurateRight == ChangeIsSeen /\ RoundAsksAgain
=============================================================================
