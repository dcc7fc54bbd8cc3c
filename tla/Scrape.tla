------------------------------ MODULE Scrape ------------------------------
(***************************************************************************)
(* The collector of an account's posts (job/scrap/scrap_gm_playwrigit.py): *)
(* it scrolls down the profile until it has met enough posts that the      *)
(* server knows, fetches the others from the oldest on and registers each, *)
(* and tries the ones that failed once more at the end of its run.         *)
(*                                                                         *)
(* Posts are numbered from the oldest.  The pages, the addresses of their  *)
(* media and the waiting times are left out: fetching a post has one of    *)
(* the outcomes the code tells apart.                                      *)
(***************************************************************************)
EXTENDS Integers, FiniteSets

CONSTANTS
  ALREADY_COLLECTED_COUNT,
  ScPosts, ScFaults        \* bounds: posts; runs that die, servers that do not answer

ASSUME ScAssumption == {ALREADY_COLLECTED_COUNT, ScPosts, ScFaults} \subseteq Nat

VARIABLES
  scTop,       \* posts the account has
  scKnown,     \* posts registered with the server
  scTried,     \* posts that were fetched, with what result ever
  scErrors,    \* ERROR_LINKS
  scFile,      \* error_links.json
  scPending,   \* the snapshot that is being tried again
  scTodo,      \* links still to be handled, post_links; or of the snapshot
  scPhase,     \* "idle", "account", "retry"
  scStalled,   \* a scan has ended because the page did not grow in time
  scFaults

ScVars == <<scTop, scKnown, scTried, scErrors, scFile, scPending, scTodo, scPhase, scStalled, scFaults>>
scPosts == <<scTop, scKnown, scTried>>

ScInit ==
  /\ scTop = 0 /\ scKnown = {} /\ scTried = {} /\ scErrors = {} /\ scFile = {}
  /\ scPending = {} /\ scTodo = {} /\ scPhase = "idle" /\ scStalled = FALSE /\ scFaults = 0

Publish ==
  /\ scTop < ScPosts /\ scTop' = scTop + 1
  /\ UNCHANGED <<scKnown, scTried, scErrors, scFile, scPending, scTodo, scPhase, scStalled, scFaults>>

(***************************************************************************)
(* collect_post_links: from the newest post down; more known posts in a    *)
(* row than the limit end the scan, and so does a page that stands still.  *)
(***************************************************************************)
\* the scan comes to p, if these posts are known to it
Reached(p, known) ==
  ~\E q \in p + 1 .. scTop : q + ALREADY_COLLECTED_COUNT <= scTop /\ q .. q + ALREADY_COLLECTED_COUNT \subseteq known

\* run_scrap: the errors of the last run are read, and the account's profile scanned;
\* a post the server does not answer for counts as unknown
ScanProfile(silent, last) ==
  LET known == scKnown \ silent
      links == {p \in last .. scTop : p \notin known /\ Reached(p, known)} IN
  /\ scPhase = "idle" /\ scTop > 0
  /\ scFaults + (IF silent = {} THEN 0 ELSE 1) + (IF last = 1 THEN 0 ELSE 1) <= ScFaults
  /\ scFaults' = scFaults + (IF silent = {} THEN 0 ELSE 1) + (IF last = 1 THEN 0 ELSE 1)
  /\ scStalled' = (scStalled \/ last > 1)
  /\ scErrors' = scFile /\ scTodo' = links /\ scPhase' = "account"
  /\ UNCHANGED <<scPosts, scFile, scPending>>

(***************************************************************************)
(* handle_account: one link.  A post that cannot be read, or with media    *)
(* that could not be fetched, is an error link; it is registered all the   *)
(* same, as often as not: a registration that fails twice is let go.       *)
(***************************************************************************)
Outcome == {"saved", "nothing", "failed"}

\* the links of a scan from the oldest on, those of the snapshot as they failed
Turn_Newest(p) == \A q \in scTodo : q <= p                     \* mutant
Turn(p) == \A q \in scTodo : p <= q

HandleLink(p, outcome, registered) ==
  /\ p \in scTodo /\ scPhase \in {"account", "retry"}
  /\ scPhase = "account" => Turn(p)
  /\ registered \/ scFaults < ScFaults
  /\ scFaults' = IF registered THEN scFaults ELSE scFaults + 1
  /\ scTried' = scTried \cup {p} /\ scTodo' = scTodo \ {p}
  /\ scErrors' = IF outcome = "failed" THEN scErrors \cup {p} ELSE scErrors
  /\ scFile' = IF outcome = "failed" THEN scErrors' ELSE scFile
  /\ scKnown' = IF registered THEN scKnown \cup {p} ELSE scKnown
  /\ UNCHANGED <<scTop, scPending, scPhase, scStalled>>

\* handle_account raises: the rest of the links is let go, until the next run or for good
HandleRaises ==
  /\ scPhase \in {"account", "retry"} /\ scTodo # {} /\ scFaults < ScFaults
  /\ scFaults' = scFaults + 1 /\ scTodo' = {}
  /\ UNCHANGED <<scPosts, scErrors, scFile, scPending, scPhase, scStalled>>

\* run_scrap: the error links are taken, and their file emptied, before they are tried again
Retry ==
  /\ scPhase = "account" /\ scTodo = {}
  /\ scPhase' = "retry" /\ scPending' = scErrors /\ scErrors' = {}
  /\ scFile' = IF scErrors = {} THEN scFile ELSE {}
  /\ scTodo' = scErrors
  /\ UNCHANGED <<scPosts, scStalled, scFaults>>

EndRun ==
  /\ scPhase = "retry" /\ scTodo = {}
  /\ scPhase' = "idle" /\ scFile' = scErrors /\ scPending' = {}
  /\ UNCHANGED <<scPosts, scErrors, scTodo, scStalled, scFaults>>

\* the run is killed, or its browser is gone
Killed ==
  /\ scPhase # "idle" /\ scFaults < ScFaults /\ scFaults' = scFaults + 1
  /\ scPhase' = "idle" /\ scTodo' = {} /\ scPending' = {} /\ scErrors' = {}
  /\ UNCHANGED <<scPosts, scFile, scStalled>>

ScNext ==
  \/ Publish \/ HandleRaises \/ Retry \/ EndRun \/ Killed
  \/ \E silent \in SUBSET scKnown, last \in 1 .. scTop : ScanProfile(silent, last)
  \/ \E p \in scTodo, outcome \in Outcome, registered \in BOOLEAN : HandleLink(p, outcome, registered)

ScSpec == ScInit /\ [][ScNext]_ScVars

(***************************************************************************)
(* Properties.                                                             *)
(***************************************************************************)
\* "A gap in the middle that no later run looks into": wherever a run ends, and whatever
\* was registered or not, a scan that is not cut short still comes to every post that was
\* never tried; unless a page stood still in an earlier scan.
NeverPassedOver ==
  scStalled \/ \A p \in 1 .. scTop : p \notin scTried => Reached(p, scKnown)
=============================================================================
