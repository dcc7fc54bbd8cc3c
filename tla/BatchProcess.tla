---------------------------- MODULE BatchProcess ----------------------------
(***************************************************************************)
(* The thread pools of the scheduler (job/batch_runner.py), the scripts    *)
(* its jobs start (job/batch_process.py), and how the server goes down     *)
(* and comes up again (utils/common.py, run.py).                           *)
(*                                                                         *)
(* A script runs under a stub that starts the interpreter: the Job Object  *)
(* takes only the stub with it when the server dies, the interpreter and   *)
(* its workers stay (the measurement of 2026-08-30 in the source).         *)
(***************************************************************************)
EXTENDS Integers, FiniteSets

CONSTANTS
  BpIo, BpCpu,       \* jobs that run scripts, by the pool they are in
  BpTrading,         \* jobs of the trading pool
  IO_WORKERS, CPU_WORKERS, TRADING_WORKERS,   \* max_workers
  BpRestarts         \* bound: restarts of the server

ASSUME BpAssumption ==
  /\ BpIo \cap (BpCpu \cup BpTrading) = {} /\ BpCpu \cap BpTrading = {}
  /\ {IO_WORKERS, CPU_WORKERS, TRADING_WORKERS} \subseteq Nat \ {0} /\ BpRestarts \in Nat

BpScripted == BpIo \cup BpCpu
BpJobs     == BpScripted \cup BpTrading

VARIABLES
  bpServer,    \* "up"; "shut": the scheduler is; "killing"; "closing"; "down"
  bpJob,       \* "idle"; in the queue of its pool, in time or past the grace
               \* time ("late"); "running"
  bpChild,     \* its script: "no", "started", "listed" in _active_processes
  bpVictims,   \* the registered processes the shutdown has listed
  bpOrphan,    \* what earlier generations left: "no", "whole", "workers"
  bpRestarted,
  \* what the properties remember; no action reads it
  bpLate,      \* jobs whose script was not registered when the list was made
  bpLeft,      \* jobs whose script the last stop left
  bpClean      \* the last stop was by a signal

bpWork   == <<bpJob, bpChild>>
bpStop   == <<bpServer, bpVictims, bpRestarted>>
bpMemory == <<bpLeft, bpClean>>
BpVars   == <<bpStop, bpWork, bpOrphan, bpLate, bpMemory>>

BpInit ==
  /\ bpServer = "up" /\ bpVictims = {} /\ bpRestarted = 0
  /\ bpJob = [j \in BpJobs |-> "idle"] /\ bpChild = [j \in BpScripted |-> "no"]
  /\ bpOrphan = [j \in BpScripted |-> "no"]
  /\ bpLate = {} /\ bpLeft = {} /\ bpClean = FALSE

(***************************************************************************)
(* APScheduler: coalesce, max_instances = 1, misfire_grace_time.           *)
(***************************************************************************)
PoolOf_OneForAll(j) == IF j \in BpCpu THEN BpCpu ELSE BpIo \cup BpTrading   \* mutant
PoolOf(j)  == IF j \in BpIo THEN BpIo ELSE IF j \in BpCpu THEN BpCpu ELSE BpTrading
WorkersOf(j) ==
  IF j \in BpIo THEN IO_WORKERS ELSE IF j \in BpCpu THEN CPU_WORKERS ELSE TRADING_WORKERS
HasWorker(j) == Cardinality({k \in PoolOf(j) : bpJob[k] = "running"}) < WorkersOf(j)

JobDue(j) ==
  /\ bpServer = "up" /\ bpJob[j] = "idle"
  /\ bpJob' = [bpJob EXCEPT ![j] = "queued"]
  /\ UNCHANGED <<bpStop, bpChild, bpOrphan, bpLate, bpMemory>>

GraceOver(j) ==
  /\ bpServer # "down" /\ bpJob[j] = "queued"
  /\ bpJob' = [bpJob EXCEPT ![j] = "late"]
  /\ UNCHANGED <<bpStop, bpChild, bpOrphan, bpLate, bpMemory>>

\* a job that has waited for longer than the grace time is dropped.  The pools
\* begin what is queued while the server stops, too.
JobBegins(j) ==
  /\ bpServer # "down" /\ bpJob[j] \in {"queued", "late"} /\ HasWorker(j)
  /\ bpJob' = [bpJob EXCEPT ![j] = IF @ = "queued" THEN "running" ELSE "idle"]
  /\ UNCHANGED <<bpStop, bpChild, bpOrphan, bpLate, bpMemory>>

JobEnds(j) ==
  /\ bpServer # "down" /\ bpJob[j] = "running" /\ (j \in BpScripted => bpChild[j] = "no")
  /\ bpJob' = [bpJob EXCEPT ![j] = "idle"]
  /\ UNCHANGED <<bpStop, bpChild, bpOrphan, bpLate, bpMemory>>

(***************************************************************************)
(* _run_subprocess; a job may run several scripts or none.                 *)
(***************************************************************************)
Spawn(j) ==
  /\ bpServer # "down" /\ bpJob[j] = "running" /\ bpChild[j] = "no"
  /\ bpChild' = [bpChild EXCEPT ![j] = "started"]
  /\ bpLate' = IF bpServer \in {"killing", "closing"} THEN bpLate \cup {j} ELSE bpLate
  /\ UNCHANGED <<bpStop, bpJob, bpOrphan, bpMemory>>

Enlist(j) ==
  /\ bpServer # "down" /\ bpChild[j] = "started"
  /\ bpChild' = [bpChild EXCEPT ![j] = "listed"]
  /\ UNCHANGED <<bpStop, bpJob, bpOrphan, bpLate, bpMemory>>

ScriptEnds(j) ==
  /\ bpServer # "down" /\ bpChild[j] = "listed"
  /\ bpChild' = [bpChild EXCEPT ![j] = "no"]
  /\ bpVictims' = bpVictims \ {j}
  /\ UNCHANGED <<bpServer, bpRestarted, bpJob, bpOrphan, bpLate, bpMemory>>

(***************************************************************************)
(* Stopping: cleanup, kill_all_active_processes, os._exit; or no clean-up  *)
(* at all.  The registry of a cpu job is in another process.               *)
(***************************************************************************)
StopSignal ==
  /\ bpServer = "up" /\ bpServer' = "shut"
  /\ UNCHANGED <<bpVictims, bpRestarted, bpWork, bpOrphan, bpLate, bpMemory>>

ListVictims ==
  /\ bpServer = "shut" /\ bpServer' = "killing"
  /\ bpVictims' = {j \in BpIo : bpChild[j] = "listed"}
  /\ bpLate' = {j \in BpIo : bpChild[j] = "started"}
  /\ UNCHANGED <<bpRestarted, bpWork, bpOrphan, bpMemory>>

KillVictim_StubOnly(j) ==                                        \* mutant
  /\ bpServer = "killing" /\ j \in bpVictims
  /\ bpVictims' = bpVictims \ {j}
  /\ UNCHANGED <<bpServer, bpRestarted, bpWork, bpOrphan, bpLate, bpMemory>>
\* taskkill /F /T: with the tree below the stub
KillVictim(j) ==
  /\ bpServer = "killing" /\ j \in bpVictims
  /\ bpChild' = [bpChild EXCEPT ![j] = "no"]
  /\ bpVictims' = bpVictims \ {j}
  /\ UNCHANGED <<bpServer, bpRestarted, bpJob, bpOrphan, bpLate, bpMemory>>

KilledAll ==
  /\ bpServer = "killing" /\ bpVictims = {}
  /\ bpServer' = "closing"
  /\ UNCHANGED <<bpVictims, bpRestarted, bpWork, bpOrphan, bpLate, bpMemory>>

ServerGone(clean) ==
  LET alive == {j \in BpScripted : bpChild[j] # "no"} IN
  /\ bpServer \in (IF clean THEN {"closing"} ELSE {"up", "shut", "killing", "closing"})
  /\ bpServer' = "down" /\ bpVictims' = {}
  /\ bpJob' = [j \in BpJobs |-> "idle"] /\ bpChild' = [j \in BpScripted |-> "no"]
  /\ bpOrphan' = [j \in BpScripted |-> IF j \in alive THEN "whole" ELSE bpOrphan[j]]
  /\ bpLeft' = bpLeft \cup alive /\ bpClean' = clean
  /\ UNCHANGED <<bpRestarted, bpLate>>

\* the interpreter of an orphan ends; its workers never see the end of their pipe
OrphanEnds(j) ==
  /\ bpOrphan[j] = "whole"
  /\ bpOrphan' \in {[bpOrphan EXCEPT ![j] = o] : o \in {"no", "workers"}}
  /\ UNCHANGED <<bpStop, bpWork, bpLate, bpMemory>>

\* sweep_orphan_mp_workers: workers whose parent is gone, those under two minutes spared
ServerStarts(young) ==
  /\ bpServer = "down" /\ bpRestarted < BpRestarts
  /\ bpServer' = "up" /\ bpRestarted' = bpRestarted + 1
  /\ bpOrphan' = [j \in BpScripted |->
                    IF bpOrphan[j] = "workers" /\ j \notin young THEN "no" ELSE bpOrphan[j]]
  /\ bpLate' = {} /\ bpLeft' = {} /\ bpClean' = FALSE
  /\ UNCHANGED <<bpVictims, bpWork>>

BpNext ==
  \/ \E j \in BpJobs : JobDue(j) \/ GraceOver(j) \/ JobBegins(j) \/ JobEnds(j)
  \/ \E j \in BpScripted : Spawn(j) \/ Enlist(j) \/ ScriptEnds(j) \/ KillVictim(j) \/ OrphanEnds(j)
  \/ StopSignal \/ ListVictims \/ KilledAll
  \/ \E clean \in BOOLEAN : ServerGone(clean)
  \/ \E young \in SUBSET BpScripted : ServerStarts(young)

BpSpec == BpInit /\ [][BpNext]_BpVars

\* The pools work off their queues and the trading jobs end, each request with a
\* limit of its own.  Nothing is said of scripts: one waited for a key for 23 hours.
BpFairness ==
  \A j \in BpTrading : WF_BpVars(JobEnds(j)) /\ SF_BpVars(JobBegins(j))

(***************************************************************************)
(* Properties.                                                             *)
(***************************************************************************)
\* The pool of their own of 2026-09-07: however long the scripts of the other jobs
\* run, a trading job that is due begins, or is overtaken by its next time.
TradingNotHeldUp ==
  \A j \in BpTrading : bpJob[j] # "idle" ~> (bpJob[j] = "idle" \/ bpServer = "down")

\* kill_all_active_processes: after a stop by a signal the only scripts alive are
\* those the clean-up could not know, started since it made its list or by a job of
\* the process pool.
StopLeavesOnlyUnknown == bpServer = "down" /\ bpClean => bpLeft \subseteq bpLate \cup BpCpu

\* What the pools promise the trading jobs, and what a stop leaves of the scripts.
ScriptsRight == TradingNotHeldUp /\ [][StopLeavesOnlyUnknown']_BpVars

=============================================================================
