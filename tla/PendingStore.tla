----------------------------- MODULE PendingStore -----------------------------
(***************************************************************************)
(* The pending file of auto_trading/kiwoom_v8_strategy.py (ordered, sold,  *)
(* filled_qty, open_codes, pending) and the helpers by which the v8 jobs   *)
(* change it: _load_pending, a change of one entry, _save_pending.         *)
(*                                                                         *)
(* _load_pending and _save_pending each hold the lock _pending_lock; a     *)
(* helper calls one after the other.  A save writes a temporary file of    *)
(* the job's own and puts it in the place of the state file.  What is      *)
(* being written is not whole until all of it has been.                    *)
(***************************************************************************)
EXTENDS Integers

CONSTANTS
  Job,     \* the threads: the v8 buy, exit and screening jobs
  Key,     \* the entries of the file
  Value,   \* what an entry may say
  Torn,    \* a file that is not all there
  Absent,  \* no file
  Nobody,  \* nobody holds the lock
  Blank,   \* a job has loaded nothing
  Restarts \* bound: restarts of the process

Content == [Key -> Value]

ASSUME ContentAssumption == {Torn, Absent, Blank} \cap Content = {}
ASSUME JobAssumption     == Nobody \notin Job
ASSUME RestartAssumption == Restarts \in Nat

Stage == {"idle", "load", "edit", "edited", "open", "dump", "swap"}

VARIABLES
  disk,     \* STATE_PATH
  tmp,      \* each job's temporary file
  lock,     \* who holds _pending_lock
  pc,       \* what each job does next
  copy,     \* the state each job has loaded
  restarts

vars == <<disk, tmp, lock, pc, copy, restarts>>

Init ==
  /\ disk \in Content
  /\ tmp = [j \in Job |-> Absent]
  /\ lock = Nobody
  /\ pc = [j \in Job |-> "idle"]
  /\ copy = [j \in Job |-> Blank]
  /\ restarts = 0

Goto(j, stage) == pc' = [pc EXCEPT ![j] = stage]

Acquire_Held(j) == lock' = j                                     \* mutant
\* with _pending_lock:
Acquire(j) == lock = Nobody /\ lock' = j

BeginLoad(j) ==
  /\ pc[j] = "idle" /\ Acquire(j) /\ Goto(j, "load")
  /\ UNCHANGED <<disk, tmp, copy, restarts>>

\* json.load
Load(j) ==
  /\ pc[j] = "load"
  /\ copy' = [copy EXCEPT ![j] = disk]
  /\ lock' = Nobody /\ Goto(j, "edit")
  /\ UNCHANGED <<disk, tmp, restarts>>

\* the helper changes an entry of what it loaded ...
Edit(j, k, v) ==
  /\ pc[j] = "edit"
  /\ copy' = [copy EXCEPT ![j][k] = v]
  /\ Goto(j, "edited")
  /\ UNCHANGED <<disk, tmp, lock, restarts>>

\* ... or finds nothing to change, or only wanted to read
Leave(j) ==
  /\ pc[j] = "edit"
  /\ copy' = [copy EXCEPT ![j] = Blank]
  /\ Goto(j, "idle")
  /\ UNCHANGED <<disk, tmp, lock, restarts>>

BeginSave(j) ==
  /\ pc[j] = "edited" /\ Acquire(j) /\ Goto(j, "open")
  /\ UNCHANGED <<disk, tmp, copy, restarts>>

Open_InPlace(j) ==                                               \* mutant
  /\ pc[j] = "open"
  /\ disk' = Torn
  /\ Goto(j, "dump")
  /\ UNCHANGED <<tmp, lock, copy, restarts>>

\* open(tmp, 'w')
Open(j) ==
  /\ pc[j] = "open"
  /\ tmp' = [tmp EXCEPT ![j] = Torn]
  /\ Goto(j, "dump")
  /\ UNCHANGED <<disk, lock, copy, restarts>>

\* json.dump
Dump(j) ==
  /\ pc[j] = "dump"
  /\ tmp' = [tmp EXCEPT ![j] = copy[j]]
  /\ Goto(j, "swap")
  /\ UNCHANGED <<disk, lock, copy, restarts>>

\* os.replace
Swap(j) ==
  /\ pc[j] = "swap"
  /\ disk' = tmp[j]
  /\ tmp' = [tmp EXCEPT ![j] = Absent]
  /\ copy' = [copy EXCEPT ![j] = Blank]
  /\ lock' = Nobody /\ Goto(j, "idle")
  /\ UNCHANGED restarts

\* The process ends and starts again: files stay, a half written temporary
\* file among them.
Restart ==
  /\ restarts < Restarts
  /\ restarts' = restarts + 1
  /\ lock' = Nobody
  /\ pc' = [j \in Job |-> "idle"]
  /\ copy' = [j \in Job |-> Blank]
  /\ UNCHANGED <<disk, tmp>>

Step(j) == \/ BeginLoad(j) \/ Load(j) \/ Leave(j)
           \/ \E k \in Key, v \in Value : Edit(j, k, v)
           \/ BeginSave(j) \/ Open(j) \/ Dump(j) \/ Swap(j)

Next == (\E j \in Job : Step(j)) \/ Restart

Spec == Init /\ [][Next]_vars

(***************************************************************************)
(* Properties.                                                             *)
(***************************************************************************)
Holding == {"load", "open", "dump", "swap"}

TypeOK ==
  /\ disk \in Content
  /\ tmp \in [Job -> Content \cup {Torn, Absent}]
  /\ lock \in Job \cup {Nobody}
  /\ pc \in [Job -> Stage]
  /\ copy \in [Job -> Content \cup {Blank}]
  /\ restarts \in Nat

\* Never two jobs inside the load or the save of the file, restarts included.
OneAtATime ==
  \A i, j \in Job : pc[i] \in Holding /\ pc[j] \in Holding => i = j

\* how far a job is, seen from the callers of _load_pending and _save_pending
Progress(p) == IF p \in {"idle", "load"} THEN "idle"
               ELSE IF p = "edit" THEN "loaded" ELSE "changed"

Seen == [j \in Job |-> Progress(pc[j])]

File == INSTANCE StateFile WITH file <- disk, stage <- Seen

\* Through lock, temporary file and replacement the pending file behaves as a
\* file that is loaded and stored in one piece: no load sees half a file, and
\* a restart at any moment loses nothing that was stored.
FileIsWhole == File!FileSpec

=============================================================================
