------------------------------ MODULE StateFile ------------------------------
(***************************************************************************)
(* What the jobs of auto_trading expect of a JSON state file they share:   *)
(* a load returns all of what the last store wrote, and a store replaces   *)
(* all of it at once.  A restart of the process may lose what a job has    *)
(* loaded and not stored, and nothing else.                                *)
(***************************************************************************)
CONSTANTS Job, Key, Value, Blank

Content == [Key -> Value]

VARIABLES
  file,   \* what the file says
  copy,   \* what each job has loaded, and then changed
  stage   \* how far each job is: "idle", "loaded", "changed"

fileVars == <<file, copy, stage>>

FileInit ==
  /\ file \in Content
  /\ copy = [j \in Job |-> Blank]
  /\ stage = [j \in Job |-> "idle"]

Load(j) ==
  /\ stage[j] = "idle"
  /\ stage' = [stage EXCEPT ![j] = "loaded"]
  /\ copy' = [copy EXCEPT ![j] = file]
  /\ UNCHANGED file

Change(j) ==
  /\ stage[j] = "loaded"
  /\ stage' = [stage EXCEPT ![j] = "changed"]
  /\ \E k \in Key, v \in Value : copy' = [copy EXCEPT ![j][k] = v]
  /\ UNCHANGED file

Store(j) ==
  /\ stage[j] = "changed"
  /\ file' = copy[j]
  /\ stage' = [stage EXCEPT ![j] = "idle"]
  /\ copy' = [copy EXCEPT ![j] = Blank]

\* there was nothing to change
Leave(j) ==
  /\ stage[j] = "loaded"
  /\ stage' = [stage EXCEPT ![j] = "idle"]
  /\ copy' = [copy EXCEPT ![j] = Blank]
  /\ UNCHANGED file

Restart ==
  /\ stage' = [j \in Job |-> "idle"]
  /\ copy' = [j \in Job |-> Blank]
  /\ UNCHANGED file

FileNext == \/ \E j \in Job : Load(j) \/ Change(j) \/ Store(j) \/ Leave(j)
            \/ Restart

FileSpec == FileInit /\ [][FileNext]_fileVars
=============================================================================
