------------------------------ MODULE TossToken ------------------------------
(***************************************************************************)
(* The access token of utils/toss_openapi.py.  The broker has one valid    *)
(* token per client and revokes it when it issues another, so the          *)
(* processes that use the API (the server, the jobs, another project)      *)
(* share theirs in a file.  A thread that finds it refused, or five        *)
(* minutes from its end, reads the file again and issues a new token under *)
(* a lock file, which others remove when it is 30 seconds old.  Tokens are *)
(* numbered as they are issued.                                            *)
(***************************************************************************)
EXTENDS Integers, FiniteSets

CONSTANTS
  TsThread, TsProcess,
  TsHome,            \* the process of each thread
  TsNobody,
  TsTokens, TsFaults   \* bounds: tokens; processes that die, and answers 429

ASSUME TsAssumption ==
  /\ TsHome \in [TsThread -> TsProcess] /\ TsNobody \notin TsThread
  /\ {TsTokens, TsFaults} \subseteq Nat /\ TsTokens > 1

VARIABLES
  tsNewest,      \* the last token issued
  tsAged,        \* tokens up to this one are five minutes from their end, or past it
  tsEnded,       \* tokens up to this one are not valid any more
  tsFile,        \* _TOKEN_FILE, 0 if there is none
  tsMem,         \* _token of each process
  tsGuard,       \* who holds its _token_lock
  tsLock,        \* _LOCK_FILE: "none", "held", "left" by a process that died, "old"
  tsHolder,      \* who made the lock file; no action reads it
  tsPc, tsToken, \* a thread, and the token of its request
  tsBad,         \* the token it has been refused, as the argument of _get_token
  tsMine,        \* the token it leaves the lock with
  tsTry,         \* attempt
  tsDeaths, tsBusy,
  tsBroken       \* a lock file of a living process has been removed; no action reads it

tsBroker == <<tsNewest, tsAged, tsEnded>>
tsLocks  == <<tsGuard, tsLock, tsHolder, tsBroken>>
tsCall   == <<tsToken, tsBad, tsMine, tsTry>>
tsCount  == <<tsDeaths, tsBusy>>
TsVars   == <<tsBroker, tsFile, tsMem, tsLocks, tsPc, tsCall, tsCount>>

\* the token of the file may have been revoked by one that was got in another way
TsInit ==
  /\ tsNewest \in {1, 2} /\ tsAged = 0 /\ tsEnded = 0
  /\ tsFile \in {0, 1} /\ tsMem \in [TsProcess -> {0, tsFile}]
  /\ tsGuard = [p \in TsProcess |-> TsNobody] /\ tsLock = "none" /\ tsHolder = TsNobody
  /\ tsPc = [t \in TsThread |-> "idle"]
  /\ tsToken = [t \in TsThread |-> 0] /\ tsBad = tsToken /\ tsMine = tsToken /\ tsTry = tsToken
  /\ tsDeaths = 0 /\ tsBusy = 0 /\ tsBroken = FALSE

Turns(t, to) == tsPc' = [tsPc EXCEPT ![t] = to]
\* the function returns or raises: nothing of its call is left
Ends(t, to) == /\ Turns(t, to) /\ tsToken' = [tsToken EXCEPT ![t] = 0]
               /\ tsBad' = [tsBad EXCEPT ![t] = 0] /\ tsTry' = [tsTry EXCEPT ![t] = 0]
               /\ tsMine' = [tsMine EXCEPT ![t] = 0]
AtRest(t)   == tsPc[t] \in {"idle", "refused"}
Valid(token) == token = tsNewest /\ token > tsEnded

(***************************************************************************)
(* _get: up to three attempts.                                             *)
(***************************************************************************)
Request(t) ==
  /\ AtRest(t) /\ Turns(t, "get")
  /\ UNCHANGED <<tsBroker, tsFile, tsMem, tsLocks, tsCall, tsCount>>

Accepted(t) ==
  /\ tsPc[t] = "send" /\ Valid(tsToken[t]) /\ Ends(t, "idle")
  /\ UNCHANGED <<tsBroker, tsFile, tsMem, tsLocks, tsCount>>

\* no answer in time, or the server's own failure
Unanswered(t) ==
  /\ tsPc[t] = "send" /\ Ends(t, "idle")
  /\ UNCHANGED <<tsBroker, tsFile, tsMem, tsLocks, tsCount>>

\* 401: only the first attempt is told apart
Unauthorized(t) ==
  /\ tsPc[t] = "send" /\ ~Valid(tsToken[t])
  /\ IF tsTry[t] = 0
       THEN /\ Turns(t, "get") /\ tsToken' = [tsToken EXCEPT ![t] = 0]
            /\ tsBad' = [tsBad EXCEPT ![t] = tsToken[t]] /\ tsTry' = [tsTry EXCEPT ![t] = 1]
            /\ UNCHANGED tsMine
       ELSE Ends(t, "refused")
  /\ UNCHANGED <<tsBroker, tsFile, tsMem, tsLocks, tsCount>>

\* 429
Busy(t) ==
  /\ tsPc[t] = "send" /\ tsDeaths + tsBusy < TsFaults /\ tsBusy' = tsBusy + 1
  /\ IF tsTry[t] < 2 THEN /\ Turns(t, "get") /\ tsTry' = [tsTry EXCEPT ![t] = @ + 1]
                          /\ tsToken' = [tsToken EXCEPT ![t] = 0] /\ UNCHANGED <<tsBad, tsMine>>
                     ELSE Ends(t, "idle")
  /\ UNCHANGED <<tsBroker, tsFile, tsMem, tsLocks, tsDeaths>>

(***************************************************************************)
(* _get_token, one thread of a process at a time.                          *)
(***************************************************************************)
\* a token to be had: not the one that was refused, and not about to end
Usable_Any(t, token) == token > tsAged                           \* mutant
Usable(t, token) == token # tsBad[t] /\ token > tsAged

\* After a refusal the value is not used: the next attempt asks again.
Has(t, token) ==
  IF tsBad[t] = 0 THEN Turns(t, "send") /\ tsToken' = [tsToken EXCEPT ![t] = token] /\ UNCHANGED tsBad
  ELSE Turns(t, "get") /\ tsBad' = [tsBad EXCEPT ![t] = 0] /\ UNCHANGED tsToken

Free(t) == tsGuard' = [tsGuard EXCEPT ![TsHome[t]] = TsNobody]

FromMemory(t) ==
  /\ tsPc[t] = "get" /\ tsGuard[TsHome[t]] = TsNobody
  /\ IF Usable(t, tsMem[TsHome[t]])
       THEN Has(t, tsMem[TsHome[t]]) /\ UNCHANGED tsGuard
       ELSE /\ tsGuard' = [tsGuard EXCEPT ![TsHome[t]] = t]
            /\ Turns(t, "file") /\ UNCHANGED <<tsToken, tsBad>>
  /\ UNCHANGED <<tsBroker, tsFile, tsMem, tsLock, tsHolder, tsBroken, tsMine, tsTry, tsCount>>

FromFile(t) ==
  /\ tsPc[t] = "file"
  /\ IF Usable(t, tsFile)
       THEN /\ tsMem' = [tsMem EXCEPT ![TsHome[t]] = tsFile]
            /\ Free(t) /\ Has(t, tsFile)
       ELSE Turns(t, "lock") /\ UNCHANGED <<tsMem, tsGuard, tsToken, tsBad>>
  /\ UNCHANGED <<tsBroker, tsFile, tsLock, tsHolder, tsBroken, tsMine, tsTry, tsCount>>

(***************************************************************************)
(* The lock file.                                                          *)
(***************************************************************************)
MakeLock(t) ==
  /\ tsPc[t] = "lock" /\ tsLock = "none"
  /\ tsLock' = "held" /\ tsHolder' = t /\ Turns(t, "again")
  /\ UNCHANGED <<tsBroker, tsFile, tsMem, tsGuard, tsBroken, tsCall, tsCount>>

SeeOldLock(t) ==
  /\ tsPc[t] = "lock" /\ tsLock = "old" /\ Turns(t, "remove")
  /\ UNCHANGED <<tsBroker, tsFile, tsMem, tsLocks, tsCall, tsCount>>

\* os.remove, of whatever lock file is there by now
Removed(t) ==
  /\ tsLock' = "none" /\ tsHolder' = TsNobody
  /\ tsBroken' = (tsBroken \/ tsHolder \notin {t, TsNobody})

RemoveOldLock(t) ==
  /\ tsPc[t] = "remove" /\ Removed(t) /\ Turns(t, "lock")
  /\ UNCHANGED <<tsBroker, tsFile, tsMem, tsGuard, tsCall, tsCount>>

\* twenty seconds
LockTimeout(t) ==
  /\ tsPc[t] = "lock" /\ tsLock # "none"
  /\ Free(t) /\ Ends(t, "idle")
  /\ UNCHANGED <<tsBroker, tsFile, tsMem, tsLock, tsHolder, tsBroken, tsCount>>

\* Another process may have issued one meanwhile.
ReadAgain_Not(t) ==                                              \* mutant
  /\ tsPc[t] = "again" /\ Turns(t, "issue")
  /\ UNCHANGED <<tsBroker, tsFile, tsMem, tsLocks, tsCall, tsCount>>
ReadAgain(t) ==
  /\ tsPc[t] = "again"
  /\ IF Usable(t, tsFile)
       THEN Turns(t, "unlock") /\ tsMine' = [tsMine EXCEPT ![t] = tsFile]
       ELSE Turns(t, "issue") /\ UNCHANGED tsMine
  /\ UNCHANGED <<tsBroker, tsFile, tsMem, tsLocks, tsToken, tsBad, tsTry, tsCount>>

IssueToken(t) ==
  /\ tsPc[t] = "issue" /\ tsNewest < TsTokens
  /\ tsNewest' = tsNewest + 1 /\ tsMine' = [tsMine EXCEPT ![t] = tsNewest + 1]
  /\ Turns(t, "write")
  /\ UNCHANGED <<tsAged, tsEnded, tsFile, tsMem, tsLocks, tsToken, tsBad, tsTry, tsCount>>

WriteToken(t) ==
  /\ tsPc[t] = "write" /\ tsFile' = tsMine[t] /\ Turns(t, "reread")
  /\ UNCHANGED <<tsBroker, tsMem, tsLocks, tsCall, tsCount>>

Reread(t) ==
  /\ tsPc[t] = "reread" /\ tsMine' = [tsMine EXCEPT ![t] = tsFile] /\ Turns(t, "unlock")
  /\ UNCHANGED <<tsBroker, tsFile, tsMem, tsLocks, tsToken, tsBad, tsTry, tsCount>>

Unlocked(t) ==
  /\ tsPc[t] = "unlock" /\ Removed(t) /\ Free(t)
  /\ tsMem' = [tsMem EXCEPT ![TsHome[t]] = tsMine[t]] /\ Has(t, tsMine[t])
  /\ tsMine' = [tsMine EXCEPT ![t] = 0]
  /\ UNCHANGED <<tsBroker, tsFile, tsTry, tsCount>>

\* no token is issued, or the file cannot be written
IssueFails(t) ==
  /\ tsPc[t] \in {"issue", "write"} /\ Removed(t) /\ Free(t) /\ Ends(t, "idle")
  /\ UNCHANGED <<tsBroker, tsFile, tsMem, tsCount>>

(***************************************************************************)
(* Time, and processes that die.                                           *)
(***************************************************************************)
\* Five minutes before its end.  A token lives for an hour or more: not one that was just
\* issued, and not in the moment in which a request is repeated after a refusal.
NearEnd ==
  /\ tsAged < tsNewest
  /\ \A t \in TsThread : tsTry[t] = 0 /\ tsPc[t] \notin {"write", "reread"}
  /\ tsAged' = tsNewest
  /\ UNCHANGED <<tsNewest, tsEnded, tsFile, tsMem, tsLocks, tsPc, tsCall, tsCount>>

\* A thread is done with a token in less than the five minutes of _TOKEN_MARGIN.
EndToken ==
  /\ tsEnded < tsAged
  /\ \A t \in TsThread : /\ tsPc[t] = "send"   => tsToken[t] > tsAged
                         /\ tsPc[t] = "unlock" => tsMine[t] > tsAged
  /\ tsEnded' = tsAged
  /\ UNCHANGED <<tsNewest, tsAged, tsFile, tsMem, tsLocks, tsPc, tsCall, tsCount>>

Forgotten(f, p) == [t \in TsThread |-> IF TsHome[t] = p THEN 0 ELSE f[t]]
Die(p) ==
  /\ tsDeaths + tsBusy < TsFaults /\ tsDeaths' = tsDeaths + 1
  /\ tsPc' = [t \in TsThread |-> IF TsHome[t] = p THEN "idle" ELSE tsPc[t]]
  /\ tsMem' = [tsMem EXCEPT ![p] = 0] /\ tsGuard' = [tsGuard EXCEPT ![p] = TsNobody]
  /\ IF \E t \in TsThread : tsHolder = t /\ TsHome[t] = p
       THEN tsLock' = "left" /\ tsHolder' = TsNobody
       ELSE UNCHANGED <<tsLock, tsHolder>>
  /\ tsToken' = Forgotten(tsToken, p) /\ tsBad' = Forgotten(tsBad, p)
  /\ tsMine' = Forgotten(tsMine, p) /\ tsTry' = Forgotten(tsTry, p)
  /\ UNCHANGED <<tsBroker, tsFile, tsBroken, tsBusy>>

\* thirty seconds: a living process holds it for a request of ten at most
LockAges ==
  /\ tsLock = "left" /\ tsLock' = "old"
  /\ UNCHANGED <<tsBroker, tsFile, tsMem, tsGuard, tsHolder, tsBroken, tsPc, tsCall, tsCount>>

TsNext ==
  \/ \E t \in TsThread :
       \/ Request(t) \/ Accepted(t) \/ Unanswered(t) \/ Unauthorized(t) \/ Busy(t)
       \/ FromMemory(t) \/ FromFile(t) \/ MakeLock(t) \/ SeeOldLock(t) \/ RemoveOldLock(t)
       \/ LockTimeout(t) \/ ReadAgain(t) \/ IssueToken(t) \/ WriteToken(t) \/ Reread(t)
       \/ Unlocked(t) \/ IssueFails(t)
  \/ NearEnd \/ EndToken \/ LockAges
  \/ \E p \in TsProcess : Die(p)

TsSpec == TsInit /\ [][TsNext]_TsVars

(***************************************************************************)
(* Properties.                                                             *)
(***************************************************************************)
TsTypeOK ==
  /\ tsNewest \in 1..TsTokens /\ tsAged \in 0..tsNewest /\ tsEnded \in 0..tsAged
  /\ tsFile \in 0..TsTokens /\ tsMem \in [TsProcess -> 0..TsTokens]
  /\ tsGuard \in [TsProcess -> TsThread \cup {TsNobody}]
  /\ tsLock \in {"none", "held", "left", "old"} /\ tsHolder \in TsThread \cup {TsNobody}
  /\ tsPc \in [TsThread -> {"idle", "get", "send", "file", "lock", "remove", "again", "issue",
                            "write", "reread", "unlock", "refused"}]
  /\ {tsToken, tsBad, tsMine} \subseteq [TsThread -> 0..TsTokens] /\ tsTry \in [TsThread -> 0..2]
  /\ tsDeaths \in 0..TsFaults /\ tsBusy \in 0..TsFaults /\ tsBroken \in BOOLEAN

\* "Issued each for himself they would revoke one another's": nobody is about to issue a
\* token while the one in force is in the file, in a process or in a request and not near
\* its end, unless the lock file of a living process was removed.
NoneRevoked ==
  ~tsBroken => \A t \in TsThread : tsPc[t] = "issue" /\ tsNewest > tsAged =>
    /\ tsFile # tsNewest /\ \A p \in TsProcess : tsMem[p] # tsNewest
    /\ \A u \in TsThread : tsPc[u] = "send" => tsToken[u] # tsNewest

\* "401: the token is fetched again, once": that one is accepted, so a request is given up
\* as refused only after an answer 429 or the removal of a living process's lock.
RefusedOnce ==
  (\E t \in TsThread : tsPc[t] = "refused") => tsBroken \/ tsBusy > 0

TossRight == NoneRevoked /\ RefusedOnce
=============================================================================
