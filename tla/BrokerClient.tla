---------------------------- MODULE BrokerClient ----------------------------
(***************************************************************************)
(* The REST client of auto_trading/kiwoom_api.py: _call_raw, which renews  *)
(* the access token after an authentication failure and repeats the call,  *)
(* the renewal itself (_refresh_token and fn_au10001), shared by all       *)
(* threads, and the morning job, which renews the token in a process of    *)
(* its own and then loads it from .env.  A call here places an order.      *)
(*                                                                         *)
(* Tokens are numbered as the broker issues them; it answers a request for *)
(* one with the token in force, if there is one.                           *)
(***************************************************************************)
EXTENDS Integers, FiniteSets

CONSTANTS
  BcThread,
  BcNobody,      \* no thread holds the lock
  BcMaxToken,    \* bound: tokens issued
  BcMaxRetries   \* _max_429_retries

ASSUME BcAssumption ==
  /\ IsFiniteSet(BcThread) /\ BcNobody \notin BcThread
  /\ BcMaxToken \in Nat \ {0} /\ BcMaxRetries \in Nat

VARIABLES
  bcNewest, bcLive,   \* at the broker: the last token, whether it is in force
  bcMem, bcFile,      \* the token in os.environ and in .env
  bcLock, bcRecent,   \* _TOKEN_REFRESH_LOCKS; less than the cooldown ago
  bcPc, bcToken, bcTries,   \* a thread's call
  bcDone,             \* times the broker has done what the call asks
  bcCopy,             \* what reload_tokens_from_env_file has read; 0: nothing
  bcSetBack           \* the reload has put an older token back; no action reads it

bcBroker == <<bcNewest, bcLive>>
bcStore  == <<bcMem, bcFile>>
bcGuard  == <<bcLock, bcRecent>>
bcReload == <<bcCopy, bcSetBack>>
BcVars == <<bcBroker, bcStore, bcGuard, bcPc, bcToken, bcTries, bcDone, bcReload>>

BcInit ==
  /\ bcNewest = 1 /\ bcLive \in BOOLEAN /\ bcMem = 1 /\ bcFile = 1
  /\ bcLock = BcNobody /\ bcRecent = FALSE
  /\ bcPc = [t \in BcThread |-> "post"] /\ bcToken = [t \in BcThread |-> 1]
  /\ bcTries = [t \in BcThread |-> 0] /\ bcDone = [t \in BcThread |-> 0]
  /\ bcCopy = 0 /\ bcSetBack = FALSE

Good(token) == bcLive /\ token = bcNewest
Go(t, to)   == bcPc' = [bcPc EXCEPT ![t] = to]

(***************************************************************************)
(* One HTTP request: "post" is the first of an attempt, "repost" the one   *)
(* after a renewal.                                                        *)
(***************************************************************************)
Posting(t) == bcPc[t] \in {"post", "repost"}

Answered(t) ==
  /\ Posting(t) /\ Good(bcToken[t])
  /\ bcDone' = [bcDone EXCEPT ![t] = @ + 1]
  /\ Go(t, "answered")
  /\ UNCHANGED <<bcBroker, bcStore, bcGuard, bcToken, bcTries, bcReload>>

\* no answer in ten seconds: requests raises, whether the order arrived or not
NoAnswer_Retries(t) ==                                           \* mutant
  /\ Posting(t) /\ bcTries[t] < BcMaxRetries
  /\ bcDone' \in {bcDone, IF Good(bcToken[t]) THEN [bcDone EXCEPT ![t] = @ + 1] ELSE bcDone}
  /\ bcTries' = [bcTries EXCEPT ![t] = @ + 1]
  /\ Go(t, "post")
  /\ UNCHANGED <<bcBroker, bcStore, bcGuard, bcToken, bcReload>>
NoAnswer(t) ==
  /\ Posting(t)
  /\ bcDone' \in {bcDone, IF Good(bcToken[t]) THEN [bcDone EXCEPT ![t] = @ + 1] ELSE bcDone}
  /\ Go(t, "failed")
  /\ UNCHANGED <<bcBroker, bcStore, bcGuard, bcToken, bcTries, bcReload>>

\* 429: another attempt, with the token the call has
TooMany(t) ==
  /\ Posting(t)
  /\ IF bcTries[t] < BcMaxRetries
       THEN bcTries' = [bcTries EXCEPT ![t] = @ + 1] /\ Go(t, "post")
       ELSE Go(t, "failed") /\ UNCHANGED bcTries
  /\ UNCHANGED <<bcBroker, bcStore, bcGuard, bcToken, bcDone, bcReload>>

\* 401, or 200 with an authentication failure in the body: a second one raises
\* in the first case, and is handed out like data in the second
Refused(t) ==
  /\ Posting(t) /\ ~Good(bcToken[t])
  /\ \/ bcPc[t] = "post" /\ Go(t, "renew")
     \/ bcPc[t] = "repost" /\ (Go(t, "failed") \/ Go(t, "refusal"))
  /\ UNCHANGED <<bcBroker, bcStore, bcGuard, bcToken, bcTries, bcDone, bcReload>>

(***************************************************************************)
(* _refresh_token.                                                         *)
(***************************************************************************)
Lock(t) ==
  /\ bcPc[t] = "renew" /\ bcLock = BcNobody
  /\ bcLock' = t
  /\ Go(t, IF bcRecent THEN "renewed" ELSE "issue")
  /\ UNCHANGED <<bcBroker, bcStore, bcRecent, bcToken, bcTries, bcDone, bcReload>>

\* the broker issues a token; the process has it before .env has
InForce == IF bcLive THEN bcNewest ELSE bcNewest + 1
Issue(t) ==
  /\ bcPc[t] = "issue" /\ InForce <= BcMaxToken
  /\ bcNewest' = InForce /\ bcLive' = TRUE /\ bcMem' = InForce
  /\ Go(t, "write")
  /\ UNCHANGED <<bcFile, bcGuard, bcToken, bcTries, bcDone, bcReload>>

\* the limit on renewals, or no answer: the call fails, the next may try again
NotIssued_Marked(t) ==                                           \* mutant
  /\ bcPc[t] = "issue"
  /\ bcLock' = BcNobody /\ bcRecent' = TRUE
  /\ Go(t, "failed")
  /\ UNCHANGED <<bcBroker, bcStore, bcToken, bcTries, bcDone, bcReload>>
NotIssued(t) ==
  /\ bcPc[t] = "issue"
  /\ bcLock' = BcNobody
  /\ Go(t, "failed")
  /\ UNCHANGED <<bcBroker, bcStore, bcRecent, bcToken, bcTries, bcDone, bcReload>>

\* .env under its file lock, for which another process may make it wait too long
Write(t) ==
  /\ bcPc[t] = "write"
  /\ \/ bcFile' = bcMem /\ bcRecent' = TRUE /\ Go(t, "renewed") /\ UNCHANGED bcLock
     \/ bcLock' = BcNobody /\ Go(t, "failed") /\ UNCHANGED <<bcFile, bcRecent>>
  /\ UNCHANGED <<bcBroker, bcMem, bcToken, bcTries, bcDone, bcReload>>

Unlock(t) ==
  /\ bcPc[t] = "renewed"
  /\ bcLock' = BcNobody
  /\ bcToken' = [bcToken EXCEPT ![t] = bcMem]
  /\ Go(t, "repost")
  /\ UNCHANGED <<bcBroker, bcStore, bcRecent, bcTries, bcDone, bcReload>>

CooldownOver ==
  /\ bcRecent
  /\ bcRecent' = FALSE
  /\ UNCHANGED <<bcBroker, bcStore, bcLock, bcPc, bcToken, bcTries, bcDone, bcReload>>

\* a token is in force for a day, so not only for the seconds of the cooldown
Expire ==
  /\ bcLive /\ ~bcRecent /\ \A t \in BcThread : bcPc[t] \notin {"write", "renewed", "repost"}
  /\ bcLive' = FALSE
  /\ UNCHANGED <<bcNewest, bcStore, bcGuard, bcPc, bcToken, bcTries, bcDone, bcReload>>

(***************************************************************************)
(* The morning job: the subprocess issues and writes; the server loads.    *)
(***************************************************************************)
RenewProcess ==
  /\ InForce <= BcMaxToken
  /\ bcNewest' = InForce /\ bcLive' = TRUE /\ bcFile' = InForce
  /\ UNCHANGED <<bcMem, bcGuard, bcPc, bcToken, bcTries, bcDone, bcReload>>

ReloadRead ==
  /\ bcCopy = 0
  /\ bcCopy' = bcFile
  /\ UNCHANGED <<bcBroker, bcStore, bcGuard, bcPc, bcToken, bcTries, bcDone, bcSetBack>>

ReloadWrite ==
  /\ bcCopy > 0
  /\ bcMem' = bcCopy /\ bcCopy' = 0
  /\ bcSetBack' = (bcSetBack \/ bcCopy < bcMem)
  /\ UNCHANGED <<bcBroker, bcFile, bcGuard, bcPc, bcToken, bcTries, bcDone>>

BcNext ==
  \/ \E t \in BcThread :
       \/ Answered(t) \/ NoAnswer(t) \/ TooMany(t) \/ Refused(t)
       \/ Lock(t) \/ Issue(t) \/ NotIssued(t) \/ Write(t) \/ Unlock(t)
  \/ CooldownOver \/ Expire \/ RenewProcess \/ ReloadRead \/ ReloadWrite

BcSpec == BcInit /\ [][BcNext]_BcVars

(***************************************************************************)
(* Properties.                                                             *)
(***************************************************************************)
BcTypeOK ==
  /\ bcNewest \in 1..BcMaxToken /\ bcLive \in BOOLEAN
  /\ bcMem \in 1..bcNewest /\ bcFile \in 1..bcNewest /\ bcCopy \in 0..bcNewest
  /\ bcLock \in BcThread \cup {BcNobody} /\ bcRecent \in BOOLEAN
  /\ \A t \in BcThread :
       /\ bcPc[t] \in {"post", "repost", "renew", "issue", "write", "renewed",
                       "answered", "failed", "refusal"}
       /\ bcToken[t] \in 1..bcNewest /\ bcTries[t] \in 0..BcMaxRetries /\ bcDone[t] \in Nat
       /\ bcLock = t <=> bcPc[t] \in {"issue", "write", "renewed"}

\* A call places its order at most once, whatever renewals, refusals and missing
\* answers it goes through.
OrderAtMostOnce == \A t \in BcThread : bcDone[t] <= 1

\* _is_invalid_token_response: "left alone, every number reads as zero".  No caller
\* takes an authentication failure for data, unless the morning job has put an
\* older token back while a renewal was going on.
RefusalNotData ==
  (\E t \in BcThread : bcPc[t] = "refusal") => bcSetBack

\* A call under a token that expires: repeated it orders once, refused it is not believed.
CallsSafe == OrderAtMostOnce /\ RefusalNotData
=============================================================================
