------------------------------- MODULE Picks -------------------------------
(***************************************************************************)
(* The picks of the day (job/interest_stock_picks.py).  Every five minutes *)
(* the candidates are reduced to the best, the net purchases of foreigners *)
(* and institutions are asked for one by one, and those above a score are  *)
(* written to a file of the minute and to latest.json, which the page      *)
(* reads.  Answers come back empty now and then: _LAST_FLOW keeps what was *)
(* heard of a code on the same day.  Two jobs run the same function, one   *)
(* for the hour from nine and one for the rest of the day, so that a slow  *)
(* last cycle of the first meets the first cycle of the second.            *)
(*                                                                         *)
(* Scores are in percent: the rise and the volume of a code make a fixed   *)
(* part, its flow 20 plus 2 for each percent of its trading value, within  *)
(* 0..40.                                                                  *)
(***************************************************************************)
EXTENDS Integers, Sequences, FiniteSets, FiniteSetsExt, SequencesExt

CONSTANTS
  PkNone,
  PkLists,      \* sets of candidates [code, pre, base, amount], pre and base in percent
  PkAnswers,    \* answers [foreign, institution] of the broker, PkNone for a field not given
  PRESCREEN_N, MAX_N,
  PkDays, PkCycles, PkDeaths   \* bounds

MIN_SCORE       == 40
STRONG_FLOW_MIN == 3

PkJob   == {"interest_stock_picks_early", "interest_stock_picks"}
PkField == {"foreign", "institution"}
PkCode  == {r.code : r \in UNION PkLists}

ASSUME PkAssumption ==
  /\ \A answer \in PkAnswers : \A f \in PkField : answer[f] \in Int \cup {PkNone}
  /\ {PRESCREEN_N, MAX_N, PkDays, PkCycles, PkDeaths} \subseteq Nat

VARIABLES
  pkDay, pkLate,    \* the day, and whether INST_FINAL_HOUR has passed
  pkLast,           \* _LAST_FLOW
  pkRun,            \* for each job where it is, what it began with and what it has
  pkFile,           \* latest.json (as 0) and, for each day, the newest file of the day
  pkHeard,          \* what was reported on the day, for the properties
  pkCycles, pkDeaths

PkVars == <<pkDay, pkLate, pkLast, pkRun, pkFile, pkHeard, pkCycles, pkDeaths>>

Idle    == [at |-> "idle", todo |-> <<>>, pending |-> FALSE, done |-> {}]
Latest  == 0
NoFile  == [is |-> "none", day |-> 0, picks |-> {}]
NoFlow  == [f \in PkField |-> PkNone]

PkInit ==
  /\ pkDay = 1 /\ pkLate = FALSE
  /\ pkLast = [c \in PkCode |-> [day |-> 0, flow |-> NoFlow]]
  /\ pkRun = [j \in PkJob |-> Idle]
  /\ pkFile = [f \in 0..PkDays |-> NoFile]
  /\ pkHeard = {} /\ pkCycles = 0 /\ pkDeaths = 0

\* The best candidates by _prescreen_score, best first.
Prescreened(rows) ==
  LET sorted == SetToSortSeq(rows, LAMBDA r, s : r.pre > s.pre)
  IN SubSeq(sorted, 1, Min({PRESCREEN_N, Len(sorted)}))

Begin(j) ==
  /\ pkRun[j].at = "idle" /\ pkCycles < PkCycles /\ pkCycles' = pkCycles + 1
  /\ \E rows \in PkLists :
       pkRun' = [pkRun EXCEPT ![j] = [at |-> "flows", todo |-> Prescreened(rows),
                                      pending |-> ~pkLate, done |-> {}]]
  /\ UNCHANGED <<pkDay, pkLate, pkLast, pkFile, pkHeard, pkDeaths>>

\* An answer's nought of institutions in the session means: not counted yet.
Final(answer, pending) == {f \in PkField : ~(f = "institution" /\ pending /\ answer[f] = 0)}

Counted_AsGiven(answer, pending) == answer                       \* mutant
Counted(answer, pending) ==
  IF pending /\ answer["institution"] = 0 THEN [answer EXCEPT !["institution"] = PkNone] ELSE answer

\* _carry_forward_flow: a field not answered is filled from the same day's last answer.
Known_AnyDay(c) == pkLast[c].flow                                \* mutant
Known(c) == IF pkLast[c].day = pkDay THEN pkLast[c].flow ELSE NoFlow

Carried_AnswerOnly(c, answer) == answer                          \* mutant
Carried(c, answer) ==
  [f \in PkField |-> IF answer[f] = PkNone THEN Known(c)[f] ELSE answer[f]]

Num(v) == IF v = PkNone THEN 0 ELSE v

Net(flow) == Num(flow["foreign"]) + Num(flow["institution"])

\* The flow's part of the score; a request that failed is neutral.
FlowScore(row, flow, asked) ==
  IF ~asked \/ row.amount <= 0 THEN 20
  ELSE Max({0, Min({40, 20 + (200 * Net(flow)) \div row.amount})})

Confirmed(row, flow, asked) ==
  asked /\ row.amount > 0 /\ 100 * Net(flow) >= STRONG_FLOW_MIN * row.amount

Label_ByScore(score, confirmed) ==                               \* mutant
  IF score >= 70 THEN "strong" ELSE IF score >= 55 THEN "buy" ELSE "watch"
Label(score, confirmed) ==
  IF score >= 70 THEN (IF confirmed THEN "strong" ELSE "buy")
  ELSE IF score >= 55 THEN "buy" ELSE IF score >= MIN_SCORE THEN "watch" ELSE "wait"

Judged(row, flow, asked, pending) ==
  LET score == row.base + FlowScore(row, flow, asked)
  IN [code |-> row.code, asked |-> asked, flow |-> flow, score |-> score,
      label |-> Label(score, Confirmed(row, flow, asked)),
      pending |-> asked /\ pending /\ flow["institution"] = PkNone]

\* get_investor_trend answers for the next candidate, with fields that may be missing.
FlowAnswered(j, answer) ==
  LET run == pkRun[j]  row == Head(run.todo)  c == row.code
      flow == Carried(c, Counted(answer, run.pending))
  IN /\ run.at = "flows" /\ run.todo # <<>>
     /\ pkLast' = [pkLast EXCEPT ![c] = [day |-> pkDay, flow |-> flow]]
     /\ pkRun' = [pkRun EXCEPT ![j].todo = Tail(@),
                               ![j].done = @ \cup {Judged(row, flow, TRUE, run.pending)}]
     /\ pkHeard' = pkHeard \cup {<<pkDay, c, f, answer[f]>> : f \in Final(answer, run.pending)}
     /\ UNCHANGED <<pkDay, pkLate, pkFile, pkCycles, pkDeaths>>

\* No rows, or an error: the code is judged without a flow.
NotAnswered(j) ==
  LET run == pkRun[j]
  IN /\ run.at = "flows" /\ run.todo # <<>>
     /\ pkRun' = [pkRun EXCEPT ![j].todo = Tail(@),
                    ![j].done = @ \cup {Judged(Head(run.todo), NoFlow, FALSE, run.pending)}]
     /\ UNCHANGED <<pkDay, pkLate, pkLast, pkFile, pkHeard, pkCycles, pkDeaths>>

\* Those of the least score, the best MAX_N of them.
Top(done) ==
  LET good == SetToSortSeq({e \in done : e.score >= MIN_SCORE}, LAMBDA a, b : a.score > b.score)
  IN ToSet(SubSeq(good, 1, Min({MAX_N, Len(good)})))

\* A file is opened for writing, which empties it, and then written.
Opens(j, from, f, to) ==
  /\ pkRun[j].at = from
  /\ pkFile' = [pkFile EXCEPT ![f] = [NoFile EXCEPT !.is = "torn", !.day = pkDay]]
  /\ pkRun' = [pkRun EXCEPT ![j].at = to]
  /\ UNCHANGED <<pkDay, pkLate, pkLast, pkHeard, pkCycles, pkDeaths>>

Writes(j, from, f, after) ==
  /\ pkRun[j].at = from
  /\ pkFile' = [pkFile EXCEPT ![f] = [is |-> "whole", day |-> pkDay, picks |-> Top(pkRun[j].done)]]
  /\ pkRun' = [pkRun EXCEPT ![j] = after]
  /\ UNCHANGED <<pkDay, pkLate, pkLast, pkHeard, pkCycles, pkDeaths>>

Save(j) ==
  \/ pkRun[j].todo = <<>> /\ Opens(j, "flows", pkDay, "of the minute")
  \/ Writes(j, "of the minute", pkDay, [pkRun[j] EXCEPT !.at = "saved"])
  \/ Opens(j, "saved", Latest, "latest")
  \/ Writes(j, "latest", Latest, Idle)

\* load_latest_picks, load_picks_for_date: a file that cannot be parsed is no result.
LoadedPicks(f) == IF pkFile[f].is = "whole" THEN pkFile[f].picks ELSE {}

Hour == /\ ~pkLate /\ pkLate' = TRUE
        /\ UNCHANGED <<pkDay, pkLast, pkRun, pkFile, pkHeard, pkCycles, pkDeaths>>

\* The jobs run from 9:30 to 20:55.
Night ==
  /\ pkDay < PkDays /\ pkLate /\ \A j \in PkJob : pkRun[j].at = "idle"
  /\ pkDay' = pkDay + 1 /\ pkLate' = FALSE
  /\ UNCHANGED <<pkLast, pkRun, pkFile, pkHeard, pkCycles, pkDeaths>>

\* The server ends: the cache is gone, and a file under way stays as it is.
PkRestart ==
  /\ pkDeaths < PkDeaths /\ pkDeaths' = pkDeaths + 1
  /\ pkRun' = [j \in PkJob |-> Idle] /\ pkLast' = [c \in PkCode |-> [day |-> 0, flow |-> NoFlow]]
  /\ UNCHANGED <<pkDay, pkLate, pkFile, pkHeard, pkCycles>>

PkNext ==
  \/ \E j \in PkJob : Begin(j) \/ NotAnswered(j) \/ Save(j)
  \/ \E j \in PkJob, answer \in PkAnswers : FlowAnswered(j, answer)
  \/ Hour \/ Night \/ PkRestart

PkSpec == PkInit /\ [][PkNext]_PkVars

----------------------------------------------------------------------------
Shown == UNION {{[pick |-> p, day |-> pkFile[f].day] : p \in LoadedPicks(f)} : f \in DOMAIN pkFile}

HeardOf(day, c, f) == {answer[f] : answer \in {a \in PkAnswers : a[f] # PkNone /\ <<day, c, f, a[f]>> \in pkHeard}}

\* Whatever cycles overlap, fail or are cut off: a flow on the page was reported on the
\* day of the page, and it is never a nought of institutions that are not counted yet.
FlowsOfTheDay ==
  \A s \in Shown : s.pick.asked =>
    \A f \in PkField :
      s.pick.flow[f] \in HeardOf(s.day, s.pick.code, f) \cup {PkNone}

\* An answer that is empty for once does not take back what the day has shown: without a
\* restart a code with an answer is judged without a flow only if none was reported yet.
EmptyAnswerHarmless ==
  pkDeaths = 0 =>
    \A j \in PkJob, f \in PkField : \A e \in pkRun[j].done :
      (e.asked /\ e.flow[f] = PkNone) =>
        \A v \in HeardOf(pkDay, e.code, f) : pkLast[e.code].flow[f] # PkNone

\* No code is shown for its score as the best without purchases to confirm it.
StrongIsConfirmed ==
  \A s \in Shown : s.pick.label = "strong" => s.pick.asked /\ Net(s.pick.flow) > 0

PicksRight == FlowsOfTheDay /\ EmptyAnswerHarmless /\ StrongIsConfirmed

============================================================================
