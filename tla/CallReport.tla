----------------------------- MODULE CallReport -----------------------------
(***************************************************************************)
(* The two programs that turn recorded calls into a workbook of inquiries  *)
(* (utils/cuda): "improved" and its successor "v5", started by hand, one   *)
(* at a time.  Recognition comes first, in a process that then ends to     *)
(* give the graphics memory back; then a language model is asked about     *)
(* each part of each transcript, and the answers are cleaned, merged and   *)
(* written to sheets.  Transcripts and analyses are kept in files, so that *)
(* a run that dies costs no more than the recording it worked on.          *)
(*                                                                         *)
(* Recordings are never replaced, and of v5's caches the one for the       *)
(* configuration in use is modelled.  A file is written in one piece once  *)
(* it is open.  Titles and inquiries are alike when the topics are equal.  *)
(***************************************************************************)
EXTENDS Integers, Sequences, FiniteSets, FiniteSetsExt, SequencesExt

CONSTANTS
  CrFiles, CrParts,     \* number of recordings, and of parts of a long transcript
  CrReplies,            \* answers [type, issues] of the model
  CrRuns, CrFaults      \* bounds on runs, and on deaths and failures

CrFile    == 1..CrFiles
CrProgram == {"improved", "v5"}
CrOption  == {"", "stt only", "force stt", "force ai", "export only"}
CrType    == {"it", "none", "unclear"}
CrStatus  == {"done", "planned", "check"}

ASSUME CrAssumption ==
  /\ {CrFiles, CrParts, CrRuns} \subseteq Nat \ {0} /\ CrFaults \in Nat
  /\ \A reply \in CrReplies :
       /\ reply.type \in CrType
       /\ \A issue \in reply.issues : /\ issue.grounded \in BOOLEAN /\ issue.sure \in BOOLEAN
                                      /\ issue.status \in CrStatus

VARIABLES
  crText,     \* the transcript of each program and recording: [is, n]
  crAi,       \* its analysis: [is, of, type, issues], of is the transcript's number
  crRun,      \* the program that runs and what it has
  crBook,     \* the workbook of each program: [sel, results, errors, whole]
  crN,        \* recognitions so far
  crRuns, crFaults,
  crAsked,    \* analyses stored for each recording, for the properties
  crForced    \* recordings whose forced repetition has not come to its end, and all forced

CrVars == <<crText, crAi, crRun, crBook, crN, crRuns, crFaults, crAsked, crForced>>
CrCount == <<crRuns, crFaults>>

NoText  == [is |-> "none", n |-> 0]
NoAi    == [is |-> "none", of |-> 0, type |-> "none", issues |-> {}]
NoRun   == [by |-> "", opt |-> "", at |-> "idle", sel |-> {}, todo |-> {}, left |-> 0,
            raw |-> <<>>, types |-> {}, results |-> {}, errors |-> {}]
NoBook  == [sel |-> {}, results |-> {}, errors |-> {}, whole |-> FALSE]

CrInit ==
  /\ crText = [p \in CrProgram |-> [f \in CrFile |-> NoText]]
  /\ crAi = [p \in CrProgram |-> [f \in CrFile |-> NoAi]]
  /\ crRun = NoRun /\ crBook = [p \in CrProgram |-> NoBook]
  /\ crN = 0 /\ crRuns = 0 /\ crFaults = 0
  /\ crAsked = [p \in CrProgram |-> [f \in CrFile |-> 0]]
  /\ crForced = [open |-> {}, all |-> {}]

By   == crRun.by
File == Min(crRun.todo)
Fault == crFaults < CrFaults /\ crFaults' = crFaults + 1

(***************************************************************************)
(* A run: which recordings lack a transcript.  v5 copies what "improved"   *)
(* has recognised, unless it is to recognise again.  "improved" takes all  *)
(* recordings and has no options.  "stt only" is what v5 starts for its    *)
(* recognition, and is not started by hand.                                *)
(***************************************************************************)
Legacy(f, opt) == opt # "force stt" /\ crText["improved"][f].is # "none"

Copied(sel, opt) ==
  [crText EXCEPT !["v5"] =
     [f \in CrFile |-> IF f \in sel /\ @[f].is = "none" /\ Legacy(f, opt)
                       THEN crText["improved"][f] ELSE @[f]]]

Start(p, opt, sel) ==
  /\ crRun.at = "idle" /\ crRuns < CrRuns /\ crRuns' = crRuns + 1 /\ sel # {}
  /\ p = "improved" => opt = "" /\ sel = CrFile
  /\ opt # "stt only"
  /\ crText' = IF p = "v5" THEN Copied(sel, opt) ELSE crText
  /\ crRun' = [NoRun EXCEPT !.by = p, !.opt = opt, !.sel = sel, !.at = "stt",
                 !.todo = IF opt = "export only" THEN {}
                          ELSE {f \in sel : opt = "force stt" \/ crText'[p][f].is = "none"}]
  /\ crForced' = IF opt \in {"force stt", "force ai"}
                 THEN [open |-> crForced.open \cup (IF opt = "force stt" THEN sel ELSE {}),
                       all |-> crForced.all \cup sel]
                 ELSE crForced
  /\ UNCHANGED <<crAi, crBook, crN, crFaults, crAsked>>

\* The transcript's file is opened, which empties it, once the recording is recognised.
OpenText ==
  /\ crRun.at = "stt" /\ crRun.todo # {}
  /\ crText' = [crText EXCEPT ![By][File] = [is |-> "empty", n |-> 0]]
  /\ crRun' = [crRun EXCEPT !.at = "text"]
  /\ UNCHANGED <<crAi, crBook, crN, CrCount, crAsked, crForced>>

\* Nothing may have been said in it.
WriteText(silent) ==
  /\ crRun.at = "text" /\ crN' = crN + 1
  /\ crText' = IF silent THEN crText
               ELSE [crText EXCEPT ![By][File] = [is |-> "whole", n |-> crN']]
  /\ crRun' = [crRun EXCEPT !.at = "stt", !.todo = @ \ {File}]
  /\ UNCHANGED <<crAi, crBook, CrCount, crAsked, crForced>>

\* An error of one recording, and the end of the whole process of v5.
RecogniseFails ==
  /\ crRun.at = "stt" /\ crRun.todo # {} /\ Fault
  /\ \E rest \in {crRun.todo \ {File}} \cup (IF By = "v5" THEN {{}} ELSE {}) :
       crRun' = [crRun EXCEPT !.todo = rest]
  /\ UNCHANGED <<crText, crAi, crBook, crN, crRuns, crAsked, crForced>>

\* Recognition is over; without the model's server v5 stops here.
ToAnalysis ==
  /\ crRun.at = "stt" /\ crRun.todo = {}
  /\ crRun' = [crRun EXCEPT !.at = "files", !.todo = crRun.sel]
  /\ UNCHANGED <<crText, crAi, crBook, crN, CrCount, crAsked, crForced>>

(***************************************************************************)
(* The analysis of one recording.                                          *)
(***************************************************************************)
Moved(results, errors) ==
  [crRun EXCEPT !.at = "files", !.todo = @ \ {File}, !.left = 0, !.raw = <<>>, !.types = {},
                !.results = @ \cup results, !.errors = @ \cup errors]

Result(f, ai) == [file |-> f, type |-> ai.type, issues |-> ai.issues, of |-> ai.of]

\* No transcript, or nothing in it.
NoTranscript ==
  /\ crRun.at = "files" /\ crRun.todo # {} /\ crText[By][File].is # "whole"
  /\ crRun' = Moved({}, {File})
  /\ UNCHANGED <<crText, crAi, crBook, crN, CrCount, crAsked, crForced>>

Reused_UnlessForcedAi == crAi[By][File].is = "whole" /\ crRun.opt # "force ai"   \* mutant
Reused == crAi[By][File].is = "whole" /\ crRun.opt \notin {"force ai", "force stt"}

FromCache ==
  /\ crRun.at = "files" /\ crRun.todo # {} /\ crText[By][File].is = "whole" /\ Reused
  /\ crRun' = Moved({Result(File, crAi[By][File])}, {})
  /\ UNCHANGED <<crText, crAi, crBook, crN, CrCount, crAsked, crForced>>

\* What "improved" left torn it cannot read ever after; v5 would analyse again.
TornCache ==
  /\ crRun.at = "files" /\ crRun.todo # {} /\ crText[By][File].is = "whole"
  /\ By = "improved" /\ crAi[By][File].is = "torn"
  /\ crRun' = Moved({}, {File})
  /\ UNCHANGED <<crText, crAi, crBook, crN, CrCount, crAsked, crForced>>

Passed_Silently == {}                                            \* mutant
Passed == {File}

NoAnalysis ==
  /\ crRun.at = "files" /\ crRun.todo # {} /\ crText[By][File].is = "whole" /\ ~Reused
  /\ crRun.opt = "export only"
  /\ crRun' = Moved({}, Passed)
  /\ UNCHANGED <<crText, crAi, crBook, crN, CrCount, crAsked, crForced>>

\* v5 leaves out a call that plainly is about a visit without asking.
BeginAnalysis(parts) ==
  /\ crRun.at = "files" /\ crRun.todo # {} /\ crText[By][File].is = "whole" /\ ~Reused
  /\ crRun.opt # "export only" /\ ~(By = "improved" /\ crAi[By][File].is = "torn")
  /\ parts = 0 => By = "v5"
  /\ crRun' = [crRun EXCEPT !.at = IF parts = 0 THEN "save" ELSE "ask", !.left = parts]
  /\ UNCHANGED <<crText, crAi, crBook, crN, CrCount, crAsked, crForced>>

\* The issues of a part. v5 lowers its trust in those of an unclear one and takes none of
\* a call that is no inquiry; "improved" has no types.
Taken(reply) ==
  IF By = "improved" \/ reply.type = "it" THEN SetToSeq(reply.issues)
  ELSE IF reply.type = "none" THEN <<>>
       ELSE SetToSeq({[issue EXCEPT !.sure = FALSE] : issue \in reply.issues})

Ask(reply) ==
  /\ crRun.at = "ask" /\ crRun.left > 0
  /\ crRun' = [crRun EXCEPT !.left = @ - 1, !.raw = @ \o Taken(reply),
                 !.types = @ \cup {reply.type},
                 !.at = IF crRun.left > 1 THEN "ask"
                        ELSE IF By = "improved" /\ Cardinality(crRun.types) > 0
                             THEN "consolidate" ELSE "save"]
  /\ UNCHANGED <<crText, crAi, crBook, crN, CrCount, crAsked, crForced>>

\* Every attempt failed: the recording is an error of this run.
AskFails ==
  /\ crRun.at = "ask" /\ Fault
  /\ crRun' = Moved({}, {File})
  /\ UNCHANGED <<crText, crAi, crBook, crN, crRuns, crAsked, crForced>>

\* "improved" has the model put the parts together once more, which may fail.
Consolidate(reply) ==
  /\ crRun.at = "consolidate"
  /\ crRun' = [crRun EXCEPT !.at = "save", !.raw = Taken(reply)]
  /\ UNCHANGED <<crText, crAi, crBook, crN, CrCount, crAsked, crForced>>

ConsolidateFails ==
  /\ crRun.at = "consolidate" /\ Fault
  /\ crRun' = [crRun EXCEPT !.at = "save"]
  /\ UNCHANGED <<crText, crAi, crBook, crN, crRuns, crAsked, crForced>>

----------------------------------------------------------------------------
(***************************************************************************)
(* check_issue and merge_issues of v5, clean_ai_item and                   *)
(* merge_duplicate_inquiries of "improved".                                *)
(***************************************************************************)
Rank == [done |-> 1, planned |-> 2, check |-> 3]

Cleaned(issue) ==
  [topic |-> issue.topic, status |-> issue.status, of |-> {issue},
   review |-> IF By = "v5" THEN ~issue.grounded \/ ~issue.sure ELSE ~issue.sure]

Doubtful_Latest(a, b) == b.review                                \* mutant
Doubtful(a, b) == IF By = "v5" THEN a.review \/ b.review ELSE a.review /\ b.review

Status_Farthest(a, b) ==                                         \* mutant
  IF Rank[a.status] > Rank[b.status] THEN b.status ELSE a.status
Status(a, b) ==
  IF By = "improved" THEN (IF Rank[b.status] > Rank[a.status] THEN b.status ELSE a.status)
  ELSE IF a.status = b.status THEN a.status ELSE "check"

MergedIssues(raw) ==
  LET put(found, issue) ==
        LET i == Cleaned(issue)
            like == {k \in DOMAIN found : found[k].topic = i.topic}
        IN IF like = {} THEN Append(found, i)
           ELSE [found EXCEPT ![Min(like)] =
                   [topic |-> @.topic, of |-> @.of \cup i.of, status |-> Status(@, i),
                    review |-> Doubtful(@, i)]]
  IN FoldLeft(put, <<>>, raw)

TypeOf(types) ==
  IF "it" \in types THEN "it" ELSE IF "unclear" \in types THEN "unclear" ELSE "none"

\* "improved" has no type of a call.
Analysis ==
  LET type == IF By = "improved" THEN "it" ELSE TypeOf(crRun.types)
      found == ToSet(MergedIssues(crRun.raw))
  IN [is |-> "whole", of |-> crText[By][File].n, type |-> type,
      issues |-> IF type = "none" THEN {}
                 ELSE {[i EXCEPT !.review = @ \/ type = "unclear"] : i \in found}]

\* v5 replaces the file in one step; "improved" opens it first.
OpenAi ==
  /\ crRun.at = "save" /\ By = "improved"
  /\ crAi' = [crAi EXCEPT ![By][File] = [NoAi EXCEPT !.is = "torn"]]
  /\ crRun' = [crRun EXCEPT !.at = "write"]
  /\ UNCHANGED <<crText, crBook, crN, CrCount, crAsked, crForced>>

SaveAi ==
  /\ crRun.at = IF By = "v5" THEN "save" ELSE "write"
  /\ crAi' = [crAi EXCEPT ![By][File] = Analysis]
  /\ crRun' = Moved({Result(File, Analysis)}, {})
  /\ crAsked' = [crAsked EXCEPT ![By][File] = @ + 1]
  /\ crForced' = [crForced EXCEPT !.open = IF By = "v5" THEN @ \ {File} ELSE @]
  /\ UNCHANGED <<crText, crBook, crN, CrCount>>

----------------------------------------------------------------------------
(***************************************************************************)
(* The workbook.  "improved" saves what it has at every checkpoint to the  *)
(* same file; v5 keeps checkpoints elsewhere and swaps the finished file   *)
(* in, beside the old one while a spreadsheet holds that open.             *)
(***************************************************************************)
Booked(whole) ==
  [crBook EXCEPT ![By] = [sel |-> crRun.sel, results |-> crRun.results, errors |-> crRun.errors,
                          whole |-> whole]]

Checkpoint ==
  /\ crRun.at = "files" /\ By = "improved" /\ crRun.todo \notin {{}, crRun.sel}
  /\ ~(crBook[By].results = crRun.results /\ crBook[By].errors = crRun.errors)
  /\ crBook' = Booked(FALSE)
  /\ UNCHANGED <<crText, crAi, crRun, crN, CrCount, crAsked, crForced>>

FinishBook ==
  /\ crRun.at = "files" /\ crRun.todo = {}
  /\ crBook' = Booked(TRUE) /\ crRun' = NoRun
  /\ UNCHANGED <<crText, crAi, crN, CrCount, crAsked, crForced>>

\* The process dies, or stops with an error: no server of the model, a file held open.
CrDie ==
  /\ crRun.at # "idle" /\ Fault
  /\ crRun' = NoRun
  /\ UNCHANGED <<crText, crAi, crBook, crN, crRuns, crAsked, crForced>>

CrNext ==
  \/ \E p \in CrProgram, opt \in CrOption, sel \in SUBSET CrFile : Start(p, opt, sel)
  \/ OpenText \/ (\E silent \in BOOLEAN : WriteText(silent)) \/ RecogniseFails \/ ToAnalysis
  \/ NoTranscript \/ FromCache \/ TornCache \/ NoAnalysis
  \/ \E parts \in 0..CrParts : BeginAnalysis(parts)
  \/ \E reply \in CrReplies : Ask(reply) \/ Consolidate(reply)
  \/ AskFails \/ ConsolidateFails
  \/ OpenAi \/ SaveAi \/ Checkpoint \/ FinishBook \/ CrDie

CrSpec == CrInit /\ [][CrNext]_CrVars

----------------------------------------------------------------------------
Accepted(result) == {i \in result.issues : ~i.review /\ result.type = "it"}

\* Every recording a finished run was asked for is in its workbook once: with a result or
\* as an error. For v5 that is every workbook there is.
EveryCallBooked ==
  \A p \in CrProgram :
    LET book == crBook[p]  got == {r.file : r \in book.results}
    IN book.whole \/ p = "v5" =>
         /\ got \cup book.errors = book.sel /\ got \cap book.errors = {}
         /\ Cardinality(book.results) = Cardinality(got)

\* v5 puts no issue among the inquiries that one of its parts gave reason to doubt, and
\* calls nothing done that one part of the call leaves open, whatever was merged.
DoubtKept ==
  \A r \in crBook["v5"].results : \A i \in Accepted(r) :
    \A raw \in i.of : /\ raw.sure /\ raw.grounded
                      /\ i.status = "done" => raw.status = "done"

\* An analysis v5 stores or shows belongs to the transcript it has, until a run that was to
\* recognise the call again breaks off between its transcript and its analysis.
OfItsTranscript ==
  /\ \A f \in CrFile \ crForced.open :
       crAi["v5"][f].is = "whole" => crText["v5"][f] = [is |-> "whole", n |-> crAi["v5"][f].of]
  /\ By = "v5" /\ crRun.opt = "force stt" =>
       \A r \in crRun.results : r.of = crText["v5"][r.file].n

\* Work is not done twice: unless it is told to, a program analyses a call once for good,
\* through all deaths, failures and repetitions.
OnceForGood ==
  \A p \in CrProgram, f \in CrFile :
    (p = "improved" \/ f \notin crForced.all) => crAsked[p][f] <= 1

CallsRight == EveryCallBooked /\ DoubtKept /\ OfItsTranscript /\ OnceForGood

=============================================================================
