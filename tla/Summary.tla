------------------------------ MODULE Summary -------------------------------
(***************************************************************************)
(* What tools/audio_analysis/summarizer.py makes of the items that stood   *)
(* the checks of Minutes: equal ones are merged, lists are cut, relative   *)
(* dates are resolved, keywords are chosen, and the minutes are laid out.  *)
(*                                                                         *)
(* A text is the set of its words.  A keyword is a word in one of its      *)
(* spellings; words contain others, as "proframe" contains "frame".        *)
(***************************************************************************)
EXTENDS Integers, Sequences, FiniteSets, SequencesExt

CONSTANTS
  SmItems,            \* the lists of items, by time: sequences of [kind, text, ts, due]
  SmLimit,            \* how many items of a kind are kept
  SmStarts,           \* the starts of the topics, in order
  SmSpellings,        \* the terms, in the order in which they are first said
  SmInside,           \* [short, long]: the terms that contain others, whatever the case
  SmAcronyms,         \* the terms of capital letters
  SmTalks,            \* how often each term is said, and said as a noun of its own
  KW_FREQ_QUOTA, KW_LLM_QUOTA, KW_MIN,
  SmGiven             \* bound: terms in the glossary, keywords of the language model

ASSUME SmAssumption ==
  /\ {KW_FREQ_QUOTA, KW_LLM_QUOTA, KW_MIN, SmGiven} \subseteq Nat
  /\ SmAcronyms \subseteq Range(SmSpellings)

SmKinds == {"decisions", "issues", "action_items", "requests", "risks", "schedule"}
SmTerms == Range(SmSpellings)

VARIABLES
  smStep,      \* "merge", "lay out"; "pin", "frequent", "llm", "acronyms", "shorter"; "done"
  smRows,      \* the items of all chunks, by time
  smKept,      \* those the analysis keeps, of each kind
  smPaper,     \* the lines of the minutes: [section, topic, row]
  smTalk,      \* [said, noun]
  smUser,      \* the user's terms, of the glossary and of the upload
  smLlm,       \* the keywords the language model gave
  smFound,     \* found: the terms chosen, in the order of the dictionary
  smKeywords   \* those that are left of them

smPages == <<smRows, smKept, smPaper>>
smWords == <<smTalk, smUser, smLlm, smFound, smKeywords>>
SmVars  == <<smStep, smPages, smWords>>

SmLists == UNION {[1..n -> SmTerms] : n \in 0..SmGiven}
Distinct(list) == \A i, j \in DOMAIN list : list[i] = list[j] => i = j

SmInit ==
  /\ smKept = [k \in SmKinds |-> <<>>] /\ smPaper = {} /\ smFound = <<>> /\ smKeywords = {}
  /\ \/ /\ smStep = "merge" /\ smRows \in SmItems
        /\ smTalk \in SmTalks /\ smTalk = CHOOSE t \in SmTalks : TRUE
        /\ smUser = <<>> /\ smLlm = <<>>
     \/ /\ smStep = "pin" /\ smRows = <<>> /\ smTalk \in SmTalks
        /\ smUser \in {l \in SmLists : Distinct(l)} /\ smLlm \in {l \in SmLists : Distinct(l)}

(***************************************************************************)
(* _dedupe_objects.  Texts are alike if they share 60 % of the shorter or  *)
(* 40 % of both.                                                           *)
(***************************************************************************)
Alike(x, y) ==
  LET both == Cardinality(x \cap y) IN
  \/ 10 * both >= 6 * Cardinality(x) \/ 10 * both >= 6 * Cardinality(y)
  \/ 10 * both >= 4 * Cardinality(x \cup y)

\* Two items of one utterance are the same more easily; appointments only on one date.
SameItem(row, other) ==
  /\ Alike(row.text, other.text) \/ (row.ts = other.ts /\ Cardinality(row.text \cap other.text) >= 2)
  /\ row.kind = "schedule" => row.due = other.due

OfKind(kind) == SelectSeq(smRows, LAMBDA row : row.kind = kind)
CutTo(n, list) == SubSeq(list, 1, IF Len(list) < n THEN Len(list) ELSE n)
Merged_WithAll(kind) ==                                          \* mutant
  LET rows == OfKind(kind)
      new  == SelectSeq([i \in DOMAIN rows |-> i],
                        LAMBDA i : \A j \in 1..(i - 1) : ~SameItem(rows[i], rows[j]))
  IN  CutTo(SmLimit[kind], [n \in DOMAIN new |-> rows[new[n]]])
Merged(kind) ==
  CutTo(SmLimit[kind],
        FoldLeft(LAMBDA kept, row : IF \E other \in Range(kept) : SameItem(row, other)
                                    THEN kept ELSE Append(kept, row),
                 <<>>, OfKind(kind)))

\* a request is left out if it is a task already, said within a minute of it
IsTask(row) ==
  \E task \in Range(Merged("action_items")) :
    Alike(row.text, task.text) /\ row.ts - task.ts \in -60..60

Merge ==
  /\ smStep = "merge" /\ smStep' = "lay out"
  /\ smKept' = [k \in SmKinds |->
                  IF k = "requests" THEN SelectSeq(Merged(k), LAMBDA row : ~IsTask(row))
                  ELSE Merged(k)]
  /\ UNCHANGED <<smRows, smPaper, smWords>>

(***************************************************************************)
(* build_minutes: section 1 lists the items under the topic that was on,   *)
(* sections 2 to 7 those of each kind.                                     *)
(***************************************************************************)
TopicAt(ts) ==
  LET begun == {k \in DOMAIN SmStarts : SmStarts[k] <= ts + 1}
  IN  IF begun = {} THEN 1 ELSE CHOOSE k \in begun : \A l \in begun : l <= k

Section(kind) ==
  CASE kind = "decisions" -> 2 [] kind = "requests" -> 3 [] kind = "action_items" -> 4
    [] kind = "risks" -> 5 [] kind = "issues" -> 6 [] kind = "schedule" -> 7

ByTopic == {[section |-> 1, topic |-> TopicAt(row.ts), row |-> row] :
              row \in UNION {Range(smKept[k]) : k \in SmKinds}}
ByKind_NoSchedule ==                                             \* mutant
  {[section |-> Section(row.kind), topic |-> 0, row |-> row] :
     row \in UNION {Range(smKept[k]) : k \in SmKinds \ {"schedule"}}}
ByKind == {[section |-> Section(row.kind), topic |-> 0, row |-> row] :
              row \in UNION {Range(smKept[k]) : k \in SmKinds}}

LayOut ==
  /\ smStep = "lay out" /\ smStep' = "done"
  /\ smPaper' = (IF SmStarts = <<>> THEN {} ELSE ByTopic) \cup ByKind
  /\ UNCHANGED <<smRows, smKept, smWords>>

(***************************************************************************)
(* select_keywords                                                         *)
(***************************************************************************)
Said(term) == smTalk.said[term]
SameLetters(s, t) == s = t \/ (<<s, t>> \in SmInside /\ <<t, s>> \in SmInside)
HasInside(long, short) == <<short, long>> \in SmInside
AddNew(found, terms) == found \o SelectSeq(terms, LAMBDA t : t \notin Range(found))

\* the terms of the glossary that were said
Pinned == {t \in Range(smUser) : Said(t) > 0}
Pin ==
  /\ smStep = "pin" /\ smStep' = "frequent"
  /\ smFound' = SelectSeq(smUser, LAMBDA t : t \in Pinned)
  /\ UNCHANGED <<smPages, smTalk, smUser, smLlm, smKeywords>>

\* frequent_terms: nouns said at least so often, the most frequent first
FrequentTerms ==
  LET nouns == SelectSeq(SmSpellings, LAMBDA t : smTalk.noun[t] >= KW_MIN)
  IN  SortSeq(nouns, LAMBDA s, t : smTalk.noun[s] > smTalk.noun[t])
Frequent_FillUp ==                                               \* mutant
  CutTo(IF Len(smLlm) < KW_FREQ_QUOTA THEN KW_FREQ_QUOTA - Len(smLlm) ELSE 0, FrequentTerms)
Frequent == CutTo(KW_FREQ_QUOTA, FrequentTerms)

AddFrequent ==
  /\ smStep = "frequent" /\ smStep' = "llm"
  /\ smFound' = smFound \o SelectSeq(Frequent, LAMBDA t : ~\E f \in Range(smFound) : SameLetters(f, t))
  /\ UNCHANGED <<smPages, smTalk, smUser, smLlm, smKeywords>>

\* of what the model chose, what was said and is not there yet, the most frequent first
FromLlm ==
  LET new == SelectSeq(smLlm, LAMBDA t : Said(t) > 0 /\ ~\E f \in Range(smFound) : SameLetters(f, t))
  IN  CutTo(KW_LLM_QUOTA, SortSeq(new, LAMBDA s, t : Said(s) > Said(t)))

AddLlm ==
  /\ smStep = "llm" /\ smStep' = "acronyms" /\ smFound' = smFound \o FromLlm
  /\ UNCHANGED <<smPages, smTalk, smUser, smLlm, smKeywords>>

AddAcronyms ==
  /\ smStep = "acronyms" /\ smStep' = "shorter"
  /\ smFound' = AddNew(smFound, SelectSeq(FrequentTerms, LAMBDA t : t \in SmAcronyms))
  /\ UNCHANGED <<smPages, smTalk, smUser, smLlm, smKeywords>>

\* A term said hardly ever but inside a longer one is dropped, a pinned one only if a
\* longer pinned one is said as often.  Counts of terms dropped before are zero.
Count(term, left) == IF term \in left THEN Said(term) ELSE 0
Shorter_NonePinned(short, long, left) == Said(short) - Count(long, left) < 2    \* mutant
Shorter(short, long, left) ==
  IF short \in Pinned
  THEN long \in Pinned /\ long \in left /\ Said(long) = Said(short) /\ ~SameLetters(short, long)
  ELSE Said(short) - Count(long, left) < 2

DropShorter ==
  /\ smStep = "shorter" /\ smStep' = "done"
  /\ smKeywords' =
       FoldLeft(LAMBDA left, short :
                  IF \E long \in Range(smFound) :
                       long # short /\ HasInside(long, short) /\ Shorter(short, long, left)
                  THEN left \ {short} ELSE left,
                Range(smFound), smFound)
  /\ UNCHANGED <<smPages, smTalk, smUser, smLlm, smFound>>

SmNext == Merge \/ LayOut \/ Pin \/ AddFrequent \/ AddLlm \/ AddAcronyms \/ DropShorter

SmSpec == SmInit /\ [][SmNext]_SmVars

(***************************************************************************)
(* Properties.                                                             *)
(***************************************************************************)
OnPaper(row) == \E line \in smPaper : line.section # 1 /\ line.row = row

\* "The same thing is not repeated", and nothing is lost by that: an item that stood
\* the checks is on paper, or one that says the same is, an item of its kind or the
\* task a request became; or the list of its kind is full.
NothingLostByMerging ==
  smStep = "done" =>
    \A row \in Range(smRows) :
      \/ \E other \in Range(smRows) :
           /\ OnPaper(other)
           /\ \/ other = row
              \/ other.kind = row.kind /\ SameItem(row, other)
              \/ row.kind = "requests" /\ other.kind = "action_items"
                 /\ \E twin \in Range(smRows) : /\ twin.kind = "requests" /\ (twin = row \/ SameItem(row, twin))
                                                /\ Alike(twin.text, other.text)
      \/ Len(Merged(row.kind)) = SmLimit[row.kind]

\* No two lines of one section say the same, and each line of a section stands once
\* more under the topic that was on when it was said.
NothingSaidTwice ==
  smStep = "done" =>
    \A line, other \in smPaper :
      /\ line.section = other.section /\ line.section # 1 /\ line # other
           => ~SameItem(line.row, other.row)
      /\ line.section # 1 /\ SmStarts # <<>> => \E under \in smPaper : under.section = 1 /\ under.row = line.row

\* "A term of the glossary always goes in", "if one source is protected, the other is
\* pushed out as a whole": a user's term that was said is among the keywords, or a
\* longer one of the user's that is said whenever it is; a term among the most frequent,
\* and what the model chose, is there or is part of a longer keyword.  A keyword the
\* model gives in two spellings and that is said once drops out in both.
KeywordsRight ==
  smStep = "done" /\ smRows = <<>> =>
    /\ \A t \in Pinned \ smKeywords :
         \E long \in Pinned \cap smKeywords : HasInside(long, t) /\ Said(long) = Said(t)
    /\ \A t \in Range(CutTo(KW_FREQ_QUOTA, FrequentTerms)) \cup Range(smFound) :
         Said(t) >= 2 => \E k \in smKeywords : SameLetters(k, t) \/ HasInside(k, t)
    /\ \A k, l \in smKeywords : k # l /\ SameLetters(k, l) => {k, l} \subseteq Pinned

SummaryRight == NothingLostByMerging /\ NothingSaidTwice /\ KeywordsRight
=============================================================================
