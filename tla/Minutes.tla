------------------------------ MODULE Minutes ------------------------------
(***************************************************************************)
(* How tools/audio_analysis/summarizer.py turns a transcript into minutes: *)
(* the transcript is cut into chunks, a language model proposes items and  *)
(* topics for each, the items are checked against what was said, some are  *)
(* rewritten by the model and checked again, and what is left is merged.   *)
(*                                                                         *)
(* A text is the set of its words: nouns that name something, nouns too    *)
(* vague to, exact words (numbers, dates), and "cue" for the wording that  *)
(* shows the kind of an item.  The model may say anything.                 *)
(***************************************************************************)
EXTENDS Integers, Sequences, FiniteSets, SequencesExt

CONSTANTS
  MnTranscripts,     \* the recordings: sequences of [by, at, said, size]
  MnNouns, MnVague, MnExact,                    \* words
  SUMMARY_CHUNK_CHARS, CONTEXT_BEFORE, CONTEXT_AFTER,
  REFINE_CONTEXT_BEFORE, REFINE_CONTEXT_AFTER, CUE_REPLY_UTTS,
  MnClaims,          \* starts the model gives to topics
  MnItems, MnTopics  \* bounds: items the model proposes, topics, of all chunks

ASSUME MnAssumption ==
  /\ MnVague \subseteq MnNouns /\ MnNouns \cap MnExact = {} /\ "cue" \notin MnNouns \cup MnExact
  /\ {SUMMARY_CHUNK_CHARS, CONTEXT_BEFORE, CONTEXT_AFTER, REFINE_CONTEXT_BEFORE,
      REFINE_CONTEXT_AFTER, CUE_REPLY_UTTS, MnItems, MnTopics} \subseteq Nat

VARIABLES
  mnText,     \* the transcript
  mnChunk,    \* the chunk at work
  mnStep,     \* "ask", "refine", for each chunk; "topics", for each again; "done"
  mnRows,     \* the items kept: [kind, text, chunk, i, who, due]; i is the place in the chunk
  mnTopics,   \* [title, start]
  mnAsked

MnVars == <<mnText, mnChunk, mnStep, mnRows, mnTopics, mnAsked>>

CuedKinds  == {"decisions", "requests", "risks", "issues"}
ReplyKinds == {"decisions", "issues"}    \* _CUE_IN_REPLY
MnKinds    == CuedKinds \cup {"action_items", "schedule"}
Unset      == "unset"

(***************************************************************************)
(* chunk_utterances: a chunk is filled until the next utterance would pass *)
(* the limit.                                                              *)
(***************************************************************************)
Fill(chunks, u) ==
  LET last == chunks[Len(chunks)]
      size == FoldLeft(LAMBDA n, v : n + v.size, 0, last)
  IN  IF last # <<>> /\ size + u.size > SUMMARY_CHUNK_CHARS
      THEN Append(chunks, <<u>>)
      ELSE [chunks EXCEPT ![Len(chunks)] = Append(@, u)]
Chunks == FoldLeft(Fill, <<<<>>>>, mnText)
Chunk  == Chunks[mnChunk]

\* The words said in the utterances of a chunk from one place to another.
SaidIn(chunk, first, last) == UNION {chunk[k].said : k \in (first..last) \cap DOMAIN chunk}

(***************************************************************************)
(* The checks.  At least 60 % of the quote must be in one utterance and    *)
(* the next; the best place counts.                                        *)
(***************************************************************************)
Overlap(quote, chunk, i) ==
  <<Cardinality(quote \cap SaidIn(chunk, i, i + 1)), Cardinality(quote \cap chunk[i].said)>>
Located(quote, chunk) ==
  {i \in DOMAIN chunk :
     LET o == Overlap(quote, chunk, i) IN
     /\ quote # {} /\ 10 * o[1] >= 6 * Cardinality(quote)
     /\ \A k \in DOMAIN chunk : LET p == Overlap(quote, chunk, k)
                                IN  p[1] < o[1] \/ (p[1] = o[1] /\ p[2] <= o[2])}

Supported(text, said) ==
  10 * Cardinality(text \cap said \cap MnNouns) >= 6 * Cardinality(text \cap MnNouns)
PersonOk(who, said) ==
  who # Unset /\ (who \in {mnText[k].by : k \in DOMAIN mnText} \/ who \in said)
CueHeard(kind, chunk, i) ==
  kind \in CuedKinds =>
    "cue" \in SaidIn(chunk, i, IF kind \in ReplyKinds THEN i + CUE_REPLY_UTTS ELSE i + 1)
Vague(text) == text \cap MnNouns \subseteq MnVague

\* _ground_items: the rows an item leaves, none if a check fails.  Who asked is the
\* speaker; who is asked, or does it, is what the model said if it stands the check.
Person(item, i, said) ==
  IF \/ item.kind \notin {"requests", "action_items"} \/ ~PersonOk(item.who, said)
     \/ item.kind = "requests" /\ item.who = Chunk[i].by
  THEN Unset ELSE item.who
Due(item, said) ==
  IF item.kind \in {"action_items", "schedule"} /\ item.due \in said THEN item.due ELSE Unset

Grounded(item) ==
  {[kind |-> item.kind, text |-> item.text, i |-> i, chunk |-> mnChunk,
    who |-> Person(item, i, SaidIn(Chunk, i - CONTEXT_BEFORE, i + CONTEXT_AFTER)),
    due |-> Due(item, SaidIn(Chunk, i - CONTEXT_BEFORE, i + CONTEXT_AFTER))] :
      i \in {k \in Located(item.quote, Chunk) :
              LET said == SaidIn(Chunk, k - CONTEXT_BEFORE, k + CONTEXT_AFTER) IN
              /\ item.text # {} /\ Supported(item.text, said) /\ CueHeard(item.kind, Chunk, k)
              /\ item.kind = "schedule" => Due(item, said) # Unset}}

(***************************************************************************)
(* A chunk: what the model proposes, then what it rewrites.                *)
(***************************************************************************)
MnInit ==
  /\ mnText \in MnTranscripts /\ mnChunk = 1 /\ mnStep = "ask"
  /\ mnRows = {} /\ mnTopics = <<>> /\ mnAsked = 0

Propose(item) ==
  /\ mnStep = "ask" /\ mnAsked < MnItems /\ mnAsked' = mnAsked + 1
  /\ \/ Grounded(item) = {} /\ UNCHANGED mnRows
     \/ \E row \in Grounded(item) : mnRows' = mnRows \cup {row}
  /\ UNCHANGED <<mnText, mnChunk, mnStep, mnTopics>>

Proposed ==
  /\ mnStep = "ask" /\ mnStep' = "refine"
  /\ UNCHANGED <<mnText, mnChunk, mnRows, mnTopics, mnAsked>>

\* _refine_items: the wording is changed only if the talk around it bears it out.
Rewritten_Trusted(row, text) == row.text # text                  \* mutant
Rewritten(row, text) ==
  LET said == SaidIn(Chunk, row.i - REFINE_CONTEXT_BEFORE, row.i + REFINE_CONTEXT_AFTER)
  IN  Supported(text, said) /\ text \cap MnExact \subseteq said

Refine(row, text) ==
  /\ mnStep = "refine" /\ row.chunk = mnChunk /\ text # {} /\ Rewritten(row, text)
  /\ mnRows' = (mnRows \ {row}) \cup {[row EXCEPT !.text = text]}
  /\ UNCHANGED <<mnText, mnChunk, mnStep, mnTopics, mnAsked>>

\* what is still too vague is dropped, and the next chunk begins
Refined ==
  /\ mnStep = "refine"
  /\ mnRows' = {row \in mnRows : row.chunk = mnChunk => ~Vague(row.text)}
  /\ mnChunk' = IF mnChunk = Len(Chunks) THEN 1 ELSE mnChunk + 1
  /\ mnStep' = IF mnChunk = Len(Chunks) THEN "topics" ELSE "ask"
  /\ UNCHANGED <<mnText, mnTopics, mnAsked>>

(***************************************************************************)
(* The topics of the chunks, one after the other.  A start the model made  *)
(* up falls back to the topic before it in this chunk, or to the start of  *)
(* the chunk; a neighbour of the same title is the same topic.             *)
(***************************************************************************)
Topic(title, claimed) ==
  LET first == Chunk[1].at
      known == mnTopics # <<>> /\ mnTopics[Len(mnTopics)].start >= first
      start == IF claimed \in (first - 5)..(Chunk[Len(Chunk)].at + 5) THEN claimed
               ELSE IF known THEN mnTopics[Len(mnTopics)].start ELSE first
  IN  /\ mnStep = "topics" /\ Len(mnTopics) < MnTopics
      /\ mnTopics' = IF mnTopics # <<>> /\ mnTopics[Len(mnTopics)].title = title THEN mnTopics
                     ELSE Append(mnTopics, [title |-> title, start |-> start])
      /\ UNCHANGED <<mnText, mnChunk, mnStep, mnRows, mnAsked>>

\* they are put in order; two of one start stay as they came
Ordered_AsTheyCame(topics) == topics                             \* mutant
Ordered(topics) == SortSeq(topics, LAMBDA s, t : s.start < t.start)

TopicsDone ==
  /\ mnStep = "topics" /\ UNCHANGED <<mnText, mnRows, mnAsked>>
  /\ IF mnChunk < Len(Chunks) THEN mnChunk' = mnChunk + 1 /\ UNCHANGED <<mnStep, mnTopics>>
     ELSE mnStep' = "done" /\ mnTopics' = Ordered(mnTopics) /\ UNCHANGED mnChunk

MnWords == MnNouns \cup MnExact
MnProposals ==
  [kind : MnKinds, text : SUBSET MnWords, quote : SUBSET (MnWords \cup {"cue"}),
   who : {Unset} \cup MnNouns \cup {mnText[k].by : k \in DOMAIN mnText}, due : {Unset} \cup MnExact]

MnNext ==
  \/ \E item \in MnProposals : Propose(item)
  \/ Proposed
  \/ \E row \in mnRows, text \in SUBSET MnWords : Refine(row, text)
  \/ Refined \/ TopicsDone
  \/ \E title \in {"t1", "t2"}, claimed \in MnClaims : Topic(title, claimed)

MnSpec == MnInit /\ [][MnNext]_MnVars

(***************************************************************************)
(* The minutes.                                                            *)
(***************************************************************************)
Ts(row) == Chunks[row.chunk][row.i].at
\* the last topic that has begun when the item is said, or the first of all
TopicOf(row) ==
  LET begun == {k \in DOMAIN mnTopics : mnTopics[k].start <= Ts(row) + 1}
  IN  IF begun = {} THEN 1 ELSE CHOOSE k \in begun : \A l \in begun : l <= k

(***************************************************************************)
(* Properties.                                                             *)
(***************************************************************************)
\* "Dropped: not in the original": whatever the model proposes, and however it rewrites
\* it, an item of the minutes names something, most of what it names was said near the
\* utterance its time points to, its person took part or was named there, its date was
\* said there.
NothingMadeUp ==
  mnStep = "done" =>
    \A row \in mnRows :
      LET chunk == Chunks[row.chunk]
          said  == SaidIn(chunk, row.i - REFINE_CONTEXT_BEFORE, row.i + CONTEXT_AFTER)
      IN  /\ ~Vague(row.text) /\ Supported(row.text, said) /\ CueHeard(row.kind, chunk, row.i)
          /\ row.who # Unset => PersonOk(row.who, said)
          /\ row.due # Unset => row.due \in said

\* The times the model gives to topics are unreliable: after they are mended and put
\* in order, an item is listed under the topic that was on when it was said: no topic
\* that had begun by then began after it.
UnderItsTopic ==
  mnStep = "done" /\ mnTopics # <<>> =>
    \A row \in mnRows :
      \A l \in DOMAIN mnTopics :
        mnTopics[l].start <= Ts(row) + 1 => mnTopics[l].start <= mnTopics[TopicOf(row)].start
=============================================================================
