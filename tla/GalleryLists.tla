---------------------------- MODULE GalleryLists ----------------------------
(***************************************************************************)
(* The lists the galleries are leafed through by (app/image.py): the       *)
(* server keeps the names of a gallery in an array, read from the          *)
(* directory when page 1 is fetched, sliced by every page, and rewritten   *)
(* whole by each request that moves or deletes a picture.  "refine" keeps  *)
(* two more, the order of the names and the shuffled order, and reads the  *)
(* directory only to shuffle.  No request locks anything: it makes the new *)
(* array of the one it sees, and puts it there a moment later.             *)
(*                                                                         *)
(* Pictures are numbered in the order of their times.  A change of the     *)
(* sorting page (app/image_curate.py) is one step.                         *)
(***************************************************************************)
EXTENDS Integers, FiniteSets, SequencesExt

CONSTANTS
  LsThread,
  LsFirst, LsMax,   \* bounds: pictures at the start, and with those that come later
  LsRequests,       \* bound: requests that change something
  LsLimit           \* LIMIT_PAGE_NUM

ASSUME LsAssumption == {LsFirst, LsMax, LsRequests, LsLimit} \subseteq Nat /\ LsLimit > 0

VARIABLES
  lsDir,       \* which gallery
  lsHere,      \* the pictures in the directory
  lsArr,       \* image_arr
  lsShuffled, lsOriginal,   \* ref_shuffled_images, ref_original_images
  lsJob,       \* what each thread is about to put there
  lsDelete,    \* pictures that a job will delete
  lsPage, lsStarted, lsSeen, lsGone, \* who leafs: his page, the list he began with, what he saw,
                                     \* and how many names were dropped since
  lsMuddled,   \* history: a rewriting met another, or the directory changed by itself
  lsOld,       \* history: ref_shuffled_images holds what was moved away
  lsCame,      \* history: pictures that came since the directory was read
  lsCount

lists  == <<lsArr, lsShuffled, lsOriginal>>
leafer == <<lsPage, lsStarted, lsSeen, lsGone>>
LsVars == <<lsDir, lsHere, lsJob, lsDelete, lsMuddled, lsOld, lsCame, lsCount, lists, leafer>>

Smaller(a, b) == IF a < b THEN a ELSE b
WithLast(list, x) == IF x \in ToSet(list) THEN list ELSE Append(list, x)
Sorted(set) == SetToSortSeq(set, <)
Without(list, gone) == SelectSeq(list, LAMBDA x : x \notin gone)
LsIdle == [do |-> "none", list |-> <<>>, muddled |-> FALSE]
Busy == \E t \in LsThread : lsJob[t].do # "none"

\* initialize_shuffle_images when the server starts, then warm_up_image_caches; of all the
\* orders a shuffle may come to, one that is not the sorted one
LsInit ==
  /\ lsDir \in {"image", "image2", "refine"} /\ lsHere = 1..LsFirst
  /\ lsArr = IF lsDir = "image" THEN Sorted(lsHere) ELSE Reverse(Sorted(lsHere))
  /\ lsOriginal = IF lsDir = "refine" THEN Sorted(lsHere) ELSE <<>>
  /\ lsShuffled = IF lsDir = "refine" THEN lsArr ELSE <<>>
  /\ lsJob = [t \in LsThread |-> LsIdle]
  /\ lsPage = 0 /\ lsStarted = {} /\ lsSeen = {} /\ lsGone = 0
  /\ lsDelete = {} /\ lsMuddled = FALSE /\ lsOld = FALSE /\ lsCame = {} /\ lsCount = 0

Counted == lsCount < LsRequests /\ lsCount' = lsCount + 1

\* A thread has its new array; whoever is under way as well is in its way
Rewrite(t, do, list) ==
  /\ lsJob[t] = LsIdle
  /\ lsJob' = [u \in LsThread |->
       IF u = t THEN [do |-> do, list |-> list, muddled |-> Busy \/ lsDelete # {}]
       ELSE IF lsJob[u].do # "none" THEN [lsJob[u] EXCEPT !.muddled = TRUE] ELSE lsJob[u]]

\* /fetch: resolve_dir_page and get_image_page read the directory for page 1 only, get_images
\* by time, get_subdir_and_reels_images the newest first; "refine" takes the shuffled names
Scanned ==
  IF lsDir = "image" THEN Sorted(lsHere)
  ELSE IF lsDir = "image2" THEN Reverse(Sorted(lsHere)) ELSE lsShuffled

Fetch(t) ==
  /\ Counted /\ Rewrite(t, "fetch", Scanned)
  /\ lsMuddled' = (lsMuddled \/ Busy)
  /\ lsCame' = IF lsDir = "refine" THEN lsCame ELSE {}
  /\ UNCHANGED <<lsDir, lsHere, lsDelete, lsOld, lists, leafer>>

\* initialize_shuffle_images, asked for by the page
Shuffle(t) ==
  /\ lsDir = "refine" /\ Counted /\ Rewrite(t, "shuffle", Sorted(lsHere)) /\ lsCame' = {}
  /\ lsMuddled' = (lsMuddled \/ Busy)
  /\ UNCHANGED <<lsDir, lsHere, lsDelete, lsOld, lists, leafer>>

\* restore_original_images: the names in their order, those whose file is gone left out
Restored_All(list) == list                                       \* mutant
Restored(list) == SelectSeq(list, LAMBDA x : x \in lsHere)

Restore(t) ==
  /\ lsDir = "refine" /\ Counted /\ Rewrite(t, "restore", Restored(lsOriginal))
  /\ lsMuddled' = (lsMuddled \/ Busy)
  /\ UNCHANGED <<lsDir, lsHere, lsDelete, lsOld, lsCame, lists, leafer>>

\* move_image_core: a picture that is there goes to another gallery and its name is dropped; of
\* one that is gone the name stays, whatever the page still shows
MoveImage(t, x) ==
  /\ x \in lsHere /\ x \in ToSet(lsArr) /\ Counted
  /\ lsHere' = lsHere \ {x} /\ Rewrite(t, "drop", Without(lsArr, {x}))
  /\ lsMuddled' = (lsMuddled \/ Busy) /\ lsOld' = (lsDir = "refine")
  /\ UNCHANGED <<lsDir, lsDelete, lsCame, lists, leafer>>

\* delete_images: the names of the chosen are dropped, a job deletes the files
DeleteImages(t, chosen) ==
  /\ chosen # {} /\ chosen \subseteq ToSet(lsArr) /\ Counted
  /\ lsDelete' = lsDelete \cup (chosen \cap lsHere) /\ Rewrite(t, "drop", Without(lsArr, chosen))
  /\ lsMuddled' = (lsMuddled \/ Busy) /\ lsOld' = (lsDir = "refine")
  /\ UNCHANGED <<lsDir, lsHere, lsCame, lists, leafer>>

\* delete_images_task
DeleteTask ==
  /\ lsDelete # {} /\ lsHere' = lsHere \ lsDelete /\ lsDelete' = {}
  /\ UNCHANGED <<lsDir, lsJob, lsMuddled, lsOld, lsCame, lsCount, lists, leafer>>

\* The array is there; he who leafs begins anew when the order has become another
SameOrder(old, new) ==
  SelectSeq(old, LAMBDA x : x \in ToSet(new)) = SelectSeq(new, LAMBDA x : x \in ToSet(old))

Leafed ==
  IF SameOrder(lsArr, lsArr')
  THEN /\ lsGone' = lsGone + Cardinality(ToSet(lsArr) \ ToSet(lsArr'))
       /\ UNCHANGED <<lsPage, lsStarted, lsSeen>>
  ELSE lsPage' = 0 /\ lsStarted' = {} /\ lsSeen' = {} /\ lsGone' = 0

Finish(t) ==
  /\ lsJob[t].do # "none" /\ lsJob' = [lsJob EXCEPT ![t] = LsIdle]
  /\ LET j == lsJob[t] IN
     /\ lsArr' = IF j.do = "shuffle" THEN Reverse(j.list) ELSE j.list
     /\ lsShuffled' = IF j.do \in {"shuffle", "restore"} THEN lsArr' ELSE lsShuffled
     /\ lsOriginal' = IF j.do = "shuffle" THEN j.list ELSE lsOriginal
     /\ lsOld' = (lsOld /\ j.do \notin {"shuffle", "restore"})
     /\ lsMuddled' = IF j.do = "drop" THEN lsMuddled
                     ELSE IF j.do = "fetch" /\ lsDir = "refine" THEN lsMuddled \/ lsOld
                     ELSE IF j.do = "restore" THEN lsMuddled \/ j.muddled
                     ELSE j.muddled \/ lsCame # {}
  /\ Leafed
  /\ UNCHANGED <<lsDir, lsHere, lsDelete, lsCame, lsCount>>

\* A collector brings a picture, or another gallery sends it here
Arrive ==
  /\ LsMax \notin lsHere /\ \E x \in (LsFirst + 1)..LsMax :
       /\ x \notin lsCame /\ x \notin lsHere /\ \A y \in (LsFirst + 1)..(x - 1) : y \in lsHere
       /\ lsHere' = lsHere \cup {x} /\ lsCame' = lsCame \cup {x}
  /\ lsMuddled' = TRUE
  /\ UNCHANGED <<lsDir, lsJob, lsDelete, lsOld, lsCount, lists, leafer>>

\* image_list: a page of the array; one that is empty gives way to the page before
Part(from, to) == SubSeq(lsArr, from + 1, Smaller(to, Len(lsArr)))
Slice_NextPage(page) == Part(page * LsLimit, (page + 1) * LsLimit)   \* mutant
Slice(page) == Part((page - 1) * LsLimit, page * LsLimit)
Before(page) == {lsArr[i] : i \in 1..Smaller((page - 1) * LsLimit, Len(lsArr))}

ShowPage(page) ==
  /\ lsArr # <<>> /\ (page = 1 \/ (lsPage > 0 /\ page = lsPage + 1))
  /\ LET is == IF Slice(page) = <<>> /\ page > 1 THEN page - 1 ELSE page IN
     /\ lsPage' = is
     /\ IF page = 1 THEN lsStarted' = ToSet(lsArr) /\ lsSeen' = ToSet(Slice(1)) /\ lsGone' = 0
        ELSE lsSeen' = lsSeen \cup ToSet(Slice(is)) /\ UNCHANGED <<lsStarted, lsGone>>
  /\ UNCHANGED <<lsDir, lsHere, lsJob, lsDelete, lsMuddled, lsOld, lsCame, lsCount, lists>>

\* _move_one of the sorting page: out of all three lists, or back at their ends
MoveOne(x) ==
  /\ lsDir = "refine" /\ Counted
  /\ \/ /\ x \in lsHere /\ lsHere' = lsHere \ {x}
        /\ lsArr' = Without(lsArr, {x}) /\ lsShuffled' = Without(lsShuffled, {x})
        /\ lsOriginal' = Without(lsOriginal, {x})
     \/ /\ x \in 1..LsFirst \ lsHere /\ lsHere' = lsHere \cup {x}
        /\ lsArr' = WithLast(lsArr, x) /\ lsShuffled' = WithLast(lsShuffled, x)
        /\ lsOriginal' = WithLast(lsOriginal, x)
  /\ Leafed /\ lsMuddled' = (lsMuddled \/ Busy) /\ lsDelete' = lsDelete \ {x}
  /\ lsJob' = [u \in LsThread |-> IF lsJob[u].do = "none" THEN lsJob[u] ELSE [lsJob[u] EXCEPT !.muddled = TRUE]]
  /\ UNCHANGED <<lsDir, lsOld, lsCame>>

LsNext ==
  \/ \E t \in LsThread :
       \/ Fetch(t) \/ Shuffle(t) \/ Restore(t) \/ Finish(t)
       \/ \E x \in lsHere : MoveImage(t, x)
       \/ \E chosen \in SUBSET ToSet(lsArr) : DeleteImages(t, chosen)
  \/ DeleteTask \/ Arrive
  \/ \E page \in 1..LsMax : ShowPage(page)
  \/ \E x \in 1..LsMax : MoveOne(x)

LsSpec == LsInit /\ [][LsNext]_LsVars

(***************************************************************************)
(* Properties.                                                             *)
(***************************************************************************)
\* When no request met another and nothing came by itself, the list is the directory again as
\* soon as the requests are done, but for what a job is still to delete; no picture is there
\* twice in any case.
ListIsDirectory ==
  /\ IsInjective(lsArr)
  /\ ~lsMuddled /\ ~Busy => ToSet(lsArr) = lsHere \ lsDelete

\* One who leafs page by page is shown every picture he began with: as many as were dropped
\* from the list meanwhile may slip past him, never more.
AsManySlipAsWereDropped ==
  lsPage > 0 => Cardinality((Before(lsPage) \cap lsStarted) \ lsSeen) <= lsGone

ListsRight == ListIsDirectory /\ AsManySlipAsWereDropped
=============================================================================
