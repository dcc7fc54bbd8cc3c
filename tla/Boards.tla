------------------------------- MODULE Boards -------------------------------
(***************************************************************************)
(* The collectors that walk over the posts of a board                      *)
(* (job/scrap/scrap_ai_by_playwright_async.py: page by page, newest first, *)
(* up to the first post that is registered; scrap_cos_by_playwright_async  *)
(* and its companions: the whole list, and whatever of it is not           *)
(* registered), the server's register of posts, and the script that        *)
(* fetches what a log says is missing.                                     *)
(*                                                                         *)
(* Posts are numbered from the oldest.  Reading a post has the outcomes    *)
(* that the code tells apart: all that was found of it was stored, some of *)
(* it was not found (404), or it could not be read.  A behaviour is one of *)
(* either kind of board.                                                   *)
(***************************************************************************)
EXTENDS Integers, FiniteSets, Sequences, SequencesExt

CONSTANTS
  BdPerPage, MAX_PAGES,     \* posts on a page of the list; pages that are walked
  BdPrefix,                 \* pairs <<p, q>>: the address of p is the beginning of q's
  BdPosts, BdFaults, BdDays \* bounds: posts; failures; days

ASSUME BdAssumption ==
  BdPerPage \in Nat \ {0} /\ BdDays \in Nat \ {0} /\ {MAX_PAGES, BdPosts, BdFaults} \subseteq Nat

VARIABLES
  bdKind,     \* "ai" or "cos"
  bdTop,      \* posts the board has
  bdKnown,    \* scrap_posts: posts that are registered
  bdRead,     \* posts that have been read and stored, at least what was found of them
  bdMissing,  \* posts some media of which were not found
  bdWalk,     \* the walk: where it is, its page, the links still to come
  bdFailed,   \* posts that could not be read in the last walk
  bdExcused,  \* posts some walk has had a reason to pass over
  bdDay, bdLog, \* the day; the posts of each day's log with something not found
  bdSameDay,  \* a walk has begun on a day that had one before
  bdFaults

BdVars == <<bdKind, bdTop, bdKnown, bdRead, bdMissing, bdWalk, bdFailed, bdExcused, bdDay, bdLog,
            bdSameDay, bdFaults>>
bdStored == <<bdKnown, bdRead, bdMissing>>
bdTime   == <<bdKind, bdTop, bdDay, bdSameDay>>

BdRest == [at |-> "idle", page |-> 0, links |-> <<>>, list |-> {}, whole |-> FALSE, new |-> {}]

BdInit ==
  /\ bdKind \in {"ai", "cos"} /\ bdTop = 1 /\ bdKnown = {} /\ bdRead = {} /\ bdMissing = {}
  /\ bdWalk = BdRest /\ bdFailed = {} /\ bdExcused = {}
  /\ bdDay = 1 /\ bdLog = [d \in 1 .. BdDays |-> {}] /\ bdSameDay = FALSE /\ bdFaults = 0

BdPublish ==
  /\ bdTop < BdPosts /\ bdTop' = bdTop + 1
  /\ UNCHANGED <<bdKind, bdStored, bdWalk, bdFailed, bdExcused, bdDay, bdLog, bdSameDay, bdFaults>>

Midnight ==
  /\ bdDay < BdDays /\ bdDay' = bdDay + 1
  /\ UNCHANGED <<bdKind, bdTop, bdStored, bdWalk, bdFailed, bdExcused, bdLog, bdSameDay, bdFaults>>

Trouble == bdFaults < BdFaults /\ bdFaults' = bdFaults + 1

\* find_scrap_post asks with LIKE: the beginning of a registered address counts as well.
Taken(p) == \E q \in bdKnown : q = p \/ <<p, q>> \in BdPrefix

\* The links of a page of the list, as the page has them: newest first. The COS list is one
\* page that is scrolled to its end.
\* Beyond says how many posts of a list of `top` come after its first k pages.
Beyond(top, k) == IF top > k * BdPerPage THEN top - k * BdPerPage ELSE 0
LinksOf_Reversed(k) ==                                           \* mutant
  [i \in 1 .. (Beyond(bdTop, k - 1) - Beyond(bdTop, k)) |-> Beyond(bdTop, k) + i]
LinksOf(k) ==
  [i \in 1 .. (Beyond(bdTop, k - 1) - Beyond(bdTop, k)) |-> Beyond(bdTop, k - 1) + 1 - i]

\* The day's log of the COS walker is opened with "w", the other with "a".
LogOpened_Once == [d \in 1 .. BdDays |-> {}]                        \* mutant
LogOpened == [bdLog EXCEPT ![bdDay] = IF bdKind = "cos" THEN {} ELSE @]

Start ==
  /\ bdWalk.at = "idle"
  /\ bdWalk' = [BdRest EXCEPT !.at = "list", !.page = 1]
  /\ bdLog' = LogOpened /\ bdFailed' = {}
  /\ bdSameDay' = (bdSameDay \/ bdLog[bdDay] # {})
  /\ UNCHANGED <<bdKind, bdTop, bdStored, bdExcused, bdDay, bdFaults>>

\* A page of the AI list is loaded; the test against robots may not be passed, which makes
\* the page look empty.
OpenPage(passed) ==
  LET links == LinksOf(bdWalk.page)
  IN /\ bdWalk.at = "list" /\ bdKind = "ai"
     /\ IF passed THEN UNCHANGED bdFaults ELSE Trouble
     /\ bdWalk' = [bdWalk EXCEPT !.at = "post", !.list = 1 .. bdTop,
                     !.links = IF passed THEN links ELSE <<>>]
     /\ bdExcused' = IF passed THEN bdExcused ELSE bdExcused \cup ToSet(links)
     /\ UNCHANGED <<bdTime, bdStored, bdFailed, bdLog>>

\* The COS list is scrolled until it grows no more.
OpenList ==
  /\ bdWalk.at = "list" /\ bdKind = "cos"
  /\ bdWalk' = [bdWalk EXCEPT !.at = "post", !.list = 1 .. bdTop,
                  !.links = [i \in 1 .. bdTop |-> bdTop + 1 - i]]
  /\ UNCHANGED <<bdTime, bdStored, bdFailed, bdExcused, bdLog, bdFaults>>

\* The next page, up to the last one; the posts beyond are not looked at.
PageDone ==
  /\ bdWalk.at = "post" /\ bdWalk.links = <<>>
  /\ IF bdKind = "ai" /\ bdWalk.page < MAX_PAGES
     THEN /\ bdWalk' = [bdWalk EXCEPT !.at = "list", !.page = @ + 1]
          /\ UNCHANGED bdExcused
     ELSE /\ bdWalk' = [bdWalk EXCEPT !.at = "idle", !.whole = TRUE]
          /\ bdExcused' = bdExcused \cup 1 .. (bdTop - MAX_PAGES * BdPerPage)
  /\ UNCHANGED <<bdTime, bdStored, bdFailed, bdLog, bdFaults>>

\* What comes after what with a post.
StepAfter_RegisterFirst ==                                       \* mutant
  [check |-> "register", register |-> "read", read |-> "post"]
StepAfter == [check |-> "read", read |-> "register", register |-> "post"]

PassedOn  == [bdWalk EXCEPT !.at = "post", !.links = Tail(@)]
After(step) == IF StepAfter[step] = "post" THEN PassedOn ELSE [bdWalk EXCEPT !.at = StepAfter[step]]

(***************************************************************************)
(* A post: is it registered?  The AI walker ends at one that is, and does  *)
(* without a post if the server does not answer; the COS walker goes on to *)
(* the next one, and reads the post if the server does not answer.         *)
(***************************************************************************)
Check(answers) ==
  LET p == Head(bdWalk.links)
  IN /\ bdWalk.at = "post" /\ bdWalk.links # <<>>
     /\ IF answers THEN UNCHANGED bdFaults ELSE Trouble
     /\ \/ /\ answers /\ Taken(p) /\ bdKind = "ai"
           /\ bdWalk' = [bdWalk EXCEPT !.at = "idle", !.links = <<>>, !.whole = TRUE]
           /\ bdExcused' = IF p \in bdKnown \ bdWalk.new THEN bdExcused ELSE bdExcused \cup 1 .. p
           /\ UNCHANGED bdFailed
        \/ /\ IF answers THEN Taken(p) /\ bdKind = "cos" ELSE bdKind = "ai"
           /\ bdWalk' = PassedOn
           /\ bdExcused' = IF answers THEN bdExcused ELSE bdExcused \cup {p}
           /\ bdFailed' = IF answers THEN bdFailed ELSE bdFailed \cup {p}
        \/ /\ IF answers THEN ~Taken(p) ELSE bdKind = "cos"
           /\ bdWalk' = After("check")
           /\ UNCHANGED <<bdExcused, bdFailed>>
     /\ UNCHANGED <<bdTime, bdStored, bdLog>>

\* goto, the test against robots, the scrolling: the post cannot be read.
ReadFails ==
  LET p == Head(bdWalk.links)
  IN /\ bdWalk.at = "read" /\ Trouble /\ bdWalk' = PassedOn
     /\ bdExcused' = bdExcused \cup {p} /\ bdFailed' = bdFailed \cup {p}
     /\ UNCHANGED <<bdTime, bdStored, bdLog>>

\* The media are stored, each by itself, in the size that can be had.
ReadAi(found) ==
  LET p == Head(bdWalk.links)
  IN /\ bdWalk.at = "read" /\ bdKind = "ai" /\ bdRead' = bdRead \cup {p}
     /\ bdMissing' = IF found THEN bdMissing ELSE bdMissing \cup {p}
     /\ bdWalk' = After("read")
     /\ UNCHANGED <<bdTime, bdKnown, bdFailed, bdExcused, bdLog, bdFaults>>

\* What is not found in either size goes into the log of the day.
NotFound(p) ==
  bdMissing' = bdMissing \cup {p} /\ bdLog' = [bdLog EXCEPT ![bdDay] = @ \cup {p}]

ReadCos(found) ==
  LET p == Head(bdWalk.links)
  IN /\ bdWalk.at = "read" /\ bdKind = "cos" /\ bdRead' = bdRead \cup {p}
     /\ IF found THEN UNCHANGED <<bdMissing, bdLog>> ELSE NotFound(p)
     /\ bdWalk' = After("read")
     /\ UNCHANGED <<bdTime, bdKnown, bdFailed, bdExcused, bdFaults>>

\* insert_scrap_post, whatever was found; a request that fails is let go.
Registers(arrives) ==
  LET p == Head(bdWalk.links)
  IN /\ bdWalk.at = "register"
     /\ IF arrives THEN UNCHANGED bdFaults ELSE Trouble
     /\ bdKnown' = IF arrives THEN bdKnown \cup {p} ELSE bdKnown
     /\ bdWalk' = [After("register") EXCEPT !.new = @ \cup {p}]
     /\ bdFailed' = IF arrives THEN bdFailed ELSE bdFailed \cup {p}
     /\ UNCHANGED <<bdTime, bdRead, bdMissing, bdExcused, bdLog>>

\* The walk is ended from outside, or its list cannot be loaded. If it has registered a post
\* it leaves all the older ones behind it.
WalkDies ==
  /\ bdWalk.at # "idle" /\ Trouble
  /\ bdWalk' = BdRest
  /\ bdExcused' = IF bdWalk.new \cap bdKnown = {} THEN bdExcused ELSE bdExcused \cup bdWalk.list
  /\ UNCHANGED <<bdTime, bdStored, bdFailed, bdLog>>

(***************************************************************************)
(* retry_404_cos: another size of what the logs say was not found.         *)
(***************************************************************************)
Logged_Today == bdLog[bdDay]                                     \* mutant
Logged == UNION {bdLog[d] : d \in 1 .. BdDays}

Retry404 ==
  /\ bdKind = "cos" /\ bdWalk.at = "idle" /\ Logged # {}
  /\ \E got \in SUBSET Logged : bdMissing' = bdMissing \ got
  /\ UNCHANGED <<bdTime, bdKnown, bdRead, bdWalk, bdFailed, bdExcused, bdLog, bdFaults>>

BdNext ==
  \/ BdPublish \/ Midnight \/ Start \/ PageDone \/ ReadFails \/ WalkDies \/ Retry404
  \/ OpenList
  \/ \E yes \in BOOLEAN :
       \/ OpenPage(yes) \/ Check(yes) \/ ReadAi(yes) \/ ReadCos(yes) \/ Registers(yes)

BdSpec == BdInit /\ [][BdNext]_BdVars

----------------------------------------------------------------------------
\* Walking newest first and ending at the first registered post, the AI walker leaves a
\* post behind a registered one only if a walk failed at it, died after it had registered a
\* newer one, met one of its own again because a new post had moved the pages, met one whose
\* address is the beginning of a registered one's, or came to its last page.
NoGapWithoutFault ==
  bdKind = "ai" /\ bdWalk.at = "idle" =>
    \A p \in 1 .. bdTop :
      p \notin bdRead /\ ~Taken(p) /\ (\E q \in bdKnown : q > p) => p \in bdExcused

\* Whatever earlier walks failed at, lost or were cut off before: a COS walk that comes to
\* its end has registered everything on its list but what failed in this very walk.
MissedIsTriedAgain ==
  bdKind = "cos" /\ bdWalk.at = "idle" /\ bdWalk.whole =>
    \A p \in bdWalk.list : Taken(p) \/ p \in bdFailed

\* A post is registered after it was read, so that a death costs no post; and what was not
\* found of a registered post is in a log that the repair reads, unless a second walk of
\* the same day has emptied it.
RegisteredIsRead ==
  /\ bdKnown \subseteq bdRead
  /\ bdKind = "cos" /\ ~bdSameDay => bdMissing \subseteq Logged

BoardsRight == NoGapWithoutFault /\ MissedIsTriedAgain /\ RegisteredIsRead

=============================================================================
