---------------------------- MODULE ImageViewer ----------------------------
(***************************************************************************)
(* The gallery page (app/static/js/image.js): pictures that are drawn from *)
(* a hidden list, moved away without waiting for the server, deleted by    *)
(* the page, and shown one after the other by the slide show, whose timers *)
(* and questions to the server outlive the slide they were started for.    *)
(***************************************************************************)
EXTENDS Integers, Sequences, FiniteSets, SequencesExt

CONSTANTS
  IvPicture,      \* the pictures of the page, in the order 1, 2, ...
  IvVideo,        \* those of them that are videos
  IvNone,
  IvPresses,      \* bound: presses of the user
  IvSlides        \* bound: slides after which the timers stop

ASSUME IvAssumption ==
  /\ IsFiniteSet(IvPicture) /\ IvPicture = 1 .. Cardinality(IvPicture) /\ IvPicture # {}
  /\ IvVideo \subseteq IvPicture /\ IvNone \notin IvPicture
  /\ IvPresses \in Nat /\ IvSlides \in Nat

VARIABLES
  ivList,       \* #image-data: what "delete page" will send
  ivDrawn,      \* the masonry: what is drawn of it
  ivDrew,       \* how far it is drawn (currentIndex)
  ivMoves,      \* requests to move a picture that are under way
  ivThere,      \* the pictures the server has in this gallery
  ivDeleted,    \* those that a deletion was asked for
  ivFailed,     \* history: pictures that could not be moved
  \* the slide show
  ivOpen, ivImgs, ivIdx,      \* the modal, slideShowImgs, slideShowIdx
  ivOn,         \* the picture the modal shows
  ivTimer,      \* slideShowTimer is set
  ivLoose,      \* timers that slideShowTimer no longer names
  ivWaits,      \* videos that wait for their metadata, or for 3 s
  ivToken, ivAsks,            \* slideOriginToken; questions for the original that are under way
  ivOrigin,     \* slideOrigin: the picture whose original can be shown
  ivPressed

grid   == <<ivList, ivDrawn, ivDrew, ivMoves, ivThere, ivDeleted, ivFailed>>
slides == <<ivOpen, ivImgs, ivIdx, ivOn, ivToken, ivAsks, ivOrigin>>
timers == <<ivTimer, ivLoose, ivWaits>>
IvVars == <<grid, slides, timers, ivPressed>>

IvInit ==
  /\ ivList = IvPicture /\ ivDrawn = {1} /\ ivDrew = 1
  /\ ivMoves = {} /\ ivThere = IvPicture /\ ivDeleted = {} /\ ivFailed = {}
  /\ ivOpen = FALSE /\ ivImgs = <<>> /\ ivIdx = 0 /\ ivOn = IvNone
  /\ ivToken = 0 /\ ivAsks = {} /\ ivOrigin = IvNone
  /\ ivTimer = FALSE /\ ivLoose = 0 /\ ivWaits = 0 /\ ivPressed = 0

Press == ivPressed < IvPresses /\ ivPressed' = ivPressed + 1

InOrder(S) == SetToSortSeq(S, <)

(***************************************************************************)
(* The grid.                                                               *)
(***************************************************************************)
\* renderMoreItems / preloadAheadOfSlide: one more, if it is still in the list
Draw ==
  /\ ivDrew < Cardinality(IvPicture) /\ ivDrew' = ivDrew + 1
  /\ ivDrawn' = ivDrawn \cup {ivDrew'}
  /\ UNCHANGED <<ivList, ivMoves, ivThere, ivDeleted, ivFailed, slides, timers, ivPressed>>

\* moveImage, moveImageToPreviousStep: the picture leaves the page before it is moved
Gone_OnlyDrawn(p) ==                                             \* mutant
  /\ ivDrawn' = ivDrawn \ {p} /\ UNCHANGED ivList
  /\ ivMoves' = ivMoves \cup {[pic |-> p, drawn |-> p \in ivDrawn]}
Gone(p) ==
  /\ ivDrawn' = ivDrawn \ {p} /\ ivList' = ivList \ {p}
  /\ ivMoves' = ivMoves \cup {[pic |-> p, drawn |-> p \in ivDrawn]}

MoveAway(p) ==
  /\ Press /\ ~ivOpen /\ p \in ivDrawn /\ Gone(p)
  /\ UNCHANGED <<ivDrew, ivThere, ivDeleted, ivFailed, slides, timers>>

\* requestMoveImage: moved, not there any more, or not moved and reported
Moved(m) ==
  /\ ivMoves' = ivMoves \ {m}
  /\ \/ ivThere' = ivThere \ {m.pic} /\ UNCHANGED ivFailed
     \/ /\ m.pic \in ivThere /\ UNCHANGED ivThere
        /\ ivFailed' = IF m.drawn THEN ivFailed \cup {m.pic} ELSE ivFailed
  /\ UNCHANGED <<ivList, ivDrawn, ivDrew, ivDeleted, slides, timers, ivPressed>>

\* deletePage: everything that the list or the masonry still has, and the next page is loaded
DeletePage ==
  /\ Press /\ ~ivOpen /\ ivDeleted' = ivDeleted \cup ivList \cup ivDrawn
  /\ ivList' = {} /\ ivDrawn' = {} /\ ivDrew' = Cardinality(IvPicture) /\ ivThere' = ivThere \ (ivList \cup ivDrawn)
  /\ ivTimer' = FALSE /\ ivLoose' = 0 /\ ivWaits' = 0
  /\ UNCHANGED <<ivMoves, ivFailed, slides>>

(***************************************************************************)
(* The slide show.                                                         *)
(***************************************************************************)
\* setSlide, with updateSlideOrigin: the question is for one slide
SetSlide(imgs, i) ==
  /\ ivImgs' = imgs /\ ivIdx' = i /\ ivOn' = imgs[i]
  /\ ivToken' = ivToken + 1 /\ ivOrigin' = IvNone
  /\ ivAsks' = IF imgs[i] \in IvVideo THEN ivAsks
               ELSE ivAsks \cup {[token |-> ivToken', pic |-> imgs[i]]}

\* scheduleNextSlide, of a picture that stays for 10 s or of a video that may have to load
ScheduleNextSlide(p) ==
  \/ ivTimer' = TRUE /\ UNCHANGED ivWaits
  \/ p \in IvVideo /\ ivTimer' = FALSE /\ ivWaits' = ivWaits + 1

\* extendSlideShowImgs: what was drawn since
Extended == ivImgs \o InOrder(ivDrawn \ Range(ivImgs))

\* showSlideshowModal, from the picture that was clicked; slideShow: everything there is
Show(pics, i) ==
  /\ Press /\ ~ivOpen /\ i \in 1 .. Cardinality(pics) /\ ivOpen' = TRUE
  /\ SetSlide(InOrder(pics), i)
  /\ ScheduleNextSlide(ivOn') /\ UNCHANGED <<grid, ivLoose>>

\* advance; also by a timer that nobody stopped, when the show is closed
Advance ==
  /\ ivImgs # <<>> /\ ivToken < IvSlides
  /\ \/ ivTimer /\ UNCHANGED ivLoose
     \/ ivLoose > 0 /\ ivLoose' = ivLoose - 1
  /\ SetSlide(Extended, (ivIdx % Len(Extended)) + 1)
  /\ ScheduleNextSlide(ivOn') /\ UNCHANGED <<grid, ivOpen, ivPressed>>

\* applyDuration, when the metadata is there or 3 s are over: it does not look whether the
\* slide is still the same, or whether another timer runs
Duration ==
  /\ ivWaits > 0 /\ ivWaits' = ivWaits - 1
  /\ ivTimer' = TRUE /\ ivLoose' = IF ivTimer THEN ivLoose + 1 ELSE ivLoose
  /\ UNCHANGED <<grid, slides, ivPressed>>

\* .slide-prev and .slide-next
Step ==
  /\ Press /\ ivOpen /\ UNCHANGED <<grid, ivOpen, ivLoose>>
  /\ \/ SetSlide(ivImgs, ((ivIdx - 2 + Len(ivImgs)) % Len(ivImgs)) + 1)
     \/ SetSlide(Extended, (ivIdx % Len(Extended)) + 1)
  /\ ScheduleNextSlide(ivOn')

\* .close-modal
Close ==
  /\ Press /\ ivOpen /\ ivOpen' = FALSE /\ ivTimer' = FALSE
  /\ UNCHANGED <<grid, ivImgs, ivIdx, ivOn, ivToken, ivAsks, ivOrigin, ivLoose, ivWaits>>

\* slideShowDeleteCurrent; the last picture closes the show
SlideShowDeleteCurrent ==
  /\ Press /\ ivOpen /\ Gone(ivImgs[ivIdx])
  /\ LET rest == RemoveAt(ivImgs, ivIdx) IN
     IF rest = <<>>
     THEN /\ ivOpen' = FALSE /\ ivImgs' = rest /\ ivTimer' = FALSE
          /\ UNCHANGED <<ivIdx, ivOn, ivToken, ivAsks, ivOrigin, ivWaits>>
     ELSE /\ SetSlide(rest, IF ivIdx > Len(rest) THEN Len(rest) ELSE ivIdx)
          /\ ScheduleNextSlide(ivOn') /\ UNCHANGED ivOpen
  /\ UNCHANGED <<ivDrew, ivThere, ivDeleted, ivFailed, ivLoose>>

\* the answer of crop-info; an answer for a slide that is gone is ignored
OriginFound_Always(a) ==                                         \* mutant
  /\ a \in ivAsks /\ ivAsks' = ivAsks \ {a}
  /\ (UNCHANGED ivOrigin \/ ivOrigin' = a.pic)
  /\ UNCHANGED <<grid, ivOpen, ivImgs, ivIdx, ivOn, ivToken, timers, ivPressed>>
OriginFound(a) ==
  /\ a \in ivAsks /\ ivAsks' = ivAsks \ {a}
  /\ (UNCHANGED ivOrigin \/ (a.token = ivToken /\ ivOrigin' = a.pic))
  /\ UNCHANGED <<grid, ivOpen, ivImgs, ivIdx, ivOn, ivToken, timers, ivPressed>>

IvNext ==
  \/ Draw \/ DeletePage \/ Advance \/ Duration \/ Step \/ Close \/ SlideShowDeleteCurrent
  \/ \E p \in IvPicture : MoveAway(p) \/ Show(ivDrawn, p)
  \/ Show(ivThere, 1) \/ \E m \in ivMoves : Moved(m)
  \/ \E a \in ivAsks : OriginFound(a)

IvSpec == IvInit /\ [][IvNext]_IvVars

(***************************************************************************)
(* Properties.                                                             *)
(***************************************************************************)
\* "The original of another picture": what "o" shows and what "delete" moves away is the
\* picture of this slide, whatever timers, deletions and late answers came in between.
SlideIsTheCurrent ==
  ivOpen => ivOn = ivImgs[ivIdx] /\ ivOrigin \in {IvNone, ivOn}

\* A picture that the user moved away from the page and that could not be moved is not
\* deleted with the page: it is still wanted (the comment of moveImageToPreviousStep).  One
\* that the slide show moved away before it was drawn is left out: it is drawn again.
FailedIsKept == ivFailed \cap ivDeleted = {}

\* No picture is taken for another, and none is lost that the user meant to keep.
ViewerRight == SlideIsTheCurrent /\ FailedIsKept
=============================================================================
