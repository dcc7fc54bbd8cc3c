------------------------------- MODULE Player -------------------------------
(***************************************************************************)
(* The page that plays random videos (app/static/js/video.js) and the part *)
(* of app/video.py behind it.  The page picks the next video at once and   *)
(* starts it later: a throttle groups quick presses, a probe looks whether *)
(* the video is a vertical one, metadata or a watchdog change the way it   *)
(* is played.  Meanwhile a video with a heart is moved to the folder       *)
(* "like" once it is left, which changes the path everything goes by.      *)
(*                                                                         *)
(* Requests reach the server in the order they are sent; their answers     *)
(* come whenever they do.  Counts, sound and full screen are left out.     *)
(***************************************************************************)
EXTENDS Integers, Sequences, FiniteSets

CONSTANTS
  PlVideo,        \* the videos of the directory
  PlVertical,     \* those that are played three times side by side
  PlNone,
  PlPresses       \* bound: presses of the user

Path == PlVideo \X {"home", "like"}
\* what is being started: the url, and the video that was current then
Starting == [url : Path, expected : Path \cup {PlNone}]

ASSUME PlAssumption ==
  /\ PlVertical \subseteq PlVideo /\ PlPresses \in Nat
  /\ PlNone \notin Path /\ PlNone \notin Starting

VARIABLES
  plMobile,     \* isMobile
  plLiked,      \* likeFilterMode is "liked"
  plList,       \* fetchVideoArr, in the order of a shuffle: a set of paths
  plAsking,     \* isFetchingVideoList
  plCurrent,    \* currentVideo
  plPrev,       \* previousVideos
  plTimer,      \* the url playVideoPendingTimer will play
  plProbe,      \* activeProbe: the url it looks at and the video that was current
  plKind,       \* what plays: a native element, which reads "metadata" first, or video.js
  plShown,      \* the url it was given
  plListen,     \* loadedmetadata listeners of the fast path
  plWatch,      \* what the stall watchdog waits for
  plHearts,     \* likedVideosSet
  plMove,       \* hasPendingLikeMove
  plDue,        \* likeFlushTimer runs
  plReply,      \* the answer of a flush that is under way
  plWhere,      \* the folder each file is in
  plWish,       \* the moves that are kept for later (video_like_state.json)
  plCrossed,    \* history: the current video was renamed while it was being started
  plPressed

plays   == <<plKind, plShown, plListen, plWatch, plPrev>>
heart   == <<plHearts, plMove, plReply, plWhere, plWish>>
PlVars  == <<plMobile, plLiked, plList, plAsking, plCurrent, plTimer, plProbe, plays, heart,
             plDue, plCrossed, plPressed>>

OtherDir(p) == <<p[1], IF p[2] = "home" THEN "like" ELSE "home">>
IsThere(p, where) == p # PlNone /\ where[p[1]] = p[2]
LikeDir(liked, where) == {p \in Path : IsThere(p, where) /\ ((p[2] = "like") <=> liked)}

PlInit ==
  /\ plMobile \in BOOLEAN /\ plLiked = FALSE
  /\ plList = {} /\ plAsking = TRUE /\ plCurrent = PlNone /\ plPrev = <<PlNone>>
  /\ plTimer = PlNone /\ plProbe = PlNone
  /\ plKind = "none" /\ plShown = PlNone /\ plListen = {} /\ plWatch = PlNone
  /\ plHearts = {} /\ plMove = FALSE /\ plDue = FALSE /\ plReply = PlNone
  /\ plWhere = [v \in PlVideo |-> "home"] /\ plWish = {}
  /\ plCrossed = FALSE /\ plPressed = 0

Pressed == plPressed < PlPresses /\ plPressed' = plPressed + 1

(***************************************************************************)
(* Playing.  Each operator is given what is current at that moment.        *)
(***************************************************************************)
\* pushVideoArr
Pushed(prev, p) == Append(IF Len(prev) > 1 THEN Tail(prev) ELSE prev, p)

\* playNative
PlayNative(url, prev) ==
  /\ plKind' = "metadata" /\ plShown' = url /\ plListen' = {} /\ plPrev' = prev
  /\ UNCHANGED plWatch

\* startVjsFastPath, on the player that is there
StartVjsFastPath(url, cur, prev) ==
  LET as == [url |-> url, expected |-> cur] IN
  /\ plKind' = "vjs" /\ plShown' = url /\ plPrev' = Pushed(prev, cur)
  /\ plListen' = plListen \cup {as} /\ plWatch' = as

\* playVideo; a new probe ends the one before it, whose callback plays when its video is
\* still the current one
PlayVideo(url, cur) ==
  CASE plKind # "vjs" -> PlayNative(url, Pushed(plPrev, cur)) /\ UNCHANGED plProbe
    [] plKind = "vjs" /\ plMobile ->
         StartVjsFastPath(url, cur, plPrev) /\ UNCHANGED plProbe
    [] OTHER ->
         /\ plProbe' = [url |-> url, expected |-> cur]
         /\ IF plProbe # PlNone /\ plProbe.expected = cur
            THEN StartVjsFastPath(plProbe.url, cur, plPrev) ELSE UNCHANGED plays

\* scheduleVideoPlayback: at once, or the last request of several when 200 ms have gone by
ScheduleVideoPlayback(p) ==
  \/ plTimer' = PlNone /\ PlayVideo(p, p)
  \/ ~plMobile /\ plTimer' = p /\ UNCHANGED <<plProbe, plays>>

\* what selectVideoFromArr and the button "prev" have in common
Becomes(p) ==
  /\ plCurrent' = p /\ plDue' = (plDue \/ plMove) /\ plCrossed' = FALSE
  /\ ScheduleVideoPlayback(p)

\* selectVideoFromArr: not the one that was played last, while the list has another
Select(list) ==
  \E p \in list :
    /\ plList' = list \ {p}
    /\ IF plPrev # <<>> /\ p = plPrev[Len(plPrev)] /\ Cardinality(list) > 2
       THEN \E q \in list \ {p} : Becomes(q) ELSE Becomes(p)

\* getVideo, with what is left of the list
GetVideo(list) ==
  \/ list # {} /\ Select(list) /\ UNCHANGED plAsking
  \/ /\ list = {} /\ plAsking' = TRUE /\ plList' = {}
     /\ UNCHANGED <<plTimer, plProbe, plays, plDue, plCrossed>>

NextVideo ==
  /\ Pressed /\ GetVideo(plList)
  /\ plList = {} => UNCHANGED plCurrent
  /\ UNCHANGED <<plMobile, plLiked, heart>>

\* the list arrives; the server first makes the moves that are due, except those of files
\* that are in use, and tells nobody
VideosArrive ==
  /\ plAsking /\ plAsking' = FALSE
  /\ \E stay \in SUBSET plWish :
       LET moved == {p \in plWish \ stay : IsThere(p, plWhere)}
           where == [v \in PlVideo |-> IF \E p \in moved : p[1] = v
                                       THEN OtherDir(<<v, plWhere[v]>>)[2] ELSE plWhere[v]]
           list  == LikeDir(plLiked, where)
       IN /\ plWhere' = where /\ plWish' = {p \in stay : IsThere(p, plWhere)}
          /\ \/ list # {} /\ Select(list)
             \/ list = {} /\ UNCHANGED <<plList, plCurrent, plTimer, plProbe, plays, plDue, plCrossed>>
  /\ UNCHANGED <<plMobile, plLiked, plHearts, plMove, plReply, plPressed>>

VideosFail ==
  /\ plAsking /\ plAsking' = FALSE
  /\ UNCHANGED <<plMobile, plLiked, plList, plCurrent, plTimer, plProbe, plays, heart, plDue,
                 plCrossed, plPressed>>

\* prevButton: previousVideos.shift(), and back to it when it names a video
PrevVideo ==
  /\ Pressed /\ plPrev # <<>>
  /\ LET prev == Head(plPrev)
         rest == Pushed(Tail(plPrev), plCurrent)
     IN IF prev = PlNone
        THEN /\ plPrev' = Tail(plPrev)
             /\ UNCHANGED <<plCurrent, plTimer, plProbe, plKind, plShown, plListen, plWatch, plDue,
                            plCrossed>>
        ELSE /\ plCurrent' = prev /\ plDue' = (plDue \/ plMove) /\ plCrossed' = FALSE
             /\ \/ /\ ~plMobile /\ plTimer' = prev /\ plPrev' = rest
                   /\ UNCHANGED <<plProbe, plKind, plShown, plListen, plWatch>>
                \/ /\ ~plMobile /\ plKind = "vjs" /\ plTimer' = PlNone
                   /\ plProbe' = [url |-> prev, expected |-> prev]
                   /\ IF plProbe # PlNone /\ plProbe.expected = prev
                      THEN StartVjsFastPath(plProbe.url, prev, rest)
                      ELSE plPrev' = rest /\ UNCHANGED <<plKind, plShown, plListen, plWatch>>
                \/ /\ plMobile \/ plKind # "vjs"
                   /\ plTimer' = PlNone /\ UNCHANGED plProbe
                   /\ IF plKind = "vjs" THEN StartVjsFastPath(prev, prev, rest)
                      ELSE PlayNative(prev, Pushed(rest, prev))
  /\ UNCHANGED <<plMobile, plLiked, plList, plAsking, heart>>

\* playVideoPendingTimer
PlayDue ==
  /\ plTimer # PlNone /\ plTimer' = PlNone
  /\ PlayVideo(plTimer, plCurrent)
  /\ UNCHANGED <<plMobile, plLiked, plList, plAsking, plCurrent, heart, plDue, plCrossed, plPressed>>

\* The callback of probeVideoIsVerticalSplit: metadata, an error or two seconds
Probed_Plays ==                                                  \* mutant
  /\ plProbe # PlNone /\ plProbe' = PlNone
  /\ \/ StartVjsFastPath(plProbe.url, plCurrent, plPrev)
     \/ /\ plProbe.url[1] \in PlVertical
        /\ PlayNative(plProbe.url, Pushed(plPrev, plCurrent))
  /\ UNCHANGED <<plMobile, plLiked, plList, plAsking, plCurrent, plTimer, heart, plDue, plCrossed,
                 plPressed>>
Probed ==
  /\ plProbe # PlNone /\ plProbe' = PlNone
  /\ \/ plCurrent # plProbe.expected /\ UNCHANGED plays
     \/ plCurrent = plProbe.expected /\ StartVjsFastPath(plProbe.url, plCurrent, plPrev)
     \/ /\ plCurrent = plProbe.expected /\ plProbe.url[1] \in PlVertical
        /\ PlayNative(plProbe.url, Pushed(plPrev, plCurrent))
  /\ UNCHANGED <<plMobile, plLiked, plList, plAsking, plCurrent, plTimer, heart, plDue, plCrossed,
                 plPressed>>

\* getVideoEvent: a native element read its metadata.  It stays for a vertical video; any
\* other is played by video.js, and that plays the video that is current by now
NativeMetadata ==
  /\ plKind = "metadata" /\ IsThere(plShown, plWhere)
  /\ IF plShown[1] \in PlVertical
     THEN plKind' = "native" /\ UNCHANGED <<plShown, plListen>>
     ELSE plKind' = "vjs" /\ plShown' = plCurrent /\ plListen' = {}
  /\ UNCHANGED <<plMobile, plLiked, plList, plAsking, plCurrent, plPrev, plTimer, plProbe, plWatch,
                 heart, plDue, plCrossed, plPressed>>

\* The listeners of the fast path: a vertical video after all
FastMetadata ==
  /\ plKind = "vjs" /\ plListen # {} /\ IsThere(plShown, plWhere)
  /\ LET still == {l \in plListen : l.expected = plCurrent /\ plShown[1] \in PlVertical} IN
     IF still # {} THEN \E l \in still : PlayNative(l.url, plPrev)
     ELSE plListen' = {} /\ UNCHANGED <<plKind, plShown, plWatch, plPrev>>
  /\ UNCHANGED <<plMobile, plLiked, plList, plAsking, plCurrent, plTimer, plProbe, heart, plDue,
                 plCrossed, plPressed>>

\* armPlaybackStallWatchdog: no frame in 2.5 s
Stalled ==
  /\ plWatch # PlNone /\ plWatch' = PlNone
  /\ IF plCurrent = plWatch.expected /\ plKind = "vjs"
     THEN plKind' = "metadata" /\ plShown' = plWatch.url /\ plListen' = {}
     ELSE UNCHANGED <<plKind, plShown, plListen>>
  /\ UNCHANGED <<plMobile, plLiked, plList, plAsking, plCurrent, plPrev, plTimer, plProbe, heart,
                 plDue, plCrossed, plPressed>>

(***************************************************************************)
(* Hearts, moves, deletions.                                               *)
(***************************************************************************)
\* heartButton and set_liked_video; the answer may be an error, and the heart is taken back
Heart ==
  /\ Pressed /\ plCurrent # PlNone /\ plMove' = TRUE
  /\ LET liked == plCurrent \notin plHearts IN
     \/ /\ plHearts' = IF liked THEN plHearts \cup {plCurrent} ELSE plHearts \ {plCurrent}
        /\ plWish' = IF liked <=> plCurrent[2] = "like" THEN plWish \ {plCurrent}
                     ELSE plWish \cup {plCurrent}
     \/ UNCHANGED <<plHearts, plWish>>
  /\ UNCHANGED <<plMobile, plLiked, plList, plAsking, plCurrent, plTimer, plProbe, plays, plReply,
                 plWhere, plDue, plCrossed>>

\* flushLikeMoves, and _flush_pending_moves on the server; files in use stay
FlushLikeMoves ==
  /\ plDue /\ plReply = PlNone /\ plDue' = FALSE /\ plMove' = FALSE
  /\ \E stay \in SUBSET plWish :
       LET moved == {p \in plWish \ stay : IsThere(p, plWhere)} IN
       /\ plWhere' = [v \in PlVideo |-> IF \E p \in moved : p[1] = v
                                        THEN OtherDir(<<v, plWhere[v]>>)[2] ELSE plWhere[v]]
       /\ plWish' = {p \in stay : IsThere(p, plWhere)}
       /\ plReply' = [moves |-> moved, deferred |-> plWish' # {}]
  /\ UNCHANGED <<plMobile, plLiked, plList, plAsking, plCurrent, plTimer, plProbe, plays, plHearts,
                 plCrossed, plPressed>>

\* applyLikeMoves, or the request failed
Flushed ==
  LET Renamed(p) == IF p \in plReply.moves THEN OtherDir(p) ELSE p IN
  /\ plReply # PlNone /\ plReply' = PlNone
  /\ \/ /\ plCurrent' = Renamed(plCurrent)
        /\ plPrev' = [i \in DOMAIN plPrev |-> Renamed(plPrev[i])]
        /\ plList' = {Renamed(p) : p \in plList} /\ plHearts' = {Renamed(p) : p \in plHearts}
        /\ plMove' = (plMove \/ plReply.deferred)
        /\ plCrossed' = (plCrossed \/ (plCurrent \in plReply.moves
                                       /\ (plTimer # PlNone \/ plProbe # PlNone)))
     \/ plMove' = TRUE /\ UNCHANGED <<plCurrent, plPrev, plList, plHearts, plCrossed>>
  /\ UNCHANGED <<plMobile, plLiked, plAsking, plTimer, plProbe, plKind, plShown, plListen, plWatch,
                 plWhere, plWish, plDue, plPressed>>

\* delVideo and delete_video: the next video is picked before the file is gone; a file in use
\* stays, and is reported as deleted all the same
DelVideo ==
  /\ Pressed /\ plCurrent # PlNone
  /\ \/ plWhere' = [plWhere EXCEPT ![plCurrent[1]] =
                      IF IsThere(plCurrent, plWhere) THEN "gone" ELSE @]
     \/ UNCHANGED plWhere
  /\ plWish' = plWish \ {plCurrent} /\ plHearts' = plHearts \ {plCurrent}
  /\ \/ plList # {} /\ Select(plList) /\ UNCHANGED plAsking
     \/ /\ plList = {} /\ plAsking' = TRUE /\ plCurrent' = PlNone /\ plShown' = PlNone
        /\ UNCHANGED <<plList, plTimer, plProbe, plKind, plListen, plWatch, plPrev, plDue, plCrossed>>
  /\ UNCHANGED <<plMobile, plLiked, plMove, plReply>>

\* likeFilterSelect
FilterChange ==
  /\ Pressed /\ plLiked' = ~plLiked
  /\ plCurrent' = PlNone /\ GetVideo({})
  /\ UNCHANGED <<plMobile, heart>>

PlNext ==
  \/ NextVideo \/ PrevVideo \/ Heart \/ DelVideo \/ FilterChange
  \/ VideosArrive \/ VideosFail \/ PlayDue \/ Probed
  \/ NativeMetadata \/ FastMetadata \/ Stalled
  \/ FlushLikeMoves \/ Flushed

PlSpec == PlInit /\ [][PlNext]_PlVars

(***************************************************************************)
(* Properties.                                                             *)
(***************************************************************************)
\* "The wrong video is deleted": the heart, the offset and the deletion go to currentVideo.
\* When nothing is being started any more, that is the video the page plays, whatever
\* presses, late metadata, probes and watchdogs overtook each other; a video that was
\* renamed while it was being started is left out (its probe is then ignored).
WhatPlaysIsCurrent ==
  plCurrent # PlNone /\ plTimer = PlNone /\ plProbe = PlNone /\ ~plCrossed
    => plShown # PlNone /\ plShown[1] = plCurrent[1]

(***************************************************************************)
(* The hearts on the server, step by step (app/video.py).  A heart is kept *)
(* as a move in video_like_state.json, a flush makes the moves that are    *)
(* due, the offset of a video goes by its path and so has to follow it,    *)
(* and an old record of likes is made into moves once (/like/migrate).     *)
(* The videos of the model have one file name, in several folders; a       *)
(* folder that is missing is made, so it is left out.                      *)
(***************************************************************************)
CONSTANTS
  LkVideo,            \* videos of one directory
  LkFirst,            \* the folder each is in at first
  LkOldLikes,         \* those in the record of likes of before (liked_videos.json)
  LkNone,
  LkCalls, LkDeaths   \* bounds: requests of the pages; deaths of the server

LkDirs == {"home", "sub", "like"}
LkPath == LkDirs \X (1..Cardinality(LkVideo))      \* <<folder, n>>: the name with " (n)"

ASSUME LkAssumption ==
  /\ LkFirst \in [LkVideo -> LkDirs] /\ LkOldLikes \subseteq LkVideo
  /\ \A v, w \in LkVideo : LkFirst[v] = LkFirst[w] => v = w
  /\ \A v \in LkOldLikes : LkFirst[v] # "like"
  /\ {LkCalls, LkDeaths} \subseteq Nat

VARIABLES
  lkAt,        \* the path of each video, or LkNone
  lkPending,   \* "pending", in the order of the dictionary; what is wished is the other place
  lkOrigin,    \* "origin": where what is in "like" came from
  lkOffsets,   \* video_sync_offsets.json: the video each offset was set for
  lkLegacy,    \* liked_videos.json
  lkFlush,     \* the flush that holds _like_state_lock
  lkMigrate,   \* how far /like/migrate is
  lkDelete,    \* the path a deletion has still to strike from the records
  lkSeen,      \* the path the page knows each video by
  lkWant, lkSet, lkCame,   \* history: heart, offset, and where it was before it was moved
  lkStray,     \* history: videos called by a path that was not theirs, and the like
  lkOldNames,  \* history: those paths
  lkCalls, lkDeaths

lkFiles   == <<lkPending, lkOrigin, lkOffsets, lkLegacy>>
lkHistory == <<lkWant, lkSet, lkCame, lkStray, lkOldNames>>
LkVars    == <<lkAt, lkFiles, lkFlush, lkMigrate, lkDelete, lkSeen, lkHistory, lkCalls, lkDeaths>>

InLike(p)  == p[1] = "like"
VideosAt(p) == {v \in LkVideo : lkAt[v] = p}
Listed(p)  == \E i \in DOMAIN lkPending : lkPending[i] = p
HeartShown(v) == InLike(lkAt[v]) <=> ~Listed(lkAt[v])    \* its heart
Moving(p)  == lkFlush # LkNone /\ lkFlush.to = p      \* moved, its offset not yet
Struck(s, p) == SelectSeq(s, LAMBDA q : q # p)

LkInit ==
  /\ lkAt = [v \in LkVideo |-> <<LkFirst[v], 1>>] /\ lkSeen = lkAt
  /\ lkPending = <<>> /\ lkOrigin = [p \in LkPath |-> LkNone]
  /\ lkOffsets = [p \in LkPath |-> LkNone]
  /\ lkLegacy = {<<LkFirst[v], 1>> : v \in LkOldLikes}
  /\ lkFlush = LkNone /\ lkMigrate = "no" /\ lkDelete = LkNone
  /\ lkWant = [v \in LkVideo |-> InLike(lkAt[v])] /\ lkSet = [v \in LkVideo |-> FALSE]
  /\ lkCame = [v \in LkVideo |-> LkNone]
  /\ lkStray = {} /\ lkOldNames = {} /\ lkCalls = 0 /\ lkDeaths = 0

(***************************************************************************)
(* A request about v reaches the server; it names it by the path its page  *)
(* has, which is an old one when a flush of somebody else moved the file.  *)
(***************************************************************************)
Calls(v) ==
  /\ lkCalls < LkCalls /\ lkCalls' = lkCalls + 1 /\ lkSeen[v] # LkNone
  /\ LET named == VideosAt(lkSeen[v]) IN
     IF named = {v} /\ ~Moving(lkSeen[v]) THEN UNCHANGED <<lkStray, lkOldNames>>
     ELSE lkStray' = lkStray \cup named \cup {v} /\ lkOldNames' = lkOldNames \cup {lkSeen[v]}

\* set_liked_video: nothing to do when the file is where the wish wants it
Like(v, liked) ==
  /\ lkFlush = LkNone /\ Calls(v)
  /\ LET p == lkSeen[v] IN
     lkPending' = IF liked <=> InLike(p) THEN Struck(lkPending, p)
                  ELSE IF Listed(p) THEN lkPending ELSE Append(lkPending, p)
  /\ lkWant' = [lkWant EXCEPT ![v] = liked]
  /\ UNCHANGED <<lkAt, lkOrigin, lkOffsets, lkLegacy, lkFlush, lkMigrate, lkDelete, lkSeen, lkSet,
                 lkCame, lkDeaths>>

\* set_sync_offset, under a lock of its own
SetSyncOffset(v, on) ==
  /\ Calls(v)
  /\ lkOffsets' = [lkOffsets EXCEPT ![lkSeen[v]] = IF on THEN v ELSE LkNone]
  /\ lkSet' = [lkSet EXCEPT ![v] = on]
  /\ UNCHANGED <<lkAt, lkPending, lkOrigin, lkLegacy, lkFlush, lkMigrate, lkDelete, lkSeen, lkWant,
                 lkCame, lkDeaths>>

\* The page takes a new list, or the new names in the answer of a flush.
Refresh ==
  /\ lkSeen' = lkAt /\ lkSeen # lkAt
  /\ UNCHANGED <<lkAt, lkFiles, lkFlush, lkMigrate, lkDelete, lkHistory, lkCalls, lkDeaths>>

(***************************************************************************)
(* _flush_pending_moves, under _like_state_lock: each file that is there   *)
(* is moved, unless it is in use; its offset follows it; the state is      *)
(* saved when all are done.                                                *)
(***************************************************************************)
FlushBegins(by) ==
  /\ lkFlush = LkNone /\ lkPending # <<>>
  /\ lkFlush' = [todo |-> lkPending, kept |-> lkPending, origin |-> lkOrigin, to |-> LkNone,
                 moved |-> {}, by |-> by]
  /\ lkMigrate' = IF by = "migrate" THEN "flushing" ELSE lkMigrate
  /\ UNCHANGED <<lkAt, lkFiles, lkDelete, lkSeen, lkHistory, lkCalls, lkDeaths>>

\* _unique_path: a name with a number that is free (which one makes no difference)
FirstFree(dir) ==
  CHOOSE p \in LkPath :
    /\ p[1] = dir /\ VideosAt(p) = {}
    /\ \A q \in LkPath : q[1] = dir /\ q[2] < p[2] => VideosAt(q) # {}
UniquePath_Same(p) == p                                          \* mutant
UniquePath(p) == IF VideosAt(p) = {} THEN p ELSE FirstFree(p[1])

\* To "like", or back: where it came from, or the directory itself.
Target(p) ==
  LET back == lkFlush.origin[p] IN
  IF ~InLike(p) THEN UniquePath(<<"like", p[2]>>)
  ELSE UniquePath(IF back # LkNone THEN back ELSE <<"home", p[2]>>)

Rel == Head(lkFlush.todo)
Missing ==
  /\ lkFlush # LkNone /\ lkFlush.to = LkNone /\ lkFlush.todo # <<>> /\ VideosAt(Rel) = {}
  /\ lkFlush' = [lkFlush EXCEPT !.todo = Tail(@), !.kept = Struck(@, Rel)]
  /\ UNCHANGED <<lkAt, lkFiles, lkMigrate, lkDelete, lkSeen, lkHistory, lkCalls, lkDeaths>>

Deferred ==
  /\ lkFlush # LkNone /\ lkFlush.to = LkNone /\ lkFlush.todo # <<>> /\ VideosAt(Rel) # {}
  /\ lkFlush' = [lkFlush EXCEPT !.todo = Tail(@)]
  /\ UNCHANGED <<lkAt, lkFiles, lkMigrate, lkDelete, lkSeen, lkHistory, lkCalls, lkDeaths>>

Moves(v) ==
  /\ lkFlush # LkNone /\ lkFlush.to = LkNone /\ lkFlush.todo # <<>> /\ v \in VideosAt(Rel)
  /\ LET to == Target(Rel) IN
     /\ lkAt' = [lkAt EXCEPT ![v] = to]
     /\ lkFlush' = [lkFlush EXCEPT !.to = to, !.moved = @ \cup {v}]
     /\ lkCame' = [lkCame EXCEPT ![v] = IF InLike(to) THEN Rel ELSE LkNone]
     /\ lkStray' = IF to \in lkOldNames \cup {lkDelete} THEN lkStray \cup {v} ELSE lkStray
  /\ UNCHANGED <<lkFiles, lkMigrate, lkDelete, lkSeen, lkWant, lkSet, lkOldNames, lkCalls, lkDeaths>>

\* _load_sync_offsets: the video the offset of a path was set for
OffsetAt(path) == lkOffsets[path]

\* _rename_sync_offset, and what is noted of the move
Followed_Stays(from, to) == lkOffsets                            \* mutant
Followed(from, to) ==
  IF OffsetAt(from) = LkNone THEN lkOffsets
  ELSE [lkOffsets EXCEPT ![to] = OffsetAt(from), ![from] = LkNone]

Noted_NoOrigin(origin, from, to) == [origin EXCEPT ![from] = LkNone]      \* mutant
Noted(origin, from, to) ==
  IF InLike(from) THEN [origin EXCEPT ![from] = LkNone] ELSE [origin EXCEPT ![to] = from]

OffsetFollows ==
  /\ lkFlush # LkNone /\ lkFlush.to # LkNone
  /\ lkOffsets' = Followed(Rel, lkFlush.to)
  /\ lkFlush' = [lkFlush EXCEPT !.todo = Tail(@), !.kept = Struck(@, Rel), !.to = LkNone,
                                !.origin = Noted(@, Rel, lkFlush.to)]
  /\ UNCHANGED <<lkAt, lkPending, lkOrigin, lkLegacy, lkMigrate, lkDelete, lkSeen, lkHistory, lkCalls,
                 lkDeaths>>

FlushEnds ==
  /\ lkFlush # LkNone /\ lkFlush.todo = <<>>
  /\ lkPending' = lkFlush.kept /\ lkOrigin' = lkFlush.origin /\ lkFlush' = LkNone
  /\ lkMigrate' = IF lkFlush.by = "migrate" THEN "flushed" ELSE lkMigrate
  /\ UNCHANGED <<lkAt, lkOffsets, lkLegacy, lkDelete, lkSeen, lkHistory, lkCalls, lkDeaths>>

(***************************************************************************)
(* delete_video: to the bin, which a file in use refuses, and then its     *)
(* records, whether it is gone or not; the offset stays in its file.       *)
(***************************************************************************)
DeleteVideo(v, gone) ==
  /\ lkDelete = LkNone /\ lkSeen[v] # LkNone /\ VideosAt(lkSeen[v]) # {}
  /\ lkCalls < LkCalls /\ lkCalls' = lkCalls + 1
  /\ LET named == VideosAt(lkSeen[v]) IN
     /\ lkAt' = [w \in LkVideo |-> IF gone /\ w \in named THEN LkNone ELSE lkAt[w]]
     /\ lkStray' = lkStray \cup named
  /\ lkDelete' = lkSeen[v]
  /\ UNCHANGED <<lkFiles, lkFlush, lkMigrate, lkSeen, lkWant, lkSet, lkCame, lkOldNames, lkDeaths>>

StrikeRecords ==
  /\ lkDelete # LkNone /\ lkFlush = LkNone /\ lkDelete' = LkNone
  /\ lkPending' = Struck(lkPending, lkDelete)
  /\ lkOrigin' = [lkOrigin EXCEPT ![lkDelete] = LkNone]
  /\ UNCHANGED <<lkAt, lkOffsets, lkLegacy, lkFlush, lkMigrate, lkSeen, lkHistory, lkCalls, lkDeaths>>

(***************************************************************************)
(* migrate_liked_videos: the likes of before become moves, the moves are   *)
(* made, and the record keeps those that are still where it says.          *)
(***************************************************************************)
LkRecorded == {p \in lkLegacy : VideosAt(p) # {} /\ ~Listed(p)}
MigrateBegins ==
  /\ lkMigrate = "no" /\ lkLegacy # {} /\ lkFlush = LkNone /\ lkMigrate' = "queued"
  /\ \E s \in [1..Cardinality(LkRecorded) -> LkRecorded] :
       {s[i] : i \in DOMAIN s} = LkRecorded /\ lkPending' = lkPending \o s
  /\ lkWant' = [v \in LkVideo |-> lkWant[v] \/ lkAt[v] \in lkLegacy]
  /\ UNCHANGED <<lkAt, lkOrigin, lkOffsets, lkLegacy, lkFlush, lkDelete, lkSeen, lkSet, lkCame, lkStray,
                 lkOldNames, lkCalls, lkDeaths>>

MigrateFlushes ==
  /\ lkMigrate = "queued"
  /\ \/ FlushBegins("migrate")
     \/ /\ lkFlush = LkNone /\ lkPending = <<>> /\ lkMigrate' = "flushed"
        /\ UNCHANGED <<lkAt, lkFiles, lkFlush, lkDelete, lkSeen, lkHistory, lkCalls, lkDeaths>>

MigrateEnds ==
  /\ lkMigrate = "flushed" /\ lkMigrate' = "no"
  /\ lkLegacy' = {p \in lkLegacy : VideosAt(p) # {}}
  /\ UNCHANGED <<lkAt, lkPending, lkOrigin, lkOffsets, lkFlush, lkDelete, lkSeen, lkHistory, lkCalls,
                 lkDeaths>>

\* What is moved by then is moved, and the state says it is to be.
LkDies ==
  /\ lkDeaths < LkDeaths /\ lkDeaths' = lkDeaths + 1
  /\ lkStray' = IF lkFlush # LkNone THEN lkStray \cup lkFlush.moved ELSE lkStray
  /\ lkOldNames' = lkOldNames \cup {p \in LkPath : p = lkDelete \/ (Listed(p) /\ VideosAt(p) = {})}
  /\ lkFlush' = LkNone /\ lkMigrate' = "no" /\ lkDelete' = LkNone
  /\ UNCHANGED <<lkAt, lkFiles, lkSeen, lkWant, lkSet, lkCame, lkCalls>>

LkNext ==
  \/ \E v \in LkVideo, on \in BOOLEAN : Like(v, on) \/ SetSyncOffset(v, on) \/ DeleteVideo(v, on)
  \/ \E v \in LkVideo : Moves(v)
  \/ FlushBegins("page") \/ Missing \/ Deferred \/ OffsetFollows \/ FlushEnds
  \/ Refresh \/ StrikeRecords \/ MigrateBegins \/ MigrateFlushes \/ MigrateEnds \/ LkDies

LkSpec == LkInit /\ [][LkNext]_LkVars

(***************************************************************************)
(* Properties.                                                             *)
(***************************************************************************)
LkKnown == {v \in LkVideo \ lkStray : lkAt[v] # LkNone}

\* No move puts a video over another of the same name: it gets a number (_unique_path).
NoneOverwritten ==
  \A v, w \in LkVideo : v # w /\ lkAt[v] = lkAt[w] => lkAt[v] = LkNone

\* When no flush is under way a heart is shown as it was last set for that video, by its folder
\* and the moves that are due, whatever flushes, files in use, migrations and deaths of the
\* server came between.  Left out are videos that were called by a path which was not theirs,
\* that a deletion left where they were, or whose move a death cut off.
HeartsAsWished ==
  lkFlush = LkNone => \A v \in LkKnown : lkWant[v] <=> HeartShown(v)

\* The offset of a video goes with it from path to path, and what was set for another comes up
\* only when that one was deleted: its offset stays behind for the next video of that name.
OffsetStays ==
  \A v \in LkKnown : lkFlush = LkNone \/ lkFlush.to # lkAt[v] =>
    LET set == OffsetAt(lkAt[v]) IN
    /\ lkSet[v] <=> set = v
    /\ set \notin {LkNone, v} => lkAt[set] = LkNone \/ set \in lkStray

\* A video in "like" has the place it came from on file, to go back to when its heart is taken.
GoesBack ==
  lkFlush = LkNone =>
    \A v \in LkKnown : InLike(lkAt[v]) => lkOrigin[lkAt[v]] = lkCame[v]

LikesRight == NoneOverwritten /\ HeartsAsWished /\ OffsetStays /\ GoesBack
=============================================================================
