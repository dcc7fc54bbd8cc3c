---------------------------- MODULE PagesProofs ----------------------------
(***************************************************************************)
(* Proofs about parts that the run App_pages puts together: the page that  *)
(* plays random videos (Player), the collectors of boards (Boards) and of  *)
(* accounts (Scrape), the galleries (Gallery), the page of the recordings  *)
(* (AudioPage), the video call (VideoCall) and the chat (Chat).            *)
(***************************************************************************)
EXTENDS MC_Pages, TLAPS

(***************************************************************************)
(* The player.  What is begun plays later: a timer, a probe, listeners of  *)
(* metadata and a watchdog each keep a url and the video that was current  *)
(* when they were set.  The invariant says that such a pair names one      *)
(* file, and that the page shows the current video or has begun to.        *)
(***************************************************************************)
Agrees(s) == s.expected # PlNone => s.url[1] = s.expected[1]

PlStarts ==
  /\ plCurrent \in Path \cup {PlNone} /\ plPrev \in Seq(Path \cup {PlNone})
  /\ plTimer \in Path \cup {PlNone} /\ plProbe \in Starting \cup {PlNone}
  /\ plShown \in Path \cup {PlNone} /\ plListen \subseteq Starting
  /\ plWatch \in Starting \cup {PlNone}
PlLists ==
  /\ plList \subseteq Path /\ plWish \subseteq Path
  /\ plReply # PlNone => plReply.moves \subseteq Path
Begun ==
  /\ plProbe # PlNone => Agrees(plProbe)
  /\ plWatch # PlNone => Agrees(plWatch)
  /\ \A l \in plListen : Agrees(l)
  /\ plTimer # PlNone /\ plCurrent # PlNone => plTimer[1] = plCurrent[1]
Shows ==
  plCurrent # PlNone /\ plTimer = PlNone /\ ~plCrossed
    /\ (plProbe # PlNone => plProbe.expected # plCurrent)
  => plShown # PlNone /\ plShown[1] = plCurrent[1]
PlInv == PlStarts /\ PlLists /\ Begun /\ Shows

LEMMA PlSafe == PlInv => WhatPlaysIsCurrent
  BY DEF PlInv, Shows, WhatPlaysIsCurrent

LEMMA PlStart == PlInit => PlInv
  BY DEF PlInit, PlInv, PlStarts, PlLists, Begun, Shows

LEMMA PushedType ==
  ASSUME NEW prev \in Seq(Path \cup {PlNone}), NEW p \in Path \cup {PlNone}
  PROVE  Pushed(prev, p) \in Seq(Path \cup {PlNone})
<1>1. CASE Len(prev) > 1
  <2>1. prev # <<>>
    BY <1>1
  <2>2. Tail(prev) \in Seq(Path \cup {PlNone})
    BY <2>1
  <2> QED
    BY <1>1, <2>2 DEF Pushed
<1>2. CASE ~(Len(prev) > 1)
  BY <1>2 DEF Pushed
<1> QED
  BY <1>1, <1>2

\* Another path of the same file.
LEMMA SameFile ==
  ASSUME NEW p \in Path
  PROVE  OtherDir(p) \in Path /\ OtherDir(p)[1] = p[1] /\ p # PlNone /\ OtherDir(p) # PlNone
  BY PlAssumption DEF OtherDir, Path

\* What a step that plays leaves behind.
Played(cur) ==
  /\ plPrev' \in Seq(Path \cup {PlNone}) /\ plProbe' \in Starting \cup {PlNone}
  /\ plShown' \in Path \cup {PlNone} /\ plListen' \subseteq Starting
  /\ plWatch' \in Starting \cup {PlNone}
  /\ plProbe' # PlNone => Agrees(plProbe')
  /\ plWatch' # PlNone => Agrees(plWatch')
  /\ \A l \in plListen' : Agrees(l)
  /\ cur # PlNone /\ (plProbe' # PlNone => plProbe'.expected # cur)
       => plShown' # PlNone /\ plShown'[1] = cur[1]

LEMMA FastPathPlays ==
  ASSUME PlInv, NEW url \in Path, NEW cur \in Path \cup {PlNone}, cur # PlNone => url[1] = cur[1],
         NEW prev \in Seq(Path \cup {PlNone}), StartVjsFastPath(url, cur, prev),
         plProbe' \in Starting \cup {PlNone}, plProbe' # PlNone => Agrees(plProbe')
  PROVE  Played(cur)
<1> DEFINE as == [url |-> url, expected |-> cur]
<1>1. as \in Starting /\ Agrees(as) /\ as # PlNone
  BY PlAssumption DEF Starting, Agrees
<1>2. /\ plShown' = url /\ plPrev' = Pushed(prev, cur) /\ plListen' = plListen \cup {as}
      /\ plWatch' = as
  BY DEF StartVjsFastPath
<1> HIDE DEF as
<1>3. url # PlNone /\ plPrev' \in Seq(Path \cup {PlNone})
  BY <1>2, PushedType, PlAssumption
<1> QED
  BY <1>1, <1>2, <1>3 DEF Played, PlInv, PlStarts, Begun

LEMMA NativePlays ==
  ASSUME PlInv, NEW url \in Path, NEW cur \in Path \cup {PlNone}, cur # PlNone => url[1] = cur[1],
         NEW prev \in Seq(Path \cup {PlNone}), PlayNative(url, prev),
         plProbe' \in Starting \cup {PlNone}, plProbe' # PlNone => Agrees(plProbe')
  PROVE  Played(cur)
  BY PlAssumption DEF PlayNative, Played, PlInv, PlStarts, Begun

LEMMA PlayVideoPlays ==
  ASSUME PlInv, NEW url \in Path, NEW cur \in Path \cup {PlNone}, cur # PlNone => url[1] = cur[1],
         PlayVideo(url, cur)
  PROVE  Played(cur)
<1>1. CASE plKind # "vjs"
  <2>1. PlayNative(url, Pushed(plPrev, cur)) /\ UNCHANGED plProbe
    BY <1>1 DEF PlayVideo
  <2>2. Pushed(plPrev, cur) \in Seq(Path \cup {PlNone})
    BY PushedType DEF PlInv, PlStarts
  <2> QED
    BY <2>1, <2>2, NativePlays DEF PlInv, PlStarts, Begun
<1>2. CASE plKind = "vjs" /\ plMobile
  <2>1. StartVjsFastPath(url, cur, plPrev) /\ UNCHANGED plProbe
    BY <1>2 DEF PlayVideo
  <2> QED
    BY <2>1, FastPathPlays DEF PlInv, PlStarts, Begun
<1>3. CASE plKind = "vjs" /\ ~plMobile
  <2> DEFINE as == [url |-> url, expected |-> cur]
  <2>1. as \in Starting /\ Agrees(as) /\ as # PlNone /\ as.expected = cur
    BY PlAssumption DEF Starting, Agrees
  <2>2. /\ plProbe' = as
        /\ IF plProbe # PlNone /\ plProbe.expected = cur
           THEN StartVjsFastPath(plProbe.url, cur, plPrev) ELSE UNCHANGED plays
    BY <1>3 DEF PlayVideo
  <2> HIDE DEF as
  <2>3. CASE plProbe # PlNone /\ plProbe.expected = cur
    <3>1. plProbe.url \in Path /\ (cur # PlNone => plProbe.url[1] = cur[1])
      BY <2>3 DEF PlInv, PlStarts, Begun, Agrees, Starting
    <3> QED
      BY <2>1, <2>2, <2>3, <3>1, FastPathPlays DEF PlInv, PlStarts
  <2>4. CASE ~(plProbe # PlNone /\ plProbe.expected = cur)
    BY <2>1, <2>2, <2>4 DEF plays, Played, PlInv, PlStarts, Begun
  <2> QED
    BY <2>3, <2>4
<1> QED
  BY <1>1, <1>2, <1>3

\* A video becomes the current one: it plays, or the timer will play it.
LEMMA BecomesCurrent ==
  ASSUME PlInv, NEW p \in Path, Becomes(p)
  PROVE  (PlStarts /\ Begun /\ Shows)'
<1>1. plCurrent' = p /\ plCrossed' = FALSE /\ ScheduleVideoPlayback(p) /\ p # PlNone
  BY PlAssumption DEF Becomes
<1>2. CASE plTimer' = PlNone /\ PlayVideo(p, p)
  <2>1. Played(p)
    BY <1>2, PlayVideoPlays
  <2> QED
    BY <1>1, <1>2, <2>1 DEF Played, PlStarts, Begun, Shows
<1>3. CASE plTimer' = p /\ UNCHANGED <<plProbe, plays>>
  BY <1>1, <1>3 DEF plays, PlInv, PlStarts, Begun, Shows
<1> QED
  BY <1>1, <1>2, <1>3 DEF ScheduleVideoPlayback

LEMMA SelectKeeps ==
  ASSUME PlInv, NEW list \in SUBSET Path, Select(list)
  PROVE  (PlStarts /\ Begun /\ Shows)' /\ plList' \subseteq Path
<1>1. PICK p \in list : plList' = list \ {p} /\ \E q \in list : Becomes(q)
  BY DEF Select
<1> QED
  BY <1>1, BecomesCurrent

\* Nothing that is playing or being started changes, and the video stays current.
LEMMA NothingPlays ==
  ASSUME PlInv, UNCHANGED <<plCurrent, plTimer, plProbe, plays, plCrossed>>
  PROVE  (PlStarts /\ Begun /\ Shows)'
  BY DEF plays, PlInv, PlStarts, Begun, Shows

LEMMA GetVideoKeeps ==
  ASSUME PlInv, NEW list \in SUBSET Path, GetVideo(list), list = {} => plCurrent' \in {plCurrent, PlNone}
  PROVE  (PlStarts /\ Begun /\ Shows)' /\ plList' \subseteq Path
<1>1. CASE Select(list)
  BY <1>1, SelectKeeps
<1>2. CASE list = {} /\ plList' = {} /\ UNCHANGED <<plTimer, plProbe, plays, plDue, plCrossed>>
  BY <1>2 DEF plays, PlInv, PlStarts, Begun, Shows
<1> QED
  BY <1>1, <1>2 DEF GetVideo

LEMMA UserKeeps ==
  ASSUME PlInv, NextVideo \/ PrevVideo \/ Heart \/ DelVideo \/ FilterChange
  PROVE  PlInv'
<1>1. CASE NextVideo
  <2>1. GetVideo(plList) /\ (plList = {} => plCurrent' = plCurrent) /\ UNCHANGED heart
    BY <1>1 DEF NextVideo
  <2>2. (PlStarts /\ Begun /\ Shows)' /\ plList' \subseteq Path
    BY <2>1, GetVideoKeeps DEF PlInv, PlLists
  <2> QED
    BY <2>1, <2>2 DEF heart, PlInv, PlLists
<1>2. CASE FilterChange
  <2>1. GetVideo({}) /\ plCurrent' = PlNone /\ UNCHANGED heart
    BY <1>2 DEF FilterChange
  <2>2. (PlStarts /\ Begun /\ Shows)' /\ plList' \subseteq Path
    BY <2>1, GetVideoKeeps
  <2> QED
    BY <2>1, <2>2 DEF heart, PlInv, PlLists
<1>3. CASE Heart
  <2>1. (PlStarts /\ Begun /\ Shows)'
    BY <1>3, NothingPlays DEF Heart
  <2> QED
    BY <1>3, <2>1 DEF Heart, PlInv, PlLists, PlStarts
<1>4. CASE DelVideo
  <2>1. plWish' \subseteq Path /\ UNCHANGED plReply
    BY <1>4 DEF DelVideo, PlInv, PlLists
  <2>2. (PlStarts /\ Begun /\ Shows)' /\ plList' \subseteq Path
    <3>1. CASE Select(plList)
      BY <3>1, SelectKeeps DEF PlInv, PlLists
    <3>2. CASE /\ plCurrent' = PlNone /\ plShown' = PlNone
               /\ UNCHANGED <<plList, plTimer, plProbe, plKind, plListen, plWatch, plPrev, plCrossed>>
      BY <3>2 DEF PlInv, PlLists, PlStarts, Begun, Shows
    <3> QED
      BY <1>4, <3>1, <3>2 DEF DelVideo
  <2> QED
    BY <2>1, <2>2 DEF PlInv, PlLists
<1>5. CASE PrevVideo
  <2> DEFINE prev == Head(plPrev)
             rest == Pushed(Tail(plPrev), plCurrent)
  <2>1. /\ prev \in Path \cup {PlNone} /\ Tail(plPrev) \in Seq(Path \cup {PlNone})
        /\ rest \in Seq(Path \cup {PlNone}) /\ plPrev # <<>>
    <3>1. plPrev # <<>> /\ plPrev \in Seq(Path \cup {PlNone})
      BY <1>5 DEF PrevVideo, PlInv, PlStarts
    <3>2. prev \in Path \cup {PlNone} /\ Tail(plPrev) \in Seq(Path \cup {PlNone})
      BY <3>1
    <3> QED
      BY <3>1, <3>2, PushedType DEF PlInv, PlStarts
  <2>2. UNCHANGED <<plList, plWish, plReply>>
    BY <1>5 DEF PrevVideo, heart
  <2>3. (PlStarts /\ Begun /\ Shows)'
    <3>1. CASE prev = PlNone
      <4>1. /\ plPrev' = Tail(plPrev)
            /\ UNCHANGED <<plCurrent, plTimer, plProbe, plKind, plShown, plListen, plWatch, plCrossed>>
        BY <1>5, <3>1 DEF PrevVideo
      <4> QED
        BY <2>1, <4>1 DEF PlInv, PlStarts, Begun, Shows
    <3>2. CASE prev # PlNone
      <4>1. /\ plCurrent' = prev /\ plCrossed' = FALSE
            /\ \/ /\ plTimer' = prev /\ plPrev' = rest
                  /\ UNCHANGED <<plProbe, plKind, plShown, plListen, plWatch>>
               \/ /\ plTimer' = PlNone /\ plProbe' = [url |-> prev, expected |-> prev]
                  /\ IF plProbe # PlNone /\ plProbe.expected = prev
                     THEN StartVjsFastPath(plProbe.url, prev, rest)
                     ELSE plPrev' = rest /\ UNCHANGED <<plKind, plShown, plListen, plWatch>>
               \/ /\ plTimer' = PlNone /\ UNCHANGED plProbe
                  /\ StartVjsFastPath(prev, prev, rest) \/ PlayNative(prev, Pushed(rest, prev))
        BY <1>5, <3>2 DEF PrevVideo
      <4> HIDE DEF prev, rest
      <4>2. prev \in Path /\ Pushed(rest, prev) \in Seq(Path \cup {PlNone})
        BY <2>1, <3>2, PushedType
      <4>3. CASE /\ plTimer' = prev /\ plPrev' = rest
                 /\ UNCHANGED <<plProbe, plKind, plShown, plListen, plWatch>>
        BY <2>1, <3>2, <4>1, <4>2, <4>3 DEF PlInv, PlStarts, Begun, Shows
      <4>4. CASE /\ plTimer' = PlNone /\ plProbe' = [url |-> prev, expected |-> prev]
                 /\ IF plProbe # PlNone /\ plProbe.expected = prev
                    THEN StartVjsFastPath(plProbe.url, prev, rest)
                    ELSE plPrev' = rest /\ UNCHANGED <<plKind, plShown, plListen, plWatch>>
        <5> DEFINE as == [url |-> prev, expected |-> prev]
        <5>1. as \in Starting /\ Agrees(as) /\ as # PlNone /\ as.expected = prev /\ plProbe' = as
          BY <4>2, <4>4, PlAssumption DEF Starting, Agrees
        <5> HIDE DEF as
        <5>2. CASE plProbe # PlNone /\ plProbe.expected = prev
          <6>1. plProbe.url \in Path /\ plProbe.url[1] = prev[1]
            BY <3>2, <5>2 DEF PlInv, PlStarts, Begun, Agrees, Starting
          <6>2. Played(prev)
            BY <2>1, <4>2, <4>4, <5>1, <5>2, <6>1, FastPathPlays
          <6> QED
            BY <4>1, <4>2, <4>4, <6>2 DEF Played, PlStarts, Begun, Shows
        <5>3. CASE ~(plProbe # PlNone /\ plProbe.expected = prev)
          BY <2>1, <4>1, <4>2, <4>4, <5>1, <5>3 DEF PlInv, PlStarts, Begun, Shows
        <5> QED
          BY <5>2, <5>3
      <4>5. CASE /\ plTimer' = PlNone /\ UNCHANGED plProbe
                 /\ StartVjsFastPath(prev, prev, rest) \/ PlayNative(prev, Pushed(rest, prev))
        <5>1. plProbe' \in Starting \cup {PlNone} /\ (plProbe' # PlNone => Agrees(plProbe'))
          BY <4>5 DEF PlInv, PlStarts, Begun
        <5>2. Played(prev)
          BY <2>1, <4>2, <4>5, <5>1, FastPathPlays, NativePlays
        <5> QED
          BY <4>1, <4>2, <4>5, <5>2 DEF Played, PlStarts, Begun, Shows
      <4> QED
        BY <4>1, <4>3, <4>4, <4>5
    <3> QED
      BY <3>1, <3>2
  <2> QED
    BY <2>2, <2>3 DEF PlInv, PlLists
<1> QED
  BY <1>1, <1>2, <1>3, <1>4, <1>5

LEMMA PageKeeps ==
  ASSUME PlInv, VideosArrive \/ VideosFail \/ PlayDue \/ Probed
                \/ NativeMetadata \/ FastMetadata \/ Stalled
  PROVE  PlInv'
<1>1. CASE VideosArrive
  <2>1. UNCHANGED plReply
    BY <1>1 DEF VideosArrive
  <2>2. PICK stay \in SUBSET plWish :
          LET moved == {p \in plWish \ stay : IsThere(p, plWhere)}
              where == [v \in PlVideo |-> IF \E p \in moved : p[1] = v
                                          THEN OtherDir(<<v, plWhere[v]>>)[2] ELSE plWhere[v]]
              list  == LikeDir(plLiked, where)
          IN /\ plWish' = {p \in stay : IsThere(p, plWhere)}
             /\ \/ Select(list)
                \/ UNCHANGED <<plList, plCurrent, plTimer, plProbe, plays, plCrossed>>
    BY <1>1 DEF VideosArrive
  <2>3. plWish' \subseteq Path
    BY <2>2 DEF PlInv, PlLists
  <2>4. ASSUME NEW where, Select(LikeDir(plLiked, where))
        PROVE  (PlStarts /\ Begun /\ Shows)' /\ plList' \subseteq Path
    <3>1. LikeDir(plLiked, where) \in SUBSET Path
      BY DEF LikeDir
    <3> QED
      BY <2>4, <3>1, SelectKeeps
  <2>5. CASE UNCHANGED <<plList, plCurrent, plTimer, plProbe, plays, plCrossed>>
    BY <2>1, <2>3, <2>5, NothingPlays DEF PlInv, PlLists
  <2> QED
    BY <2>1, <2>2, <2>3, <2>4, <2>5 DEF PlInv, PlLists
<1>2. CASE VideosFail
  <2>1. (PlStarts /\ Begun /\ Shows)'
    BY <1>2, NothingPlays DEF VideosFail
  <2> QED
    BY <1>2, <2>1 DEF VideosFail, heart, PlInv, PlLists
<1>3. CASE PlayDue
  <2>1. /\ plTimer # PlNone /\ plTimer' = PlNone /\ PlayVideo(plTimer, plCurrent)
        /\ UNCHANGED <<plList, plCurrent, heart, plCrossed>>
    BY <1>3 DEF PlayDue
  <2>2. Played(plCurrent)
    BY <2>1, PlayVideoPlays DEF PlInv, PlStarts, Begun
  <2> QED
    BY <2>1, <2>2 DEF heart, Played, PlInv, PlStarts, PlLists, Begun, Shows
<1>4. CASE Probed
  <2>1. /\ plProbe # PlNone /\ plProbe' = PlNone
        /\ UNCHANGED <<plList, plCurrent, plTimer, heart, plCrossed>>
    BY <1>4 DEF Probed
  <2>2. plProbe.url \in Path /\ plProbe \in Starting /\ Agrees(plProbe)
        /\ Pushed(plPrev, plCurrent) \in Seq(Path \cup {PlNone})
    BY <2>1, PushedType DEF PlInv, PlStarts, Begun, Starting
  <2>3. CASE plCurrent # plProbe.expected /\ UNCHANGED plays
    BY <2>1, <2>2, <2>3 DEF heart, plays, PlInv, PlStarts, PlLists, Begun, Shows
  <2>4. CASE /\ plCurrent = plProbe.expected
             /\ \/ StartVjsFastPath(plProbe.url, plCurrent, plPrev)
                \/ PlayNative(plProbe.url, Pushed(plPrev, plCurrent))
    <3>1. plCurrent # PlNone => plProbe.url[1] = plCurrent[1]
      BY <2>2, <2>4 DEF Agrees
    <3>2. Played(plCurrent)
      BY <2>1, <2>2, <2>4, <3>1, FastPathPlays, NativePlays DEF PlInv, PlStarts
    <3> QED
      BY <2>1, <3>2 DEF heart, Played, PlInv, PlStarts, PlLists, Begun, Shows
  <2> QED
    BY <1>4, <2>3, <2>4 DEF Probed
<1>5. CASE NativeMetadata
  <2>1. /\ plShown' = plShown \/ plShown' = plCurrent
        /\ plListen' = plListen \/ plListen' = {}
        /\ UNCHANGED <<plList, plCurrent, plPrev, plTimer, plProbe, plWatch, heart, plCrossed>>
    BY <1>5 DEF NativeMetadata
  <2> QED
    BY <2>1 DEF heart, PlInv, PlStarts, PlLists, Begun, Shows
<1>6. CASE FastMetadata
  <2>1. UNCHANGED <<plList, plCurrent, plTimer, plProbe, heart, plCrossed>>
    BY <1>6 DEF FastMetadata
  <2>2. CASE \E l \in plListen : l.expected = plCurrent /\ PlayNative(l.url, plPrev)
    <3>1. PICK l \in plListen : l.expected = plCurrent /\ PlayNative(l.url, plPrev)
      BY <2>2
    <3>2. l.url \in Path /\ (plCurrent # PlNone => l.url[1] = plCurrent[1])
      BY <3>1 DEF PlInv, PlStarts, Begun, Agrees, Starting
    <3>3. Played(plCurrent)
      BY <2>1, <3>1, <3>2, NativePlays DEF PlInv, PlStarts, Begun
    <3> QED
      BY <2>1, <3>3 DEF heart, Played, PlInv, PlStarts, PlLists, Begun, Shows
  <2>3. CASE plListen' = {} /\ UNCHANGED <<plShown, plWatch, plPrev>>
    BY <2>1, <2>3 DEF heart, PlInv, PlStarts, PlLists, Begun, Shows
  <2> QED
    BY <1>6, <2>2, <2>3 DEF FastMetadata
<1>7. CASE Stalled
  <2>1. /\ plWatch # PlNone /\ plWatch' = PlNone
        /\ UNCHANGED <<plList, plCurrent, plPrev, plTimer, plProbe, heart, plCrossed>>
    BY <1>7 DEF Stalled
  <2>2. CASE plCurrent = plWatch.expected /\ plShown' = plWatch.url /\ plListen' = {}
    <3>1. plWatch.url \in Path /\ (plCurrent # PlNone => plWatch.url[1] = plCurrent[1]) /\ plWatch.url # PlNone
      BY <2>1, <2>2, PlAssumption DEF PlInv, PlStarts, Begun, Agrees, Starting
    <3> QED
      BY <2>1, <2>2, <3>1 DEF heart, PlInv, PlStarts, PlLists, Begun, Shows
  <2>3. CASE UNCHANGED <<plShown, plListen>>
    BY <2>1, <2>3 DEF heart, PlInv, PlStarts, PlLists, Begun, Shows
  <2> QED
    BY <1>7, <2>2, <2>3 DEF Stalled
<1> QED
  BY <1>1, <1>2, <1>3, <1>4, <1>5, <1>6, <1>7

LEMMA MovesKeep ==
  ASSUME PlInv, FlushLikeMoves \/ Flushed
  PROVE  PlInv'
<1>1. CASE FlushLikeMoves
  <2>1. (PlStarts /\ Begun /\ Shows)'
    BY <1>1, NothingPlays DEF FlushLikeMoves
  <2>2. PICK stay \in SUBSET plWish :
          LET moved == {p \in plWish \ stay : IsThere(p, plWhere)}
          IN /\ plWish' = {p \in stay : IsThere(p, plWhere)}
             /\ plReply' = [moves |-> moved, deferred |-> plWish' # {}]
    BY <1>1 DEF FlushLikeMoves
  <2>3. UNCHANGED plList
    BY <1>1 DEF FlushLikeMoves
  <2> QED
    BY <2>1, <2>2, <2>3 DEF PlInv, PlLists
<1>2. CASE Flushed
  <2> DEFINE Renamed(p) == IF p \in plReply.moves THEN OtherDir(p) ELSE p
  <2>1. /\ plReply # PlNone /\ plReply' = PlNone
        /\ UNCHANGED <<plTimer, plProbe, plShown, plListen, plWatch, plWish>>
        /\ \/ /\ plCurrent' = Renamed(plCurrent)
              /\ plPrev' = [i \in DOMAIN plPrev |-> Renamed(plPrev[i])]
              /\ plList' = {Renamed(p) : p \in plList}
              /\ plCrossed' = (plCrossed \/ (plCurrent \in plReply.moves
                                             /\ (plTimer # PlNone \/ plProbe # PlNone)))
           \/ UNCHANGED <<plCurrent, plPrev, plList, plCrossed>>
    BY <1>2 DEF Flushed
  <2>2. plReply.moves \subseteq Path
    BY <2>1 DEF PlInv, PlLists
  <2>3. ASSUME NEW p \in Path \cup {PlNone}
        PROVE  /\ Renamed(p) \in Path \cup {PlNone} /\ (p \in Path => Renamed(p) \in Path)
               /\ (Renamed(p) = PlNone <=> p = PlNone) /\ (p # PlNone => Renamed(p)[1] = p[1])
    BY <2>2, SameFile, PlAssumption
  <2>4. PlLists'
    <3>1. {Renamed(p) : p \in plList} \subseteq Path
      BY <2>3 DEF PlInv, PlLists
    <3> HIDE DEF Renamed
    <3> QED
      BY <2>1, <3>1 DEF PlInv, PlLists
  <2>5. CASE UNCHANGED <<plCurrent, plPrev, plList, plCrossed>>
    BY <2>1, <2>4, <2>5 DEF PlInv, PlStarts, Begun, Shows
  <2>6. CASE /\ plCurrent' = Renamed(plCurrent)
             /\ plPrev' = [i \in DOMAIN plPrev |-> Renamed(plPrev[i])]
             /\ plCrossed' = (plCrossed \/ (plCurrent \in plReply.moves
                                            /\ (plTimer # PlNone \/ plProbe # PlNone)))
    <3>1. plPrev' \in Seq(Path \cup {PlNone})
      <4>1. plPrev \in Seq(Path \cup {PlNone})
        BY DEF PlInv, PlStarts
      <4>2. DOMAIN plPrev = 1 .. Len(plPrev) /\ Len(plPrev) \in Nat
        BY <4>1
      <4>3. \A i \in 1 .. Len(plPrev) : Renamed(plPrev[i]) \in Path \cup {PlNone}
        BY <2>3, <4>1
      <4> HIDE DEF Renamed
      <4> QED
        BY <2>6, <4>2, <4>3
    <3>2. plCurrent \notin plReply.moves => plCurrent' = plCurrent
      BY <2>6
    <3>3. /\ plCurrent' \in Path \cup {PlNone} /\ (plCurrent' = PlNone <=> plCurrent = PlNone)
          /\ (plCurrent # PlNone => plCurrent'[1] = plCurrent[1])
      BY <2>3, <2>6 DEF PlInv, PlStarts
    <3> HIDE DEF Renamed
    <3>4. PlStarts' /\ Begun'
      BY <2>1, <3>1, <3>3 DEF PlInv, PlStarts, Begun
    <3>5. Shows'
      BY <2>1, <2>6, <3>2, <3>3 DEF PlInv, Shows
    <3> QED
      BY <2>4, <3>4, <3>5 DEF PlInv
  <2> QED
    BY <2>1, <2>5, <2>6
<1> QED
  BY <1>1, <1>2

LEMMA PlKept == PlInv /\ [PlNext]_PlVars => PlInv'
<1> SUFFICES ASSUME PlInv, [PlNext]_PlVars
             PROVE  PlInv'
  OBVIOUS
<1>1. CASE UNCHANGED PlVars
  <2>1. (PlStarts /\ Begun /\ Shows)'
    BY <1>1, NothingPlays DEF PlVars
  <2> QED
    BY <1>1, <2>1 DEF PlVars, heart, PlInv, PlLists
<1>2. CASE PlNext
  BY <1>2, UserKeeps, PageKeeps, MovesKeep DEF PlNext
<1> QED
  BY <1>1, <1>2

(***************************************************************************)
(* The boards.  Links are walked from new to old, so that what is left of  *)
(* a page goes down by one to the oldest post of the page; all that is     *)
(* newer, up to what this walk registered, is settled: read, registered or *)
(* passed over for a reason.  Pages that move under the walk only bring    *)
(* posts to a later page that it has seen, never past it.                  *)
(***************************************************************************)
Walk == [at : {"idle", "list", "post", "read", "register"}, page : Nat, links : Seq(Int),
         list : SUBSET Int, whole : BOOLEAN, new : SUBSET Int]
RunsDown(links, b) == \A i \in 1 .. Len(links) : links[i] = b + Len(links) + 1 - i
Settled(p)  == p \in bdRead \/ Taken(p) \/ p \in bdExcused
OldSettled  == \A q \in bdKnown \ bdWalk.new : \A p \in 1 .. q : Settled(p)
Inside      == bdWalk.at \in {"post", "read", "register"}

BdShape ==
  /\ bdKind \in {"ai", "cos"} /\ bdTop \in Nat /\ bdWalk \in Walk
  /\ bdKnown \subseteq 1 .. bdTop /\ bdKnown \subseteq bdRead
  /\ bdWalk.at # "idle" => bdWalk.page > 0
  /\ bdWalk.at \in {"read", "register"} => bdWalk.links # <<>>
  /\ bdWalk.at = "register" => Head(bdWalk.links) \in bdRead

BdLogs ==
  /\ bdDay \in 1 .. BdDays /\ bdLog \in [1 .. BdDays -> SUBSET Int]
  /\ bdKind = "cos" /\ ~bdSameDay => bdMissing \subseteq Logged

AiIdle == bdKind = "ai" /\ bdWalk.at = "idle" => \A q \in bdKnown : \A p \in 1 .. q : Settled(p)

\* of a list of t posts, b come after the pages that were opened
OnTheWay(w, t, b) ==
  /\ w.list = 1 .. t /\ w.new \subseteq 1 .. t /\ b \in Nat
  /\ w.at = "list" => b = Beyond(t, w.page - 1)
  /\ w.at # "list" => b = Beyond(t, w.page) /\ RunsDown(w.links, b) /\ b + Len(w.links) <= t
  /\ \A q \in w.new : \A p \in 1 .. q :
       p > b + (IF w.at = "list" THEN 0 ELSE Len(w.links)) => Settled(p)
AiWalk ==
  bdKind = "ai" /\ bdWalk.at # "idle" =>
    OldSettled /\ \E t \in 0 .. bdTop : \E b \in Nat : OnTheWay(bdWalk, t, b)

CosWalk ==
  bdKind = "cos" /\ Inside =>
    /\ RunsDown(bdWalk.links, 0) /\ Len(bdWalk.links) <= bdTop /\ bdWalk.list \subseteq 1 .. bdTop
    /\ \A p \in bdWalk.list : Taken(p) \/ p \in bdFailed \/ p <= Len(bdWalk.links)

BdInv == BdShape /\ BdLogs /\ AiIdle /\ AiWalk /\ CosWalk /\ MissedIsTriedAgain

LEMMA BdSafe == BdInv => BoardsRight
<1> SUFFICES ASSUME BdInv
             PROVE  BoardsRight
  OBVIOUS
<1>1. NoGapWithoutFault
  <2> SUFFICES ASSUME bdKind = "ai", bdWalk.at = "idle", NEW p \in 1 .. bdTop, NEW q \in bdKnown, q > p,
                      p \notin bdRead, ~Taken(p)
               PROVE  p \in bdExcused
    BY DEF NoGapWithoutFault
  <2>1. p \in 1 .. q
    BY DEF BdInv, BdShape
  <2> QED
    BY <2>1 DEF BdInv, AiIdle, Settled
<1>2. RegisteredIsRead
  BY DEF BdInv, BdShape, BdLogs, RegisteredIsRead
<1> QED
  BY <1>1, <1>2 DEF BdInv, BoardsRight

LEMMA TakenStays ==
  ASSUME bdKnown \subseteq bdKnown', NEW p, Taken(p)
  PROVE  Taken(p)'
  BY DEF Taken

LEMMA SettledStays ==
  ASSUME bdKnown \subseteq bdKnown', bdRead \subseteq bdRead', bdExcused \subseteq bdExcused',
         NEW p, Settled(p)
  PROVE  Settled(p)'
  BY TakenStays DEF Settled

LEMMA BdStart == BdInit => BdInv
<1> SUFFICES ASSUME BdInit
             PROVE  BdInv
  OBVIOUS
<1>1. bdWalk = BdRest /\ BdRest \in Walk /\ BdRest.at = "idle" /\ BdRest.whole = FALSE
  BY DEF BdInit, BdRest, Walk
<1>2. BdShape /\ AiIdle /\ AiWalk /\ CosWalk /\ MissedIsTriedAgain
  BY <1>1 DEF BdInit, BdShape, AiIdle, AiWalk, CosWalk, MissedIsTriedAgain, Inside
<1>3. BdLogs
  BY BdAssumption DEF BdInit, BdLogs
<1> QED
  BY <1>2, <1>3 DEF BdInv

(***************************************************************************)
(* Steps beside the walk, and its beginning.                               *)
(***************************************************************************)
LEMMA BesideTheWalk ==
  ASSUME BdInv, BdPublish \/ Midnight \/ Retry404
  PROVE  BdInv'
<1>1. /\ UNCHANGED <<bdKind, bdKnown, bdRead, bdWalk, bdFailed, bdExcused, bdLog>>
      /\ bdTop' \in Nat /\ bdTop <= bdTop' /\ bdDay' \in 1 .. BdDays /\ bdMissing' \subseteq bdMissing
      /\ bdSameDay' = bdSameDay
  <2>1. CASE BdPublish
    BY <2>1 DEF BdPublish, bdStored, BdInv, BdShape, BdLogs
  <2>2. CASE Midnight
    BY <2>2, BdAssumption DEF Midnight, bdStored, BdInv, BdShape, BdLogs
  <2>3. CASE Retry404
    BY <2>3 DEF Retry404, bdTime, BdInv, BdShape, BdLogs
  <2> QED
    BY <2>1, <2>2, <2>3
<1>2. \A p : Settled(p)' <=> Settled(p)
  BY <1>1 DEF Settled, Taken
<1>3. \A p : Taken(p)' <=> Taken(p)
  BY <1>1 DEF Taken
<1>4. 1 .. bdTop \subseteq 1 .. bdTop' /\ 0 .. bdTop \subseteq 0 .. bdTop'
  BY <1>1 DEF BdInv, BdShape
<1>5. BdShape'
  BY <1>1, <1>4 DEF BdInv, BdShape
<1>6. BdLogs'
  BY <1>1 DEF BdInv, BdLogs, Logged
<1>7. AiIdle'
  BY <1>1, <1>2 DEF BdInv, AiIdle
<1>8. AiWalk'
  BY <1>1, <1>2, <1>4 DEF BdInv, AiWalk, OldSettled, OnTheWay
<1>9. CosWalk'
  BY <1>1, <1>3, <1>4 DEF BdInv, BdShape, Walk, CosWalk, Inside
<1>10. MissedIsTriedAgain'
  BY <1>1, <1>3 DEF BdInv, MissedIsTriedAgain
<1> QED
  BY <1>5, <1>6, <1>7, <1>8, <1>9, <1>10 DEF BdInv

LEMMA StartKeeps ==
  ASSUME BdInv, Start
  PROVE  BdInv'
<1> DEFINE z == [BdRest EXCEPT !.at = "list", !.page = 1]
<1>1. /\ bdWalk.at = "idle" /\ bdWalk' = z /\ bdLog' = LogOpened
      /\ bdSameDay' = (bdSameDay \/ bdLog[bdDay] # {})
      /\ UNCHANGED <<bdKind, bdTop, bdKnown, bdRead, bdMissing, bdExcused, bdDay>>
  BY DEF Start, bdStored
<1>2. /\ z \in Walk /\ z.at = "list" /\ z.page = 1 /\ z.list = {} /\ z.new = {} /\ z.whole = FALSE
  <2>1. BdRest \in Walk /\ BdRest.list = {} /\ BdRest.new = {} /\ BdRest.whole = FALSE
    BY DEF BdRest, Walk
  <2> QED
    BY <2>1 DEF Walk
<1> HIDE DEF z
<1>3. \A p : Settled(p)' <=> Settled(p)
  BY <1>1 DEF Settled, Taken
<1>4. BdShape' /\ CosWalk' /\ MissedIsTriedAgain' /\ AiIdle'
  BY <1>1, <1>2 DEF BdInv, BdShape, CosWalk, Inside, MissedIsTriedAgain, AiIdle
<1>5. AiWalk'
  <2> SUFFICES ASSUME bdKind = "ai"
               PROVE  (OldSettled /\ \E t \in 0 .. bdTop : \E b \in Nat : OnTheWay(bdWalk, t, b))'
    BY <1>1 DEF AiWalk
  <2>1. OldSettled'
    BY <1>1, <1>2, <1>3 DEF BdInv, AiIdle, OldSettled
  <2>2. Beyond(0, 0) = 0
    BY BdAssumption DEF Beyond
  <2>3. OnTheWay(bdWalk, 0, 0)'
    BY <1>1, <1>2, <2>2 DEF OnTheWay
  <2>4. 0 \in (0 .. bdTop)'
    BY <1>1 DEF BdInv, BdShape
  <2> QED
    BY <2>1, <2>3, <2>4
<1>6. BdLogs'
  <2>1. bdLog' \in [1 .. BdDays -> SUBSET Int]
    BY <1>1 DEF BdInv, BdLogs, LogOpened
  <2>2. ASSUME bdKind = "cos", ~bdSameDay'
        PROVE  bdLog' = bdLog
    BY <1>1, <2>2 DEF BdInv, BdLogs, LogOpened
  <2> QED
    BY <1>1, <2>1, <2>2 DEF BdInv, BdLogs, Logged
<1> QED
  BY <1>4, <1>5, <1>6 DEF BdInv

(***************************************************************************)
(* A post: it is checked, read, registered; then comes the next one.       *)
(***************************************************************************)
LEMMA BeyondType ==
  ASSUME NEW top \in Nat, NEW k \in Nat
  PROVE  Beyond(top, k) \in Nat /\ Beyond(top, k) <= top
<1> DEFINE n == k * BdPerPage
<1>1. n \in Nat
  BY BdAssumption
<1> HIDE DEF n
<1>2. (IF top > n THEN top - n ELSE 0) \in Nat /\ (IF top > n THEN top - n ELSE 0) <= top
  BY <1>1
<1> QED
  BY <1>2 DEF Beyond, n

LEMMA PostAtHand ==
  ASSUME BdInv, Inside, bdWalk.links # <<>>
  PROVE  /\ Head(bdWalk.links) \in 1 .. bdTop /\ Len(bdWalk.links) \in Nat \ {0}
         /\ bdKind = "cos" => Head(bdWalk.links) = Len(bdWalk.links)
         /\ \A t \in 0 .. bdTop, b \in Nat :
              OnTheWay(bdWalk, t, b) => Head(bdWalk.links) = b + Len(bdWalk.links) /\ Head(bdWalk.links) \in 1 .. t
<1> DEFINE s == bdWalk.links
<1>1. s \in Seq(Int) /\ bdTop \in Nat /\ bdKind \in {"ai", "cos"}
  BY DEF BdInv, BdShape, Walk
<1>2. Len(s) \in Nat \ {0} /\ Head(s) = s[1] /\ 1 \in 1 .. Len(s)
  BY <1>1
<1>3. ASSUME NEW t \in 0 .. bdTop, NEW b \in Nat, OnTheWay(bdWalk, t, b)
      PROVE  Head(s) = b + Len(s) /\ Head(s) \in 1 .. t
  <2>1. s[1] = b + Len(s) + 1 - 1 /\ b + Len(s) <= t
    BY <1>2, <1>3 DEF OnTheWay, RunsDown, Inside
  <2> HIDE DEF s
  <2> QED
    BY <1>2, <1>3, <2>1
<1>4. CASE bdKind = "cos"
  <2>1. s[1] = 0 + Len(s) + 1 - 1 /\ Len(s) <= bdTop
    BY <1>2, <1>4 DEF BdInv, CosWalk, RunsDown, Inside
  <2> HIDE DEF s
  <2>2. Head(s) = Len(s) /\ Head(s) \in 1 .. bdTop
    BY <1>1, <1>2, <2>1
  <2> QED
    BY <1>2, <1>3, <2>2 DEF s
<1>5. CASE bdKind = "ai"
  <2>1. PICK t \in 0 .. bdTop : \E b \in Nat : OnTheWay(bdWalk, t, b)
    BY <1>5 DEF BdInv, AiWalk, Inside
  <2>2. Head(s) \in 1 .. t
    BY <1>3, <2>1
  <2>3. Head(s) \in 1 .. bdTop
    BY <1>1, <2>1, <2>2
  <2> QED
    BY <1>2, <1>3, <1>5, <2>3
<1> QED
  BY <1>1, <1>4, <1>5

WalkInv == BdShape /\ AiIdle /\ AiWalk /\ CosWalk /\ MissedIsTriedAgain

LEMMA WithThePost ==
  ASSUME BdInv, Inside, bdWalk.links # <<>>, NEW a \in {"read", "register"},
         bdWalk' = [bdWalk EXCEPT !.at = a], a = "register" => Head(bdWalk.links) \in bdRead',
         bdRead \subseteq bdRead', UNCHANGED <<bdKind, bdTop, bdKnown, bdFailed, bdExcused>>
  PROVE  WalkInv'
<1>1. /\ bdWalk \in Walk /\ bdWalk' \in Walk /\ bdWalk'.at = a /\ bdWalk'.page = bdWalk.page
      /\ bdWalk'.links = bdWalk.links /\ bdWalk'.list = bdWalk.list /\ bdWalk'.new = bdWalk.new
  BY DEF BdInv, BdShape, Walk
<1>2. Inside' /\ bdWalk.at # "idle" /\ bdWalk.at # "list" /\ bdWalk'.at # "list" /\ bdWalk'.at # "idle"
  BY <1>1 DEF Inside
<1>3. \A p : Settled(p) => Settled(p)'
  BY SettledStays
<1>4. \A p : Taken(p)' <=> Taken(p)
  BY DEF Taken
<1>5. BdShape'
  BY <1>1, <1>2 DEF BdInv, BdShape
<1>6. AiIdle' /\ MissedIsTriedAgain'
  BY <1>1, <1>2 DEF AiIdle, MissedIsTriedAgain
<1>7. CosWalk'
  BY <1>1, <1>2, <1>4 DEF BdInv, CosWalk
<1>8. AiWalk'
  <2> SUFFICES ASSUME bdKind = "ai"
               PROVE  (OldSettled /\ \E t \in 0 .. bdTop : \E b \in Nat : OnTheWay(bdWalk, t, b))'
    BY DEF AiWalk
  <2>1. OldSettled /\ \E t \in 0 .. bdTop : \E b \in Nat : OnTheWay(bdWalk, t, b)
    BY <1>2 DEF BdInv, AiWalk
  <2>2. PICK t \in 0 .. bdTop, b \in Nat : OnTheWay(bdWalk, t, b)
    BY <2>1
  <2>3. OnTheWay(bdWalk, t, b)'
    BY <1>1, <1>2, <1>3, <2>2 DEF OnTheWay
  <2>4. OldSettled'
    BY <1>1, <1>3, <2>1 DEF OldSettled
  <2> QED
    BY <2>3, <2>4
<1> QED
  BY <1>5, <1>6, <1>7, <1>8 DEF WalkInv

LEMMA ToTheNextPost ==
  ASSUME BdInv, Inside, bdWalk.links # <<>>, NEW h, h = Head(bdWalk.links), NEW N \in SUBSET {h},
         bdWalk' = [PassedOn EXCEPT !.new = bdWalk.new \cup N],
         bdKnown \subseteq bdKnown', bdKnown' \subseteq bdKnown \cup N, bdKnown' \subseteq bdRead,
         bdFailed \subseteq bdFailed', bdExcused \subseteq bdExcused', UNCHANGED <<bdKind, bdTop, bdRead>>,
         bdKind = "ai" => Settled(h)', bdKind = "cos" => Taken(h)' \/ h \in bdFailed'
  PROVE  WalkInv'
<1> DEFINE s == bdWalk.links
<1>1. h \in 1 .. bdTop /\ Len(s) \in Nat \ {0} /\ s \in Seq(Int)
  BY PostAtHand DEF BdInv, BdShape, Walk
<1>2. /\ bdWalk \in Walk /\ bdWalk' \in Walk /\ bdWalk'.at = "post" /\ bdWalk'.page = bdWalk.page
      /\ bdWalk'.links = Tail(s) /\ bdWalk'.list = bdWalk.list /\ bdWalk'.new = bdWalk.new \cup N
      /\ bdWalk'.whole = bdWalk.whole
  <2>1. bdWalk \in Walk /\ Tail(s) \in Seq(Int) /\ N \in SUBSET Int
    BY <1>1 DEF BdInv, BdShape
  <2>2. bdWalk' = [[bdWalk EXCEPT !.at = "post", !.links = Tail(s)] EXCEPT !.new = bdWalk.new \cup N]
    BY DEF PassedOn
  <2> HIDE DEF s
  <2> QED
    BY <2>1, <2>2 DEF Walk
<1>3. /\ Len(Tail(s)) \in Nat /\ Len(Tail(s)) = Len(s) - 1
      /\ \A i \in 1 .. Len(Tail(s)) : i + 1 \in 1 .. Len(s) /\ Tail(s)[i] = s[i + 1]
  BY <1>1
<1>4. \A p : Settled(p) => Settled(p)'
  BY SettledStays
<1>5. \A p : Taken(p) => Taken(p)'
  BY TakenStays
<1>6. Inside' /\ bdWalk.at # "idle" /\ bdWalk.at # "list" /\ bdWalk'.at # "list" /\ bdWalk'.at # "idle"
  BY <1>2 DEF Inside
<1>7. BdShape'
  BY <1>1, <1>2, <1>6 DEF BdInv, BdShape
<1>8. AiIdle' /\ MissedIsTriedAgain'
  BY <1>6 DEF AiIdle, MissedIsTriedAgain
<1> DEFINE left == Len(s)
           rest == Tail(s)
<1>9. CosWalk'
  <2> SUFFICES ASSUME bdKind = "cos"
               PROVE  (/\ RunsDown(bdWalk.links, 0) /\ Len(bdWalk.links) <= bdTop /\ bdWalk.list \subseteq 1 .. bdTop
                       /\ \A p \in bdWalk.list : Taken(p) \/ p \in bdFailed \/ p <= Len(bdWalk.links))'
    BY DEF CosWalk
  <2>1. /\ RunsDown(s, 0) /\ left <= bdTop /\ bdWalk.list \subseteq 1 .. bdTop
        /\ \A p \in bdWalk.list : Taken(p) \/ p \in bdFailed \/ p <= left
    BY DEF BdInv, CosWalk
  <2>2. h = left
    BY PostAtHand
  <2>3. RunsDown(rest, 0)
    <3> HIDE DEF s
    <3> QED
      BY <1>1, <1>3, <2>1 DEF RunsDown
  <2>4. Len(rest) <= bdTop
    <3>1. bdTop \in Nat
      BY DEF BdInv, BdShape
    <3> HIDE DEF s
    <3> QED
      BY <1>1, <1>3, <2>1, <3>1
  <2>5. ASSUME NEW p \in bdWalk.list
        PROVE  Taken(p)' \/ p \in bdFailed' \/ p <= Len(rest)
    <3> HIDE DEF s
    <3>1. p \in Int /\ left \in Int
      BY <1>1, <2>1
    <3>2. CASE Taken(p) \/ p \in bdFailed
      BY <1>5, <3>2
    <3>3. CASE p <= left
      <4>1. p = h \/ p <= Len(rest)
        BY <1>3, <2>2, <3>1, <3>3
      <4> QED
        BY <4>1
    <3> QED
      BY <2>1, <3>2, <3>3
  <2> HIDE DEF s
  <2> QED
    BY <1>2, <2>1, <2>3, <2>4, <2>5
<1>10. AiWalk'
  <2> SUFFICES ASSUME bdKind = "ai"
               PROVE  (OldSettled /\ \E t \in 0 .. bdTop : \E b \in Nat : OnTheWay(bdWalk, t, b))'
    BY DEF AiWalk
  <2>1. OldSettled /\ \E t \in 0 .. bdTop : \E b \in Nat : OnTheWay(bdWalk, t, b)
    BY <1>6 DEF BdInv, AiWalk
  <2>2. PICK t \in 0 .. bdTop, b \in Nat : OnTheWay(bdWalk, t, b)
    BY <2>1
  <2>3. OldSettled'
    BY <1>2, <1>4, <2>1 DEF OldSettled
  <2>4. h = b + left /\ h \in 1 .. t /\ b + left <= t
    BY <1>6, <2>2, PostAtHand DEF OnTheWay
  <2>5. /\ bdWalk.list = 1 .. t /\ bdWalk.new \subseteq 1 .. t /\ b = Beyond(t, bdWalk.page) /\ RunsDown(s, b)
        /\ \A q \in bdWalk.new : \A p \in 1 .. q : p > b + left => Settled(p)
    BY <1>6, <2>2 DEF OnTheWay
  <2>6. RunsDown(rest, b) /\ b + Len(rest) <= t
    <3> HIDE DEF s
    <3> QED
      BY <1>1, <1>3, <2>4, <2>5 DEF RunsDown
  <2>7. ASSUME NEW q \in bdWalk.new \cup N, NEW p \in 1 .. q, p > b + Len(rest)
        PROVE  Settled(p)'
    <3>1. p \in Int /\ left \in Int /\ q \in Int
      BY <1>1, <2>5, <2>4
    <3>2. CASE p = h
      BY <3>2
    <3>3. CASE p # h
      <4> HIDE DEF s
      <4>1. p > b + left
        BY <1>1, <1>3, <2>4, <2>7, <3>1, <3>3
      <4>2. q # h
        BY <2>4, <2>7, <3>1, <4>1
      <4>3. q \in bdWalk.new
        BY <4>2
      <4> QED
        BY <1>4, <2>5, <4>1, <4>3
    <3> QED
      BY <3>2, <3>3
  <2>8. (bdWalk.new \cup N) \subseteq 1 .. t
    BY <2>4, <2>5
  <2>9. OnTheWay(bdWalk, t, b)'
    <3> HIDE DEF s
    <3> QED
      BY <1>2, <1>6, <2>5, <2>6, <2>7, <2>8 DEF OnTheWay
  <2> QED
    BY <2>3, <2>9
<1> QED
  BY <1>7, <1>8, <1>9, <1>10 DEF WalkInv

LEMMA AfterIs ==
  ASSUME BdInv, Inside
  PROVE  /\ After("check") = [bdWalk EXCEPT !.at = "read"]
         /\ After("read") = [bdWalk EXCEPT !.at = "register"]
         /\ After("register") = PassedOn
         /\ \A N : PassedOn = [PassedOn EXCEPT !.new = bdWalk.new \cup {}]
  BY DEF After, StepAfter, PassedOn, BdInv, BdShape, Walk

LEMMA LogsKept ==
  ASSUME BdInv, UNCHANGED <<bdKind, bdDay, bdLog, bdSameDay, bdMissing>>
  PROVE  BdLogs'
  BY DEF BdInv, BdLogs, Logged

LEMMA ReadKeeps ==
  ASSUME BdInv, ReadFails \/ (\E yes \in BOOLEAN : ReadAi(yes) \/ ReadCos(yes))
  PROVE  BdInv'
<1>0. PICK h : h = Head(bdWalk.links)
  OBVIOUS
<1>1. bdWalk.at = "read" /\ Inside /\ bdWalk.links # <<>>
  BY DEF ReadFails, ReadAi, ReadCos, Inside, BdInv, BdShape
<1>2. h \in 1 .. bdTop /\ h \in Int
  BY <1>0, <1>1, PostAtHand
<1>3. CASE ReadFails
  <2>1. /\ bdWalk' = PassedOn /\ bdExcused' = bdExcused \cup {h} /\ bdFailed' = bdFailed \cup {h}
        /\ UNCHANGED <<bdKind, bdTop, bdKnown, bdRead, bdMissing, bdDay, bdLog, bdSameDay>>
    BY <1>0, <1>3 DEF ReadFails, bdTime, bdStored
  <2>2. bdWalk' = [PassedOn EXCEPT !.new = bdWalk.new \cup {}]
    BY <1>1, <2>1, AfterIs
  <2>3. Settled(h)' /\ h \in bdFailed'
    BY <2>1 DEF Settled
  <2>4. /\ bdKnown \subseteq bdKnown' /\ bdKnown' \subseteq bdKnown \cup {} /\ bdKnown' \subseteq bdRead
        /\ bdFailed \subseteq bdFailed' /\ bdExcused \subseteq bdExcused' /\ {} \in SUBSET {h}
    BY <2>1 DEF BdInv, BdShape
  <2>5. WalkInv'
    BY <1>0, <1>1, <2>1, <2>2, <2>3, <2>4, ToTheNextPost
  <2>6. BdLogs'
    BY <2>1, LogsKept
  <2> QED
    BY <2>5, <2>6 DEF WalkInv, BdInv
<1>4. ASSUME NEW yes \in BOOLEAN, ReadAi(yes) \/ ReadCos(yes)
      PROVE  BdInv'
  <2>1. /\ bdWalk' = [bdWalk EXCEPT !.at = "register"] /\ bdRead' = bdRead \cup {h}
        /\ UNCHANGED <<bdKind, bdTop, bdKnown, bdFailed, bdExcused, bdDay, bdSameDay>>
    BY <1>0, <1>1, <1>4, AfterIs DEF ReadAi, ReadCos, bdTime
  <2>2. WalkInv'
    BY <1>0, <1>1, <2>1, WithThePost
  <2>3. BdLogs'
    <3>1. CASE UNCHANGED <<bdMissing, bdLog>>
      BY <2>1, <3>1, LogsKept
    <3>2. CASE NotFound(h)
      <4>1. bdMissing' = bdMissing \cup {h} /\ bdLog' = [bdLog EXCEPT ![bdDay] = bdLog[bdDay] \cup {h}]
        BY <3>2 DEF NotFound
      <4> QED
        BY <1>2, <2>1, <4>1 DEF BdInv, BdLogs, Logged
    <3>3. CASE ReadAi(yes)
      <4>1. bdKind = "ai" /\ UNCHANGED bdLog
        BY <3>3 DEF ReadAi
      <4> QED
        BY <2>1, <4>1 DEF BdInv, BdLogs
    <3>4. CASE ReadCos(yes)
      BY <1>0, <3>1, <3>2, <3>4 DEF ReadCos
    <3> QED
      BY <1>4, <3>3, <3>4
  <2> QED
    BY <2>2, <2>3 DEF WalkInv, BdInv
<1> QED
  BY <1>3, <1>4

LEMMA RegistersKeeps ==
  ASSUME BdInv, NEW yes \in BOOLEAN, Registers(yes)
  PROVE  BdInv'
<1>0. PICK h : h = Head(bdWalk.links)
  OBVIOUS
<1>1. bdWalk.at = "register" /\ Inside /\ bdWalk.links # <<>> /\ h \in bdRead
  BY <1>0 DEF Registers, Inside, BdInv, BdShape
<1>2. /\ bdKnown' = (IF yes THEN bdKnown \cup {h} ELSE bdKnown)
      /\ bdFailed' = (IF yes THEN bdFailed ELSE bdFailed \cup {h})
      /\ bdWalk' = [PassedOn EXCEPT !.new = bdWalk.new \cup {h}]
      /\ UNCHANGED <<bdKind, bdTop, bdRead, bdMissing, bdExcused, bdDay, bdLog, bdSameDay>>
  <2>1. bdWalk' = [PassedOn EXCEPT !.new = PassedOn.new \cup {h}]
    BY <1>0, <1>1, AfterIs DEF Registers
  <2>2. PassedOn.new = bdWalk.new
    BY DEF PassedOn, BdInv, BdShape, Walk
  <2> QED
    BY <1>0, <2>1, <2>2 DEF Registers, bdTime
<1>3. bdKnown \subseteq bdKnown' /\ bdKnown' \subseteq bdKnown \cup {h} /\ bdKnown' \subseteq bdRead
  BY <1>1, <1>2 DEF BdInv, BdShape
<1>4. Settled(h)' /\ (Taken(h)' \/ h \in bdFailed')
  <2>1. h \in bdRead'
    BY <1>1, <1>2
  <2>2. Taken(h)' \/ h \in bdFailed'
    BY <1>2 DEF Taken
  <2> QED
    BY <2>1, <2>2 DEF Settled
<1>5. WalkInv'
  BY <1>0, <1>1, <1>2, <1>3, <1>4, ToTheNextPost
<1>6. BdLogs'
  BY <1>2, LogsKept
<1> QED
  BY <1>5, <1>6 DEF WalkInv, BdInv

LEMMA CheckKeeps ==
  ASSUME BdInv, NEW answers \in BOOLEAN, Check(answers)
  PROVE  BdInv'
<1>0. PICK h : h = Head(bdWalk.links)
  OBVIOUS
<1>1. bdWalk.at = "post" /\ Inside /\ bdWalk.links # <<>>
  BY DEF Check, Inside
<1>2. UNCHANGED <<bdKind, bdTop, bdKnown, bdRead, bdMissing, bdDay, bdLog, bdSameDay>>
  BY DEF Check, bdTime, bdStored
<1>3. BdLogs' /\ bdKind \in {"ai", "cos"} /\ bdKnown \subseteq bdRead
  BY <1>2, LogsKept DEF BdInv, BdShape
<1>4. \A p : Taken(p)' <=> Taken(p)
  BY <1>2 DEF Taken
<1>5. CASE /\ bdWalk' = After("check") /\ UNCHANGED <<bdExcused, bdFailed>>
  <2>1. bdWalk' = [bdWalk EXCEPT !.at = "read"]
    BY <1>1, <1>5, AfterIs
  <2>2. WalkInv'
    BY <1>1, <1>2, <1>5, <2>1, WithThePost
  <2> QED
    BY <1>3, <2>2 DEF WalkInv, BdInv
<1>6. CASE /\ IF answers THEN Taken(h) /\ bdKind = "cos" ELSE bdKind = "ai"
           /\ bdWalk' = PassedOn
           /\ bdExcused' = IF answers THEN bdExcused ELSE bdExcused \cup {h}
           /\ bdFailed' = IF answers THEN bdFailed ELSE bdFailed \cup {h}
  <2>1. bdWalk' = [PassedOn EXCEPT !.new = bdWalk.new \cup {}]
    BY <1>1, <1>6, AfterIs
  <2>2. (bdKind = "ai" => Settled(h)') /\ (bdKind = "cos" => Taken(h)')
    BY <1>4, <1>6 DEF Settled
  <2>3. /\ bdKnown \subseteq bdKnown' /\ bdKnown' \subseteq bdKnown \cup {} /\ bdKnown' \subseteq bdRead
        /\ bdFailed \subseteq bdFailed' /\ bdExcused \subseteq bdExcused' /\ {} \in SUBSET {h}
    BY <1>2, <1>3, <1>6
  <2>4. WalkInv'
    BY <1>0, <1>1, <1>2, <2>1, <2>2, <2>3, ToTheNextPost
  <2> QED
    BY <1>3, <2>4 DEF WalkInv, BdInv
<1>7. CASE /\ Taken(h) /\ bdKind = "ai"
           /\ bdWalk' = [bdWalk EXCEPT !.at = "idle", !.links = <<>>, !.whole = TRUE]
           /\ bdExcused' = IF h \in bdKnown \ bdWalk.new THEN bdExcused ELSE bdExcused \cup 1 .. h
  <2>1. bdWalk' \in Walk /\ bdWalk'.at = "idle"
    <3>1. <<>> \in Seq(Int)
      OBVIOUS
    <3> QED
      BY <1>7, <3>1 DEF BdInv, BdShape, Walk
  <2>2. BdShape' /\ AiWalk' /\ CosWalk' /\ MissedIsTriedAgain'
    BY <1>2, <1>7, <2>1 DEF BdInv, BdShape, AiWalk, CosWalk, MissedIsTriedAgain, Inside
  <2>3. \A p : Settled(p) => Settled(p)'
    BY <1>2, <1>7, SettledStays
  <2>4. OldSettled /\ \E t \in 0 .. bdTop : \E b \in Nat : OnTheWay(bdWalk, t, b)
    BY <1>1, <1>7 DEF BdInv, AiWalk
  <2>5. PICK t \in 0 .. bdTop, b \in Nat : OnTheWay(bdWalk, t, b)
    BY <2>4
  <2>6. h = b + Len(bdWalk.links) /\ h \in 1 .. bdTop
    BY <1>0, <1>1, <2>5, PostAtHand
  <2>7. ASSUME NEW q \in bdKnown, NEW p \in 1 .. q
        PROVE  Settled(p)'
    <3>1. q \in Int /\ p \in Int /\ p > 0
      BY DEF BdInv, BdShape
    <3>2. CASE q \notin bdWalk.new
      BY <2>3, <2>4, <3>2 DEF OldSettled
    <3>3. CASE q \in bdWalk.new /\ p > h
      <4>1. \A r \in bdWalk.new : \A o \in 1 .. r : o > h => Settled(o)
        BY <1>1, <2>5, <2>6 DEF OnTheWay
      <4> QED
        BY <2>3, <3>3, <4>1
    <3>4. CASE p \in 1 .. h /\ h \in bdKnown \ bdWalk.new
      BY <2>3, <2>4, <3>4 DEF OldSettled
    <3>5. CASE p \in 1 .. h /\ h \notin bdKnown \ bdWalk.new
      BY <1>7, <3>5 DEF Settled
    <3>6. p > h \/ p \in 1 .. h
      BY <2>6, <3>1
    <3> QED
      BY <3>2, <3>3, <3>4, <3>5, <3>6
  <2>8. AiIdle'
    BY <1>2, <2>7 DEF AiIdle
  <2> QED
    BY <1>3, <2>2, <2>8 DEF BdInv
<1> QED
  BY <1>0, <1>5, <1>6, <1>7 DEF Check

(***************************************************************************)
(* Pages, and the end of a walk.                                           *)
(***************************************************************************)
LEMMA WalkDiesKeeps ==
  ASSUME BdInv, WalkDies
  PROVE  BdInv'
<1>1. /\ bdWalk.at # "idle" /\ bdWalk' = BdRest
      /\ bdExcused' = IF bdWalk.new \cap bdKnown = {} THEN bdExcused ELSE bdExcused \cup bdWalk.list
      /\ UNCHANGED <<bdKind, bdTop, bdKnown, bdRead, bdMissing, bdDay, bdLog, bdSameDay>>
  BY DEF WalkDies, bdTime, bdStored
<1>2. BdRest \in Walk /\ BdRest.at = "idle" /\ BdRest.whole = FALSE
  BY DEF BdRest, Walk
<1>3. BdShape' /\ AiWalk' /\ CosWalk' /\ MissedIsTriedAgain'
  BY <1>1, <1>2 DEF BdInv, BdShape, AiWalk, CosWalk, MissedIsTriedAgain, Inside
<1>4. ASSUME bdKind = "ai", NEW q \in bdKnown, NEW p \in 1 .. q
      PROVE  Settled(p)'
  <2>1. OldSettled /\ \E t \in 0 .. bdTop : \E b \in Nat : OnTheWay(bdWalk, t, b)
    BY <1>1, <1>4 DEF BdInv, AiWalk
  <2>2. PICK t \in 0 .. bdTop, b \in Nat : OnTheWay(bdWalk, t, b)
    BY <2>1
  <2>3. \A o : Settled(o) => Settled(o)'
    BY <1>1, SettledStays
  <2>4. CASE q \notin bdWalk.new
    BY <1>4, <2>1, <2>3, <2>4 DEF OldSettled
  <2>5. CASE q \in bdWalk.new
    <3>1. q \in 1 .. t /\ bdWalk.list = 1 .. t /\ t \in Int
      BY <2>2, <2>5 DEF OnTheWay
    <3>2. p \in bdWalk.list
      BY <3>1
    <3> QED
      BY <1>1, <2>5, <3>2 DEF Settled
  <2> QED
    BY <2>4, <2>5
<1>5. AiIdle'
  BY <1>1, <1>4 DEF AiIdle
<1>6. BdLogs'
  BY <1>1, LogsKept
<1> QED
  BY <1>3, <1>5, <1>6 DEF BdInv

LEMMA OpenListKeeps ==
  ASSUME BdInv, OpenList
  PROVE  BdInv'
<1> DEFINE s == [i \in 1 .. bdTop |-> bdTop + 1 - i]
<1>1. /\ bdWalk.at = "list" /\ bdKind = "cos"
      /\ bdWalk' = [bdWalk EXCEPT !.at = "post", !.list = 1 .. bdTop, !.links = s]
      /\ UNCHANGED <<bdKind, bdTop, bdKnown, bdRead, bdMissing, bdDay, bdLog, bdSameDay, bdExcused>>
  BY DEF OpenList, bdTime, bdStored
<1>2. bdTop \in Nat /\ bdWalk \in Walk
  BY DEF BdInv, BdShape
<1>3. s \in Seq(Int) /\ Len(s) = bdTop /\ \A i \in 1 .. bdTop : s[i] = bdTop + 1 - i
  BY <1>2
<1> HIDE DEF s
<1>4. /\ bdWalk' \in Walk /\ bdWalk'.at = "post" /\ bdWalk'.list = 1 .. bdTop /\ bdWalk'.links = s
      /\ bdWalk'.page = bdWalk.page
  <2> DEFINE list == 1 .. bdTop
  <2>1. list \in SUBSET Int
    BY <1>2
  <2> HIDE DEF list
  <2>2. [bdWalk EXCEPT !.at = "post", !.list = list, !.links = s] \in Walk
    BY <1>2, <1>3, <2>1 DEF Walk
  <2> QED
    BY <1>1, <1>2, <2>2 DEF Walk, list
<1>5. RunsDown(s, 0)
  BY <1>2, <1>3 DEF RunsDown
<1>6. CosWalk'
  BY <1>1, <1>2, <1>3, <1>4, <1>5 DEF CosWalk
<1>7. BdShape' /\ AiWalk' /\ AiIdle' /\ MissedIsTriedAgain'
  BY <1>1, <1>4 DEF BdInv, BdShape, AiWalk, AiIdle, MissedIsTriedAgain
<1>8. BdLogs'
  BY <1>1, LogsKept
<1> QED
  BY <1>6, <1>7, <1>8 DEF BdInv

\* A longer list has as much or more beyond its first pages, and the links of a page go
\* down from there.
LEMMA LinksGoDown ==
  ASSUME NEW t \in Nat, bdTop \in Nat, t <= bdTop, NEW k \in Nat, k > 0
  PROVE  /\ Beyond(t, k - 1) <= Beyond(bdTop, k - 1) /\ LinksOf(k) \in Seq(Int)
         /\ RunsDown(LinksOf(k), Beyond(bdTop, k))
         /\ Beyond(bdTop, k) + Len(LinksOf(k)) = Beyond(bdTop, k - 1)
         /\ Beyond(bdTop, k) \in Nat /\ Beyond(bdTop, k - 1) \in Nat /\ Beyond(bdTop, k - 1) <= bdTop
         /\ Beyond(t, k - 1) \in Nat
<1> DEFINE m == (k - 1) * BdPerPage
           n == k * BdPerPage
           hi == Beyond(bdTop, k - 1)
           lo == Beyond(bdTop, k)
<1>1. m \in Nat /\ n \in Nat /\ m <= n
  BY BdAssumption
<1>2. /\ Beyond(t, k - 1) = (IF t > m THEN t - m ELSE 0)
      /\ hi = (IF bdTop > m THEN bdTop - m ELSE 0) /\ lo = (IF bdTop > n THEN bdTop - n ELSE 0)
  BY DEF Beyond
<1>3. LinksOf(k) = [i \in 1 .. (hi - lo) |-> hi + 1 - i]
  BY DEF LinksOf
<1> HIDE DEF m, n, hi, lo
<1>4. /\ hi \in Nat /\ lo \in Nat /\ lo <= hi /\ hi <= bdTop /\ Beyond(t, k - 1) <= hi
      /\ Beyond(t, k - 1) \in Nat
  BY <1>1, <1>2
<1>5. LinksOf(k) \in Seq(Int) /\ Len(LinksOf(k)) = hi - lo
      /\ \A i \in 1 .. (hi - lo) : LinksOf(k)[i] = hi + 1 - i
  BY <1>3, <1>4
<1>6. RunsDown(LinksOf(k), lo)
  BY <1>4, <1>5 DEF RunsDown
<1>7. lo + Len(LinksOf(k)) = hi
  BY <1>4, <1>5
<1> QED
  BY <1>4, <1>5, <1>6, <1>7 DEF hi, lo

LEMMA OpenPageKeeps ==
  ASSUME BdInv, NEW passed \in BOOLEAN, OpenPage(passed)
  PROVE  BdInv'
<1> DEFINE k == bdWalk.page
           links == LinksOf(k)
           left == IF passed THEN links ELSE <<>>
           z == [bdWalk EXCEPT !.at = "post", !.list = 1 .. bdTop, !.links = left]
<1>1. /\ bdWalk.at = "list" /\ bdKind = "ai" /\ bdWalk' = z
      /\ bdExcused' = IF passed THEN bdExcused ELSE bdExcused \cup ToSet(links)
      /\ UNCHANGED <<bdKind, bdTop, bdKnown, bdRead, bdMissing, bdDay, bdLog, bdSameDay>>
  BY DEF OpenPage, bdTime, bdStored
<1>2. /\ OldSettled /\ bdWalk \in Walk /\ bdTop \in Nat /\ k \in Nat /\ k > 0
      /\ \E t \in 0 .. bdTop : \E b \in Nat : OnTheWay(bdWalk, t, b)
  BY <1>1 DEF BdInv, BdShape, AiWalk, Walk
<1>3. PICK t \in 0 .. bdTop, b \in Nat : OnTheWay(bdWalk, t, b)
  BY <1>2
<1>4. PICK hi, lo : hi = Beyond(bdTop, k - 1) /\ lo = Beyond(bdTop, k)
  OBVIOUS
<1>5. /\ b = Beyond(t, k - 1) /\ bdWalk.new \subseteq 1 .. t
      /\ \A q \in bdWalk.new : \A p \in 1 .. q : p > b + 0 => Settled(p)
  BY <1>1, <1>3 DEF OnTheWay
<1>6. /\ b <= hi /\ links \in Seq(Int) /\ RunsDown(links, lo) /\ lo + Len(links) = hi
      /\ lo \in Nat /\ hi \in Nat /\ hi <= bdTop
  BY SMTT(40), <1>2, <1>4, <1>5, LinksGoDown
<1> HIDE DEF links
<1>7. left \in Seq(Int) /\ RunsDown(left, lo) /\ lo + Len(left) <= bdTop
  <2>1. CASE passed
    BY <1>2, <1>6, <2>1
  <2>2. CASE ~passed
    <3>1. left = <<>> /\ left \in Seq(Int) /\ Len(left) = 0
      BY <2>2
    <3> HIDE DEF left
    <3>2. RunsDown(left, lo) /\ lo + Len(left) <= bdTop
      BY <1>2, <1>6, <3>1 DEF RunsDown
    <3> QED
      BY <3>1, <3>2
  <2> QED
    BY <2>1, <2>2
<1>8. /\ z \in Walk /\ z.at = "post" /\ z.list = 1 .. bdTop /\ z.links = left
      /\ z.page = k /\ z.new = bdWalk.new /\ z.whole = bdWalk.whole
  <2> DEFINE list == 1 .. bdTop
             y == [bdWalk EXCEPT !.at = "post", !.list = list, !.links = left]
  <2>1. list \in SUBSET Int /\ z = y
    BY <1>2
  <2> HIDE DEF list, left, z
  <2>2. /\ y \in Walk /\ y.at = "post" /\ y.list = list /\ y.links = left
        /\ y.page = k /\ y.new = bdWalk.new /\ y.whole = bdWalk.whole
    BY <1>2, <1>7, <2>1 DEF Walk
  <2> QED
    BY <2>1, <2>2 DEF list
<1>9. \A p : Settled(p) => Settled(p)'
  BY <1>1, SettledStays
<1>10. BdShape' /\ AiIdle' /\ CosWalk' /\ MissedIsTriedAgain'
  <2> HIDE DEF z
  <2> QED
    BY <1>1, <1>2, <1>8 DEF BdInv, BdShape, AiIdle, CosWalk, MissedIsTriedAgain
<1>11. ASSUME NEW q \in bdWalk.new, NEW p \in 1 .. q, p > lo + Len(left)
       PROVE  Settled(p)'
  <2>1. q \in Int /\ p \in Int
    BY <1>5
  <2>2. CASE p > b
    BY <1>5, <1>9, <2>1, <2>2
  <2>3. CASE p <= b
    <3>1. ~passed
      BY <1>6, <1>11, <2>1, <2>3
    <3>2. p > lo
      <4>1. Len(left) = 0
        BY <3>1
      <4> HIDE DEF left
      <4> QED
        BY <1>6, <1>11, <2>1, <4>1
    <3> DEFINE i == hi + 1 - p
    <3>3. i \in 1 .. Len(links) /\ links[i] = p
      <4>1. Len(links) \in Nat /\ i \in 1 .. Len(links)
        BY <1>6, <2>1, <2>3, <3>2
      <4>2. links[i] = lo + Len(links) + 1 - i
        BY <1>6, <4>1 DEF RunsDown
      <4> QED
        BY SMTT(40), <1>6, <2>1, <4>1, <4>2
    <3> HIDE DEF i
    <3>4. p \in ToSet(links)
      BY <1>6, <3>3 DEF ToSet
    <3> QED
      BY <1>1, <3>1, <3>4 DEF Settled
  <2> QED
    BY <2>1, <2>2, <2>3, <1>3
<1>12. OnTheWay(bdWalk, bdTop, lo)'
  <2>1. bdWalk.new \subseteq 1 .. bdTop
    BY <1>2, <1>3, <1>5
  <2> HIDE DEF left, z
  <2> QED
    BY <1>1, <1>4, <1>6, <1>7, <1>8, <1>11, <2>1 DEF OnTheWay
<1>13. OldSettled'
  <2> HIDE DEF left, z
  <2> QED
    BY <1>1, <1>2, <1>8, <1>9 DEF OldSettled
<1>14. AiWalk'
  BY <1>1, <1>2, <1>6, <1>12, <1>13 DEF AiWalk
<1>15. BdLogs'
  BY <1>1, LogsKept
<1> QED
  BY <1>10, <1>14, <1>15 DEF BdInv

LEMMA PageDoneKeeps ==
  ASSUME BdInv, PageDone
  PROVE  BdInv'
<1>1. /\ bdWalk.at = "post" /\ bdWalk.links = <<>> /\ Inside
      /\ UNCHANGED <<bdKind, bdTop, bdKnown, bdRead, bdMissing, bdFailed, bdDay, bdLog, bdSameDay>>
  BY DEF PageDone, bdTime, bdStored, Inside
<1>2. BdLogs' /\ bdWalk \in Walk /\ bdTop \in Nat /\ Len(bdWalk.links) = 0
  BY <1>1, LogsKept DEF BdInv, BdShape
<1>3. CASE /\ bdKind = "ai" /\ bdWalk' = [bdWalk EXCEPT !.at = "list", !.page = bdWalk.page + 1]
           /\ UNCHANGED bdExcused
  <2>1. /\ bdWalk' \in Walk /\ bdWalk'.at = "list" /\ bdWalk'.page = bdWalk.page + 1 /\ bdWalk.page \in Nat
        /\ bdWalk'.list = bdWalk.list /\ bdWalk'.new = bdWalk.new
    <3> DEFINE n == bdWalk.page + 1
    <3>1. n \in Nat /\ bdWalk.page \in Nat
      BY <1>2 DEF Walk
    <3> HIDE DEF n
    <3>2. bdWalk' = [bdWalk EXCEPT !.at = "list", !.page = n]
      BY <1>3 DEF n
    <3>3. /\ bdWalk' \in Walk /\ bdWalk'.at = "list" /\ bdWalk'.page = n
          /\ bdWalk'.list = bdWalk.list /\ bdWalk'.new = bdWalk.new
      BY <1>2, <3>1, <3>2 DEF Walk
    <3> QED
      BY <3>1, <3>3 DEF n
  <2>2. \A p : Settled(p)' <=> Settled(p)
    BY <1>1, <1>3 DEF Settled, Taken
  <2>3. BdShape' /\ AiIdle' /\ CosWalk' /\ MissedIsTriedAgain'
    BY <1>1, <1>3, <2>1 DEF BdInv, BdShape, AiIdle, CosWalk, MissedIsTriedAgain
  <2>4. OldSettled /\ \E t \in 0 .. bdTop : \E b \in Nat : OnTheWay(bdWalk, t, b)
    BY <1>1, <1>3 DEF BdInv, AiWalk
  <2>5. PICK t \in 0 .. bdTop, b \in Nat : OnTheWay(bdWalk, t, b)
    BY <2>4
  <2>6. /\ bdWalk.list = 1 .. t /\ bdWalk.new \subseteq 1 .. t /\ b = Beyond(t, bdWalk.page)
        /\ \A q \in bdWalk.new : \A p \in 1 .. q : p > b + 0 => Settled(p)
    BY <1>1, <1>2, <2>5 DEF OnTheWay
  <2>7. bdWalk'.page - 1 = bdWalk.page
    BY <2>1
  <2>8. OnTheWay(bdWalk, t, b)' /\ OldSettled'
    BY <1>1, <2>1, <2>2, <2>4, <2>6, <2>7 DEF OnTheWay, OldSettled
  <2>9. AiWalk'
    BY <1>1, <2>8 DEF AiWalk
  <2> QED
    BY <1>2, <2>3, <2>9 DEF BdInv
<1>4. CASE /\ ~(bdKind = "ai" /\ bdWalk.page < MAX_PAGES)
           /\ bdWalk' = [bdWalk EXCEPT !.at = "idle", !.whole = TRUE]
           /\ bdExcused' = bdExcused \cup 1 .. (bdTop - MAX_PAGES * BdPerPage)
  <2>1. bdWalk' \in Walk /\ bdWalk'.at = "idle" /\ bdWalk'.list = bdWalk.list
    BY <1>2, <1>4 DEF Walk
  <2>2. BdShape' /\ AiWalk' /\ CosWalk'
    BY <1>1, <2>1 DEF BdInv, BdShape, AiWalk, CosWalk, Inside
  <2>3. MissedIsTriedAgain'
    <3> SUFFICES ASSUME bdKind = "cos", NEW p \in bdWalk.list
                 PROVE  Taken(p)' \/ p \in bdFailed'
      BY <1>1, <2>1 DEF MissedIsTriedAgain
    <3>1. /\ bdWalk.list \subseteq 1 .. bdTop
          /\ Taken(p) \/ p \in bdFailed \/ p <= 0
      BY <1>1, <1>2 DEF BdInv, CosWalk
    <3>2. Taken(p) \/ p \in bdFailed
      BY <1>2, <3>1
    <3> QED
      BY <1>1, <3>2, TakenStays
  <2>4. AiIdle'
    <3> SUFFICES ASSUME bdKind = "ai", NEW q \in bdKnown, NEW p \in 1 .. q
                 PROVE  Settled(p)'
      BY <1>1 DEF AiIdle
    <3>1. OldSettled /\ \E t \in 0 .. bdTop : \E b \in Nat : OnTheWay(bdWalk, t, b)
      BY <1>1 DEF BdInv, AiWalk
    <3>2. PICK t \in 0 .. bdTop, b \in Nat : OnTheWay(bdWalk, t, b)
      BY <3>1
    <3>3. /\ bdWalk.new \subseteq 1 .. t /\ b = Beyond(t, bdWalk.page)
          /\ \A r \in bdWalk.new : \A o \in 1 .. r : o > b + 0 => Settled(o)
      BY <1>1, <1>2, <3>2 DEF OnTheWay
    <3>4. \A o : Settled(o) => Settled(o)'
      BY <1>1, <1>4, SettledStays
    <3>5. p \in Int /\ p > 0 /\ q \in Int
      BY DEF BdInv, BdShape
    <3>6. CASE q \notin bdWalk.new \/ p > b
      BY <3>1, <3>3, <3>4, <3>5, <3>6 DEF OldSettled
    <3>7. CASE p <= b
      <4> DEFINE m == MAX_PAGES * BdPerPage
                 n == bdWalk.page * BdPerPage
      <4>1. bdWalk.page \in Nat /\ MAX_PAGES \in Nat /\ bdWalk.page >= MAX_PAGES
        BY <1>2, <1>4, BdAssumption DEF Walk
      <4>2. m \in Nat /\ n \in Nat /\ n >= m
        BY <4>1, BdAssumption
      <4>3. b = IF t > n THEN t - n ELSE 0
        BY <3>3 DEF Beyond
      <4> HIDE DEF m, n
      <4>4. p \in 1 .. (bdTop - m)
        BY <1>2, <3>5, <3>7, <4>2, <4>3
      <4> QED
        BY <1>4, <4>4 DEF Settled, m
    <3> QED
      BY <3>5, <3>6, <3>7
  <2> QED
    BY <1>2, <2>2, <2>3, <2>4 DEF BdInv
<1> QED
  BY <1>3, <1>4 DEF PageDone

LEMMA BdKept == BdInv /\ [BdNext]_BdVars => BdInv'
<1> SUFFICES ASSUME BdInv, [BdNext]_BdVars
             PROVE  BdInv'
  OBVIOUS
<1>1. CASE UNCHANGED BdVars
  BY SMTT(40), <1>1 DEF BdVars, BdInv, BdShape, BdLogs, Logged, AiIdle, AiWalk, CosWalk, MissedIsTriedAgain,
              Inside, Settled, Taken, OldSettled, OnTheWay
<1>2. CASE BdNext
  BY <1>2, BesideTheWalk, StartKeeps, PageDoneKeeps, ReadKeeps, WalkDiesKeeps, OpenListKeeps,
     OpenPageKeeps, CheckKeeps, RegistersKeeps DEF BdNext
<1> QED
  BY <1>1, <1>2

(***************************************************************************)
(* The page of the recordings (AudioPage).  The requests in flight are     *)
(* lists and single jobs, so that what is asked of a list stays asked      *)
(* until it arrives or fails.                                              *)
(***************************************************************************)
ApSaid == {ApNone} \cup [all : [ApJob -> Stages]] \cup [stage : Stages, edition : Nat]
ApInv ==
  /\ apStage \in [ApJob -> Stages] /\ apEdition \in [ApJob -> Nat]
  /\ apCalls \subseteq [kind : {"list", "open"}, job : ApJob \cup {ApNone}, said : ApSaid]
  /\ \A c \in apCalls : c.kind = "open" => c.job \in ApJob
  /\ apOpened \in ApJob \cup {ApNone}
  /\ KeepsLooking

LEMMA ApStart == ApInit => ApInv
  BY DEF ApInit, ApInv, Stages, KeepsLooking, ListAsked

LEMMA ApKept == ASSUME ApInv, [ApNext]_ApVars PROVE ApInv'
<1> USE ApAssumption DEF ApInv, ApSaid, Stages, Unfinished, KeepsLooking, ListAsked
<1>1. CASE LoadJobs
  <2> DEFINE call == Ask("list", ApNone)
  <2>1. call.kind = "list" /\ call \in [kind : {"list", "open"}, job : ApJob \cup {ApNone}, said : ApSaid]
    BY DEF Ask
  <2>2. apCalls' = apCalls \cup {call} /\ UNCHANGED <<apServer, apView>>
    BY <1>1 DEF LoadJobs, apServer, apView
  <2> HIDE DEF call
  <2> QED
    BY <2>1, <2>2 DEF apServer, apView
<1>2. ASSUME NEW j \in ApJob, ApAnalysis(j) PROVE ApInv'
  BY <1>2 DEF ApAnalysis, apView
<1>3. ASSUME NEW j \in ApJob, Open(j) PROVE ApInv'
  BY <1>3 DEF Open, Ask, apServer
<1>4. ASSUME NEW j \in ApJob, RetryInList(j) \/ Compare(j) PROVE ApInv'
  <2>1. Ask("list", ApNone) \in apCalls' /\ Ask("list", ApNone).kind = "list"
    BY <1>4 DEF RetryInList, Compare, Again, Ask
  <2> QED
    BY <1>4, <2>1 DEF RetryInList, Compare, Again, Ask, apView
<1>5. ASSUME NEW c \in apCalls, Answer(c) PROVE ApInv'
  <2> DEFINE said == IF c.kind = "list" THEN [all |-> apStage]
                     ELSE [stage |-> apStage[c.job], edition |-> apEdition[c.job]]
             d == [c EXCEPT !.said = said]
  <2>1. said \in ApSaid
    OBVIOUS
  <2>2. d \in [kind : {"list", "open"}, job : ApJob \cup {ApNone}, said : ApSaid]
        /\ d.kind = c.kind /\ d.job = c.job
    BY <2>1
  <2>3. apCalls' = (apCalls \ {c}) \cup {d} /\ UNCHANGED <<apServer, apList, apTimer, apView>>
    BY <1>5 DEF Answer
  <2> HIDE DEF said, d
  <2> QED
    BY <2>2, <2>3 DEF apServer, apView
<1>6. ASSUME NEW c \in apCalls, ListArrives(c) PROVE ApInv'
  <2>1. c.kind = "list" /\ apList' = c.said.all
        /\ apTimer' = (apTimer \/ \E j \in ApJob : c.said.all[j] \in Unfinished)
        /\ UNCHANGED <<apServer, apView>>
    BY <1>6 DEF ListArrives
  <2>2. ApInv!1' /\ ApInv!2' /\ ApInv!4'
    BY <2>1, <1>6 DEF ListArrives, apServer, apView, JustEnded, Ask
  <2> QED
    BY <2>1, <2>2, <1>6 DEF ListArrives, apServer, apView, JustEnded, Ask
<1>7. ASSUME NEW c \in apCalls, ListFails(c) PROVE ApInv'
  BY <1>7 DEF ListFails, apServer, apView
<1>8. ASSUME NEW c \in apCalls, Opened(c) \/ OpenFails(c) PROVE ApInv'
  BY <1>8 DEF Opened, OpenFails, apServer, apView
<1>9. CASE UNCHANGED ApVars
  BY <1>9 DEF ApVars, apServer, apView
<1> QED
  BY <1>1, <1>2, <1>3, <1>4, <1>5, <1>6, <1>7, <1>8, <1>9 DEF ApNext

(***************************************************************************)
(* The video call.  A page that is asked has an answer in the making, what *)
(* is put aside or on its way names an offer, and a page is connected by   *)
(* an offer it agreed on: so whoever takes the last thing that was coming  *)
(* away leaves another in its place, or an offer agreed on.                *)
(***************************************************************************)
VcMsg == [kind : {"welcome"}, offer : {0}] \cup [kind : {"offer", "answer"}, offer : Nat \ {0}]
VcTimer == {"watchdog", "ice", "stable", "late"}
VcTypes ==
  /\ vcSig \in [VcPeer -> {"stable", "offered", "asked"}]
  /\ vcOffer \in [VcPeer -> Nat] /\ vcAgreed \in [VcPeer -> Nat] /\ vcLate \in [VcPeer -> Nat]
  /\ vcConn \in [VcPeer -> {"new", "connected", "lost"}]
  /\ vcIn \in [VcPeer -> Seq(VcMsg)]
  /\ vcDoing \in [VcPeer -> SUBSET {"offer", "restart", "answer"}]
  /\ vcTimers \in [VcPeer -> SUBSET VcTimer]
  /\ vcFrozen \in [VcPeer -> BOOLEAN]
  /\ vcStatus \in [VcPeer -> {"none", "waiting", "trying", "gone"}] /\ vcMade \in Nat
VcNamed(p) ==
  /\ vcSig[p] = "asked" => "answer" \in vcDoing[p] /\ vcOffer[p] # 0
  /\ "late" \in vcTimers[p] => vcLate[p] # 0
  /\ vcConn[p] = "connected" => vcAgreed[p] # 0
VcEnds(p) ==
  vcStatus[p] = "trying" =>
    \/ vcTimers[p] # {} \/ vcDoing[p] # {} \/ vcIn[p] # <<>> \/ vcAgreed[p] # 0
    \/ vcFrozen[p]
VcInv == VcTypes /\ \A p \in VcPeer : VcNamed(p) /\ VcEnds(p)

LEMMA VcStart == VcInit => VcInv
  BY DEF VcInit, VcInv, VcTypes, VcNamed, VcEnds

\* A message sent is one more at the other page; a message taken is a message.
LEMMA SentStays ==
  ASSUME VcTypes, NEW p \in VcPeer, NEW m \in VcMsg
  PROVE  /\ Send(p, m) \in [VcPeer -> Seq(VcMsg)]
         /\ \A q \in VcPeer : vcIn[q] # <<>> => Send(p, m)[q] # <<>>
<1> DEFINE o == Other(p)
<1>1. ASSUME NEW s \in Seq(VcMsg) PROVE Append(s, m) \in Seq(VcMsg) /\ Append(s, m) # <<>>
  <2>1. Append(s, m) \in Seq(VcMsg) /\ Len(Append(s, m)) = Len(s) + 1 /\ Len(s) \in Nat
    OBVIOUS
  <2> QED
    BY <2>1
<1>2. Send(p, m) = IF vcHere[o] THEN [vcIn EXCEPT ![o] = Append(vcIn[o], m)] ELSE vcIn
  BY DEF Send
<1>3. vcIn \in [VcPeer -> Seq(VcMsg)]
  BY DEF VcTypes
<1> HIDE DEF o
<1> QED
  BY <1>1, <1>2, <1>3

LEMMA TakenIsAMessage ==
  ASSUME VcTypes, NEW p \in VcPeer, NEW kind, Heading(p, kind)
  PROVE  /\ Head(vcIn[p]) \in VcMsg /\ Head(vcIn[p]).kind = kind
         /\ Take(p) \in [VcPeer -> Seq(VcMsg)]
         /\ \A q \in VcPeer : q # p => Take(p)[q] = vcIn[q]
<1>1. vcIn \in [VcPeer -> Seq(VcMsg)] /\ vcIn[p] \in Seq(VcMsg) /\ vcIn[p] # <<>>
  BY DEF VcTypes, Heading
<1>2. Head(vcIn[p]) \in VcMsg /\ Tail(vcIn[p]) \in Seq(VcMsg)
  BY <1>1
<1> QED
  BY <1>1, <1>2 DEF Take, Heading

\* tryRestartNegotiation leaves the page restarting, or saying something else.
LEMMA RestartEnds ==
  ASSUME VcTypes, NEW p \in VcPeer, NEW left \in SUBSET VcTimer, TryRestart(p, left)
  PROVE  /\ vcTimers' = [vcTimers EXCEPT ![p] = left]
         /\ vcDoing' \in [VcPeer -> SUBSET {"offer", "restart", "answer"}]
         /\ vcStatus' \in [VcPeer -> {"none", "waiting", "trying", "gone"}]
         /\ \A q \in VcPeer : vcDoing[q] \subseteq vcDoing'[q]
         /\ \A q \in VcPeer : q # p => vcDoing'[q] = vcDoing[q] /\ vcStatus'[q] = vcStatus[q]
         /\ vcStatus'[p] = "trying" => vcDoing'[p] # {}
<1>1. CASE "restart" \in vcDoing[p]
  BY <1>1 DEF TryRestart, VcTypes, For
<1>2. CASE "restart" \notin vcDoing[p] /\ vcRetries[p] >= MAX_NEGOTIATION_RETRY
  BY <1>2 DEF TryRestart, VcTypes, For
<1>3. CASE "restart" \notin vcDoing[p] /\ ~(vcRetries[p] >= MAX_NEGOTIATION_RETRY)
  <2>1. /\ vcTimers' = [vcTimers EXCEPT ![p] = left]
        /\ vcDoing' = [vcDoing EXCEPT ![p] = vcDoing[p] \cup {"restart"}]
        /\ \E word \in {"trying", "waiting"} : vcStatus' = [vcStatus EXCEPT ![p] = word]
    BY <1>3 DEF TryRestart, For
  <2> QED
    BY <2>1 DEF VcTypes
<1> QED
  BY <1>1, <1>2, <1>3

\* The steps that end in a restart.
LEMMA RestartKeeps ==
  ASSUME VcInv, NEW p \in VcPeer, NEW left \in SUBSET vcTimers[p], TryRestart(p, left),
         UNCHANGED <<vcSig, vcOffer, vcAgreed, vcIn, vcFrozen, vcMade>>,
         vcConn' = vcConn \/ vcConn' = [vcConn EXCEPT ![p] = "lost"],
         vcLate' = vcLate \/ ("late" \notin left /\ vcLate' = [vcLate EXCEPT ![p] = 0])
  PROVE  VcInv'
<1>1. left \in SUBSET VcTimer
  BY DEF VcInv, VcTypes
<1>2. /\ vcTimers' = [vcTimers EXCEPT ![p] = left]
      /\ vcDoing' \in [VcPeer -> SUBSET {"offer", "restart", "answer"}]
      /\ vcStatus' \in [VcPeer -> {"none", "waiting", "trying", "gone"}]
      /\ \A q \in VcPeer : vcDoing[q] \subseteq vcDoing'[q]
      /\ \A q \in VcPeer : q # p => vcDoing'[q] = vcDoing[q] /\ vcStatus'[q] = vcStatus[q]
      /\ vcStatus'[p] = "trying" => vcDoing'[p] # {}
  BY <1>1, RestartEnds DEF VcInv
<1>3. VcTypes'
  BY <1>1, <1>2 DEF VcInv, VcTypes
<1>4. ASSUME NEW q \in VcPeer PROVE VcNamed(q)' /\ VcEnds(q)'
  <2>1. CASE q # p
    <3>1. /\ vcTimers'[q] = vcTimers[q] /\ vcDoing'[q] = vcDoing[q] /\ vcStatus'[q] = vcStatus[q]
          /\ vcConn'[q] = vcConn[q] /\ vcLate'[q] = vcLate[q]
      BY <1>2, <2>1 DEF VcInv, VcTypes
    <3> QED
      BY <3>1 DEF VcInv, VcNamed, VcEnds
  <2>2. CASE q = p
    <3>1. /\ vcTimers'[p] = left /\ (vcConn'[p] = vcConn[p] \/ vcConn'[p] = "lost")
          /\ (vcLate'[p] = vcLate[p] \/ "late" \notin left)
      BY <1>2 DEF VcInv, VcTypes
    <3> QED
      BY <1>2, <2>2, <3>1 DEF VcInv, VcNamed, VcEnds
  <2> QED
    BY <2>1, <2>2
<1> QED
  BY <1>3, <1>4 DEF VcInv

LEMMA VcKept == ASSUME VcInv, [VcNext]_VcVars PROVE VcInv'
<1>1. CASE NetChange
  BY <1>1 DEF NetChange, VcInv, VcTypes, VcNamed, VcEnds, vcBook, vcWork, vcScreen
<1>2. ASSUME NEW p \in VcPeer, Join(p) \/ JoinAgain(p) PROVE VcInv'
  <2>1. Msg("welcome", 0) \in VcMsg
    BY DEF Msg, VcMsg
  <2>2. /\ vcIn' \in [VcPeer -> Seq(VcMsg)]
       /\ \A q \in VcPeer : vcIn[q] # <<>> => vcIn'[q] # <<>>
    BY <1>2, <2>1, SentStays DEF VcInv, Join, JoinAgain
  <2>3. VcTypes'
    BY <1>2, <2>1, <2>2 DEF VcInv, VcTypes, Join, JoinAgain, vcBook, vcWork, vcScreen
  <2>4. ASSUME NEW q \in VcPeer PROVE VcNamed(q)' /\ VcEnds(q)'
    <3>1. CASE q # p
      BY <1>2, <2>1, <2>2, <3>1 DEF VcInv, VcTypes, VcNamed, VcEnds, Join, JoinAgain, vcBook, vcWork, vcScreen
    <3>2. CASE q = p
      BY <1>2, <2>1, <2>2, <3>2 DEF VcInv, VcTypes, VcNamed, VcEnds, Join, JoinAgain, vcBook, vcWork, vcScreen
    <3> QED
      BY <3>1, <3>2
  <2> QED
    BY <2>3, <2>4 DEF VcInv
<1>3. ASSUME NEW p \in VcPeer, Leave(p) PROVE VcInv'
  <2>1. VcTypes'
    BY <1>3 DEF VcInv, VcTypes, Leave, For
  <2>2. ASSUME NEW q \in VcPeer PROVE VcNamed(q)' /\ VcEnds(q)'
    <3>1. CASE q # p
      BY <1>3, <3>1 DEF VcInv, VcTypes, VcNamed, VcEnds, Leave, For
    <3>2. CASE q = p
      BY <1>3, <3>2 DEF VcInv, VcTypes, VcNamed, VcEnds, Leave, For
    <3> QED
      BY <3>1, <3>2
  <2> QED
    BY <2>1, <2>2 DEF VcInv
<1>4. ASSUME NEW p \in VcPeer, Welcome(p) PROVE VcInv'
  <2>1. /\ Head(vcIn[p]) \in VcMsg /\ Head(vcIn[p]).kind = "welcome" /\ vcIn' \in [VcPeer -> Seq(VcMsg)]
       /\ \A q \in VcPeer : q # p => vcIn'[q] = vcIn[q]
    BY <1>4, TakenIsAMessage DEF VcInv, Welcome
  <2>2. CASE vcConn[p] = "lost"
    <3>1. /\ vcStatus' = [vcStatus EXCEPT ![p] = "trying"]
          /\ vcSig' = [vcSig EXCEPT ![p] = "stable"]
          /\ vcConn' = [vcConn EXCEPT ![p] = "new"]
          /\ vcAgreed' = [vcAgreed EXCEPT ![p] = 0]
          /\ vcDoing' = [vcDoing EXCEPT ![p] = vcDoing[p] \cup {"offer"}]
          /\ vcTimers' = [vcTimers EXCEPT ![p] = vcTimers[p] \ {"watchdog", "ice"}]
          /\ UNCHANGED <<vcOffer, vcLate, vcFrozen, vcMade>>
      BY <1>4, <2>2, <2>1 DEF Welcome, For
    <3>2. VcTypes'
      BY <2>1, <2>2, <3>1 DEF VcInv, VcTypes, VcTimer
    <3>3. ASSUME NEW q \in VcPeer, q # p PROVE VcNamed(q)' /\ VcEnds(q)'
      BY <2>1, <2>2, <3>1, <3>3 DEF VcInv, VcTypes, VcNamed, VcEnds
    <3>4. VcNamed(p)' /\ VcEnds(p)'
      BY <2>1, <2>2, <3>1 DEF VcInv, VcTypes, VcNamed, VcEnds
    <3> QED
      BY <3>2, <3>3, <3>4 DEF VcInv
  <2>3. CASE vcConn[p] # "lost" /\ vcSig[p] = "stable"
    <3>1. /\ vcStatus' = [vcStatus EXCEPT ![p] = "trying"]
          /\ vcSig' = [vcSig EXCEPT ![p] = vcSig[p]]
          /\ vcConn' = [vcConn EXCEPT ![p] = "new"]
          /\ vcAgreed' = vcAgreed
          /\ vcDoing' = [vcDoing EXCEPT ![p] = vcDoing[p] \cup {"offer"}]
          /\ vcTimers' = [vcTimers EXCEPT ![p] = vcTimers[p]]
          /\ UNCHANGED <<vcOffer, vcLate, vcFrozen, vcMade>>
      BY <1>4, <2>3, <2>1 DEF Welcome, For
    <3>2. VcTypes'
      BY <2>1, <2>3, <3>1 DEF VcInv, VcTypes, VcTimer
    <3>3. ASSUME NEW q \in VcPeer, q # p PROVE VcNamed(q)' /\ VcEnds(q)'
      BY <2>1, <2>3, <3>1, <3>3 DEF VcInv, VcTypes, VcNamed, VcEnds
    <3>4. VcNamed(p)' /\ VcEnds(p)'
      BY <2>1, <2>3, <3>1 DEF VcInv, VcTypes, VcNamed, VcEnds
    <3> QED
      BY <3>2, <3>3, <3>4 DEF VcInv
  <2>4. CASE vcConn[p] # "lost" /\ vcSig[p] # "stable"
    <3>1. /\ vcStatus' = [vcStatus EXCEPT ![p] = "trying"]
          /\ vcSig' = [vcSig EXCEPT ![p] = vcSig[p]]
          /\ vcConn' = [vcConn EXCEPT ![p] = "new"]
          /\ vcAgreed' = vcAgreed
          /\ vcDoing' = vcDoing
          /\ vcTimers' = [vcTimers EXCEPT ![p] = vcTimers[p] \cup {"stable"}]
          /\ UNCHANGED <<vcOffer, vcLate, vcFrozen, vcMade>>
      BY <1>4, <2>4, <2>1 DEF Welcome, For
    <3>2. VcTypes'
      BY <2>1, <2>4, <3>1 DEF VcInv, VcTypes, VcTimer
    <3>3. ASSUME NEW q \in VcPeer, q # p PROVE VcNamed(q)' /\ VcEnds(q)'
      BY <2>1, <2>4, <3>1, <3>3 DEF VcInv, VcTypes, VcNamed, VcEnds
    <3>4. VcNamed(p)' /\ VcEnds(p)'
      BY <2>1, <2>4, <3>1 DEF VcInv, VcTypes, VcNamed, VcEnds
    <3> QED
      BY <3>2, <3>3, <3>4 DEF VcInv
  <2> QED
    BY <2>2, <2>3, <2>4
<1>5. ASSUME NEW p \in VcPeer, NEW kind \in {"offer", "restart"}, OfferReady(p, kind) PROVE VcInv'
  <2>1. \A n \in Nat \ {0} : Msg("offer", n) \in VcMsg
    BY DEF Msg, VcMsg
  <2>2. vcMade' = vcMade + 1 \/ vcMade' = vcMade
    BY <1>5 DEF OfferReady
  <2>3. /\ vcIn' \in [VcPeer -> Seq(VcMsg)]
       /\ \A q \in VcPeer : vcIn[q] # <<>> => vcIn'[q] # <<>>
    BY <1>5, <2>1, <2>2, SentStays, SMTT(40) DEF VcInv, VcTypes, OfferReady
  <2>4. CASE vcSig[p] = "asked"
    <3>1. /\ vcDoing' = [vcDoing EXCEPT ![p] = vcDoing[p] \ {kind}]
          /\ UNCHANGED <<vcSig, vcOffer, vcTimers, vcMade>>
          /\ kind \in vcDoing[p] /\ UNCHANGED <<vcAgreed, vcConn, vcLate, vcStatus, vcFrozen>>
      BY <1>5, <2>4, <2>1, <2>2, <2>3 DEF OfferReady, For, vcScreen
    <3>2. VcTypes'
      BY <2>1, <2>2, <2>3, <2>4, <3>1 DEF VcInv, VcTypes, VcTimer
    <3>3. ASSUME NEW q \in VcPeer, q # p PROVE VcNamed(q)' /\ VcEnds(q)'
      BY <2>1, <2>2, <2>3, <2>4, <3>1, <3>3 DEF VcInv, VcTypes, VcNamed, VcEnds
    <3>4. VcNamed(p)' /\ VcEnds(p)'
      BY <2>1, <2>2, <2>3, <2>4, <3>1 DEF VcInv, VcTypes, VcNamed, VcEnds
    <3> QED
      BY <3>2, <3>3, <3>4 DEF VcInv
  <2>5. CASE vcSig[p] # "asked"
    <3>1. /\ vcDoing' = [vcDoing EXCEPT ![p] = vcDoing[p] \ {kind}]
          /\ vcMade' = vcMade + 1
          /\ vcSig' = [vcSig EXCEPT ![p] = "offered"]
          /\ vcOffer' = [vcOffer EXCEPT ![p] = vcMade']
          /\ vcTimers' = [vcTimers EXCEPT ![p] = vcTimers[p] \cup {"watchdog"}]
          /\ kind \in vcDoing[p] /\ UNCHANGED <<vcAgreed, vcConn, vcLate, vcStatus, vcFrozen>>
      BY <1>5, <2>5, <2>1, <2>2, <2>3 DEF OfferReady, For, vcScreen
    <3>2. VcTypes'
      BY <2>1, <2>2, <2>3, <2>5, <3>1 DEF VcInv, VcTypes, VcTimer
    <3>3. ASSUME NEW q \in VcPeer, q # p PROVE VcNamed(q)' /\ VcEnds(q)'
      BY <2>1, <2>2, <2>3, <2>5, <3>1, <3>3 DEF VcInv, VcTypes, VcNamed, VcEnds
    <3>4. VcNamed(p)' /\ VcEnds(p)'
      BY <2>1, <2>2, <2>3, <2>5, <3>1 DEF VcInv, VcTypes, VcNamed, VcEnds
    <3> QED
      BY <3>2, <3>3, <3>4 DEF VcInv
  <2> QED
    BY <2>4, <2>5
<1>6. ASSUME NEW p \in VcPeer, Offered(p) PROVE VcInv'
  <2>1. /\ Head(vcIn[p]) \in VcMsg /\ Head(vcIn[p]).kind = "offer" /\ vcIn' \in [VcPeer -> Seq(VcMsg)]
       /\ \A q \in VcPeer : q # p => vcIn'[q] = vcIn[q]
    BY <1>6, TakenIsAMessage DEF VcInv, Offered
  <2>2. Head(vcIn[p]).offer \in Nat \ {0}
    BY <2>1 DEF VcMsg
  <2>3. VcTypes'
    BY <1>6, <2>1, <2>2 DEF VcInv, VcTypes, Offered, For
  <2>4. ASSUME NEW q \in VcPeer PROVE VcNamed(q)' /\ VcEnds(q)'
    <3>1. CASE q # p
      BY <1>6, <2>1, <2>2, <3>1 DEF VcInv, VcTypes, VcNamed, VcEnds, Offered, For
    <3>2. CASE q = p
      BY <1>6, <2>1, <2>2, <3>2 DEF VcInv, VcTypes, VcNamed, VcEnds, Offered, For
    <3> QED
      BY <3>1, <3>2
  <2> QED
    BY <2>3, <2>4 DEF VcInv
<1>7. ASSUME NEW p \in VcPeer, AnswerReady(p) PROVE VcInv'
  <2>1. vcOffer[p] \in Nat \ {0}
    BY <1>7 DEF VcInv, VcTypes, VcNamed, AnswerReady
  <2>2. Msg("answer", vcOffer[p]) \in VcMsg
    BY <2>1 DEF Msg, VcMsg
  <2>3. /\ vcIn' \in [VcPeer -> Seq(VcMsg)]
       /\ \A q \in VcPeer : vcIn[q] # <<>> => vcIn'[q] # <<>>
    BY <1>7, <2>2, SentStays DEF VcInv, AnswerReady
  <2>4. VcTypes'
    BY <1>7, <2>1, <2>2, <2>3 DEF VcInv, VcTypes, AnswerReady, For, VcTimer, vcScreen
  <2>5. ASSUME NEW q \in VcPeer PROVE VcNamed(q)' /\ VcEnds(q)'
    <3>1. CASE q # p
      BY <1>7, <2>1, <2>2, <2>3, <3>1 DEF VcInv, VcTypes, VcNamed, VcEnds, AnswerReady, For, VcTimer, vcScreen
    <3>2. CASE q = p
      BY <1>7, <2>1, <2>2, <2>3, <3>2 DEF VcInv, VcTypes, VcNamed, VcEnds, AnswerReady, For, VcTimer, vcScreen
    <3> QED
      BY <3>1, <3>2
  <2> QED
    BY <2>4, <2>5 DEF VcInv
<1>8. ASSUME NEW p \in VcPeer, Answered(p) PROVE VcInv'
  <2>1. /\ Head(vcIn[p]) \in VcMsg /\ Head(vcIn[p]).kind = "answer" /\ vcIn' \in [VcPeer -> Seq(VcMsg)]
       /\ \A q \in VcPeer : q # p => vcIn'[q] = vcIn[q]
    BY <1>8, TakenIsAMessage DEF VcInv, Answered
  <2>2. Head(vcIn[p]).offer \in Nat \ {0}
    BY <2>1 DEF VcMsg
  <2>3. CASE vcSig[p] = "offered"
    <3>1. /\ vcSig' = [vcSig EXCEPT ![p] = "stable"]
          /\ vcAgreed' = [vcAgreed EXCEPT ![p] = Head(vcIn[p]).offer]
          /\ vcTimers' = [vcTimers EXCEPT ![p] = vcTimers[p] \ {"stable"}]
          /\ \E more \in SUBSET {"offer"} : vcDoing' = [vcDoing EXCEPT ![p] = vcDoing[p] \cup more]
          /\ UNCHANGED <<vcOffer, vcConn, vcLate, vcStatus, vcFrozen, vcMade>>
      BY <1>8, <2>3, <2>1, <2>2 DEF Answered, Applied, For, vcScreen
    <3>2. VcTypes'
      <4>1. vcDoing' \in [VcPeer -> SUBSET {"offer", "restart", "answer"}]
        <5>1. PICK more \in SUBSET {"offer"} : vcDoing' = [vcDoing EXCEPT ![p] = vcDoing[p] \cup more]
          BY <3>1
        <5> QED
          BY <5>1 DEF VcInv, VcTypes
      <4> QED
        BY <2>1, <2>2, <2>3, <3>1, <4>1 DEF VcInv, VcTypes, VcTimer
    <3>3. ASSUME NEW q \in VcPeer, q # p PROVE VcNamed(q)' /\ VcEnds(q)'
      BY <2>1, <2>2, <2>3, <3>1, <3>3 DEF VcInv, VcTypes, VcNamed, VcEnds
    <3>4. VcNamed(p)' /\ VcEnds(p)'
      BY <2>1, <2>2, <2>3, <3>1 DEF VcInv, VcTypes, VcNamed, VcEnds
    <3> QED
      BY <3>2, <3>3, <3>4 DEF VcInv
  <2>4. CASE vcSig[p] # "offered"
    <3>1. /\ vcTimers' = [vcTimers EXCEPT ![p] = vcTimers[p] \cup {"late"}]
          /\ vcLate' = [vcLate EXCEPT ![p] = Head(vcIn[p]).offer]
          /\ UNCHANGED <<vcSig, vcAgreed, vcDoing, vcOffer, vcConn, vcStatus, vcFrozen, vcMade>>
      BY <1>8, <2>4, <2>1, <2>2 DEF Answered, For, vcScreen
    <3>2. VcTypes'
      BY <2>1, <2>2, <2>4, <3>1 DEF VcInv, VcTypes, VcTimer
    <3>3. ASSUME NEW q \in VcPeer, q # p PROVE VcNamed(q)' /\ VcEnds(q)'
      BY <2>1, <2>2, <2>4, <3>1, <3>3 DEF VcInv, VcTypes, VcNamed, VcEnds
    <3>4. VcNamed(p)' /\ VcEnds(p)'
      BY <2>1, <2>2, <2>4, <3>1 DEF VcInv, VcTypes, VcNamed, VcEnds
    <3> QED
      BY <3>2, <3>3, <3>4 DEF VcInv
  <2> QED
    BY <2>3, <2>4
<1>9. ASSUME NEW p \in VcPeer, LateAnswer(p) PROVE VcInv'
  <2>1. VcTypes'
    BY <1>9 DEF VcInv, VcTypes, LateAnswer, Applied, For, vcScreen
  <2>2. ASSUME NEW q \in VcPeer PROVE VcNamed(q)' /\ VcEnds(q)'
    <3>1. CASE q # p
      BY <1>9, <3>1 DEF VcInv, VcTypes, VcNamed, VcEnds, LateAnswer, Applied, For, vcScreen
    <3>2. CASE q = p
      BY <1>9, <3>2 DEF VcInv, VcTypes, VcNamed, VcEnds, LateAnswer, Applied, For, vcScreen
    <3> QED
      BY <3>1, <3>2
  <2> QED
    BY <2>1, <2>2 DEF VcInv
<1>10. ASSUME NEW p \in VcPeer, Connected(p) PROVE VcInv'
  <2>1. VcTypes'
    BY <1>10 DEF VcInv, VcTypes, Connected, CanConnect, For
  <2>2. ASSUME NEW q \in VcPeer PROVE VcNamed(q)' /\ VcEnds(q)'
    <3>1. CASE q # p
      BY <1>10, <3>1 DEF VcInv, VcTypes, VcNamed, VcEnds, Connected, CanConnect, For
    <3>2. CASE q = p
      BY <1>10, <3>2 DEF VcInv, VcTypes, VcNamed, VcEnds, Connected, CanConnect, For
    <3> QED
      BY <3>1, <3>2
  <2> QED
    BY <2>1, <2>2 DEF VcInv
<1>11. ASSUME NEW p \in VcPeer, Lost(p) PROVE VcInv'
  <2>1. VcTypes'
    BY <1>11 DEF VcInv, VcTypes, Lost, For, VcTimer, vcScreen
  <2>2. ASSUME NEW q \in VcPeer PROVE VcNamed(q)' /\ VcEnds(q)'
    <3>1. CASE q # p
      BY <1>11, <3>1 DEF VcInv, VcTypes, VcNamed, VcEnds, Lost, For, VcTimer, vcScreen
    <3>2. CASE q = p
      BY <1>11, <3>2 DEF VcInv, VcTypes, VcNamed, VcEnds, Lost, For, VcTimer, vcScreen
    <3> QED
      BY <3>1, <3>2
  <2> QED
    BY <2>1, <2>2 DEF VcInv
<1>12. ASSUME NEW p \in VcPeer, Freeze(p) \/ Thaw(p) PROVE VcInv'
  <2>1. VcTypes'
    BY <1>12 DEF VcInv, VcTypes, Freeze, Thaw, For, vcBook, vcWork
  <2>2. ASSUME NEW q \in VcPeer PROVE VcNamed(q)' /\ VcEnds(q)'
    <3>1. CASE q # p
      BY <1>12, <3>1 DEF VcInv, VcTypes, VcNamed, VcEnds, Freeze, Thaw, For, vcBook, vcWork
    <3>2. CASE q = p
      BY <1>12, <3>2 DEF VcInv, VcTypes, VcNamed, VcEnds, Freeze, Thaw, For, vcBook, vcWork
    <3> QED
      BY <3>1, <3>2
  <2> QED
    BY <2>1, <2>2 DEF VcInv
<1>13. ASSUME NEW p \in VcPeer, Failed(p) PROVE VcInv'
  BY <1>13, RestartKeeps DEF Failed, For
<1>14. ASSUME NEW p \in VcPeer, Online(p) \/ IceTimer(p) PROVE VcInv'
  BY <1>14, RestartKeeps DEF Online, IceTimer, vcBook
<1>15. ASSUME NEW p \in VcPeer, Watchdog(p) PROVE VcInv'
  <2>1. CASE vcConn[p] = "connected" \/ CanConnect(p)
    <3>1. vcAgreed[p] # 0 /\ vcTimers' = For(p, vcTimers, vcTimers[p] \ {"watchdog"})
          /\ UNCHANGED <<vcBook, vcIn, vcDoing, vcLate, vcStatus, vcFrozen, vcMade>>
      BY <1>15, <2>1 DEF Watchdog, VcInv, VcNamed, CanConnect
    <3> QED
      BY <3>1 DEF VcInv, VcTypes, VcNamed, VcEnds, For, vcBook
  <2>2. CASE ~(vcConn[p] = "connected" \/ CanConnect(p))
    BY <1>15, <2>2, RestartKeeps DEF Watchdog, vcBook
  <2> QED
    BY <2>1, <2>2
<1>16. ASSUME NEW p \in VcPeer, NEW timer \in vcTimers[p], WaitOver(p, timer) PROVE VcInv'
  BY <1>16, RestartKeeps DEF WaitOver, For, vcBook
<1>17. ASSUME NEW p \in VcPeer, WelcomeConnected(p) PROVE VcInv'
  <2>1. vcAgreed[p] # 0 /\ vcIn' \in [VcPeer -> Seq(VcMsg)]
        /\ \A q \in VcPeer : q # p => vcIn'[q] = vcIn[q]
    BY <1>17, TakenIsAMessage DEF VcInv, VcNamed, WelcomeConnected
  <2>2. CASE vcFrozen[p]
    <3>1. TryRestart(p, vcTimers[p]) /\ UNCHANGED <<vcBook, vcLate, vcFrozen, vcMade>>
      BY <1>17, <2>2 DEF WelcomeConnected
    <3>2. vcTimers[p] \in SUBSET VcTimer
      BY DEF VcInv, VcTypes
    <3>3. /\ vcTimers' = [vcTimers EXCEPT ![p] = vcTimers[p]]
          /\ vcDoing' \in [VcPeer -> SUBSET {"offer", "restart", "answer"}]
          /\ vcStatus' \in [VcPeer -> {"none", "waiting", "trying", "gone"}]
          /\ \A q \in VcPeer : vcDoing[q] \subseteq vcDoing'[q]
          /\ \A q \in VcPeer : q # p => vcDoing'[q] = vcDoing[q] /\ vcStatus'[q] = vcStatus[q]
      BY <3>1, <3>2, RestartEnds DEF VcInv
    <3>4. vcTimers' = vcTimers
      BY <3>3 DEF VcInv, VcTypes
    <3> QED
      BY <2>1, <3>1, <3>3, <3>4 DEF VcInv, VcTypes, VcNamed, VcEnds, vcBook
  <2>3. CASE ~vcFrozen[p]
    <3>1. UNCHANGED <<vcBook, vcStatus, vcDoing, vcTimers, vcLate, vcFrozen, vcMade>>
      BY <1>17, <2>3 DEF WelcomeConnected
    <3> QED
      BY <2>1, <3>1 DEF VcInv, VcTypes, VcNamed, VcEnds, vcBook
  <2> QED
    BY <2>2, <2>3
<1>18. CASE UNCHANGED VcVars
  BY <1>18 DEF VcVars, VcInv, VcTypes, VcNamed, VcEnds, vcBook, vcWork, vcScreen
<1> QED
  BY <1>1, <1>2, <1>3, <1>4, <1>5, <1>6, <1>7, <1>8, <1>9, <1>10, <1>11, <1>12, <1>13, <1>14, <1>15, <1>16, <1>17, <1>18 DEF VcNext

(***************************************************************************)
(* The collector of an account's posts.  The posts that were ever tried    *)
(* are the oldest ones: a post that was not lies above all of them, and    *)
(* while a scan is worked off it is among the links, or above them all.    *)
(***************************************************************************)
ScTypes ==
  /\ scTop \in Nat /\ scTried \subseteq 1 .. scTop /\ scKnown \subseteq scTried
  /\ scErrors \subseteq scTried /\ scFile \subseteq scTried /\ scTodo \subseteq 1 .. scTop
  /\ scPhase \in {"idle", "account", "retry"}
  /\ scPhase = "retry" => scTodo \subseteq scTried
Above(p, ps) == \A q \in ps : q < p
ScOldest ==
  ~scStalled => \A p \in 1 .. scTop : p \notin scTried =>
    Above(p, scTried) /\ (scPhase = "account" => p \in scTodo \/ Above(p, scTodo))
ScInv == ScTypes /\ ScOldest

LEMMA AboveIsReached ==
  ASSUME ScTypes, NEW p \in 1 .. scTop, NEW known \in SUBSET scTried, Above(p, scTried)
  PROVE  Reached(p, known)
<1> SUFFICES ASSUME NEW q \in p + 1 .. scTop, q .. q + ALREADY_COLLECTED_COUNT \subseteq known
             PROVE  FALSE
  BY DEF Reached
<1>1. q \in q .. q + ALREADY_COLLECTED_COUNT
  BY ScAssumption
<1> QED
  BY <1>1 DEF Above, ScTypes

LEMMA ScSafe == ScInv => NeverPassedOver
  BY AboveIsReached DEF ScInv, ScOldest, ScTypes, NeverPassedOver

LEMMA ScStart == ScInit => ScInv
  BY DEF ScInit, ScInv, ScTypes, ScOldest, Above

LEMMA ScKept == ASSUME ScInv, [ScNext]_ScVars PROVE ScInv'
<1> USE DEF ScInv
<1>1. ASSUME Publish PROVE ScInv'
  <2>1. /\ scTop' = scTop + 1 /\ scTop \in Nat
        /\ UNCHANGED <<scKnown, scTried, scErrors, scFile, scTodo, scPhase, scStalled>>
    BY <1>1 DEF Publish, ScTypes
  <2>2. ScTypes'
    BY <2>1 DEF ScTypes
  <2>3. ASSUME ~scStalled, NEW p \in 1 .. scTop', p \notin scTried
        PROVE  Above(p, scTried) /\ (scPhase = "account" => p \in scTodo \/ Above(p, scTodo))
    <3>1. CASE p = scTop + 1
      BY <2>1, <3>1 DEF Above, ScTypes
    <3>2. CASE p \in 1 .. scTop
      BY <2>3, <3>2 DEF ScOldest
    <3> QED
      BY <2>1, <3>1, <3>2
  <2> QED
    BY <2>1, <2>2, <2>3 DEF ScOldest, Above
<1>2. ASSUME NEW silent \in SUBSET scKnown, NEW last \in 1 .. scTop, ScanProfile(silent, last)
      PROVE  ScInv'
  <2> DEFINE known == scKnown \ silent
  <2>1. /\ scTodo' = {p \in last .. scTop : p \notin known /\ Reached(p, known)}
        /\ scErrors' = scFile /\ (scStalled' <=> scStalled \/ last > 1)
        /\ scPhase' = "account" /\ UNCHANGED <<scTop, scKnown, scTried, scFile>>
    BY <1>2 DEF ScanProfile, scPosts
  <2> HIDE DEF known
  <2>2. ScTypes'
    <3>1. scTodo' \subseteq 1 .. scTop
      BY <2>1 DEF ScTypes
    <3>2. scErrors' \subseteq scTried /\ scPhase' # "retry"
      BY <2>1 DEF ScTypes
    <3> QED
      BY <2>1, <3>1, <3>2 DEF ScTypes
  <2>3. ASSUME ~scStalled, last = 1, NEW p \in 1 .. scTop, p \notin scTried
        PROVE  Above(p, scTried) /\ p \in scTodo'
    <3>1. Above(p, scTried) /\ known \in SUBSET scTried /\ p \notin known
      BY <2>3 DEF ScOldest, ScTypes, known
    <3> QED
      BY <2>1, <2>3, <3>1, AboveIsReached
  <2> QED
    BY <2>1, <2>2, <2>3 DEF ScOldest, Above
<1>3. ASSUME NEW p \in scTodo, NEW outcome \in Outcome, NEW registered \in BOOLEAN,
             HandleLink(p, outcome, registered)
      PROVE  ScInv'
  <2>1. /\ scTried' = scTried \cup {p} /\ scTodo' = scTodo \ {p}
        /\ scPhase = "account" => \A q \in scTodo : p <= q
        /\ scPhase \in {"account", "retry"}
        /\ UNCHANGED <<scTop, scPhase, scStalled>>
    BY <1>3 DEF HandleLink, Turn
  <2>2. /\ scErrors' \subseteq scErrors \cup {p} /\ scFile' \subseteq scFile \cup scErrors \cup {p}
        /\ scKnown' \subseteq scKnown \cup {p}
    BY <1>3 DEF HandleLink
  <2>3. ScTypes'
    BY <2>1, <2>2 DEF ScTypes
  <2>4. ASSUME ~scStalled, NEW r \in 1 .. scTop, r \notin scTried, r # p
        PROVE  Above(r, scTried \cup {p})
                 /\ (scPhase = "account" => r \in scTodo \ {p} \/ Above(r, scTodo \ {p}))
    <3>1. Above(r, scTried) /\ (scPhase = "account" => r \in scTodo \/ Above(r, scTodo))
      BY <2>4 DEF ScOldest
    <3>2. p < r
      <4>1. CASE scPhase = "account" /\ r \in scTodo
        BY <2>1, <2>4, <4>1 DEF ScTypes
      <4>2. CASE scPhase = "account" /\ Above(r, scTodo)
        BY <4>2 DEF Above
      <4>3. CASE scPhase = "retry"
        BY <3>1, <4>3 DEF Above, ScTypes
      <4> QED
        BY <2>1, <3>1, <4>1, <4>2, <4>3
    <3> QED
      BY <2>4, <3>1, <3>2 DEF Above
  <2> QED
    BY <2>1, <2>3, <2>4 DEF ScOldest, Above
<1>4. ASSUME HandleRaises \/ Retry \/ EndRun \/ Killed \/ UNCHANGED ScVars PROVE ScInv'
  <2>1. UNCHANGED <<scTop, scKnown, scTried, scStalled>>
    BY <1>4 DEF HandleRaises, Retry, EndRun, Killed, ScVars, scPosts
  <2>2. /\ scErrors' \in {scErrors, {}} /\ scFile' \in {scFile, scErrors, {}}
        /\ \/ scTodo' \in {scTodo, {}} /\ scPhase' \in {scPhase, "idle"}
           \/ scTodo' = scErrors /\ scPhase' = "retry"
    BY <1>4 DEF HandleRaises, Retry, EndRun, Killed, ScVars, scPosts
  <2>3. ScTypes'
    BY <2>1, <2>2 DEF ScTypes
  <2> QED
    BY <2>1, <2>2, <2>3 DEF ScOldest, Above
<1> QED
  BY <1>1, <1>2, <1>3, <1>4 DEF ScNext

(***************************************************************************)
(* The picture galleries.  The property is inductive with the types.       *)
(***************************************************************************)
GlShape == [pic : GlPicture, crop : Nat]
GlTypes ==
  /\ glFile \in [GlPlace -> GlShape \cup {GlNone}] /\ glBackup \in [GlPlace -> GlShape \cup {GlNone}]
  /\ glOutside \subseteq GlPicture /\ glMade \in Nat
GlInv == GlTypes /\ OriginalIsItsOwn

LEMMA GlStart == GlInit => GlInv
  BY DEF GlInit, GlInv, GlTypes, OriginalIsItsOwn

\* What a place has: the untouched picture of a file that was cropped.
Own(file, backup) ==
  file # GlNone =>
    /\ backup # GlNone => backup = [pic |-> file.pic, crop |-> 0]
    /\ file.crop # 0 => backup # GlNone

\* A file moves with its original.
LEMMA MoveKeeps ==
  ASSUME GlInv, NEW src \in GlPlace, NEW dst \in GlPlace, src # dst, glFile[src] # GlNone,
         glFile' = [glFile EXCEPT ![dst] = glFile[src], ![src] = GlNone], Carry(src, dst),
         UNCHANGED <<glOutside, glMade>>
  PROVE  GlInv'
<1>1. src # GlNone
  BY GlAssumption
<1>2. glBackup' \in [GlPlace -> GlShape \cup {GlNone}] /\ glBackup'[dst] = glBackup[src]
        /\ \A p \in GlPlace \ {src, dst} : glBackup'[p] = glBackup[p]
  BY <1>1 DEF Carry, Put, GlInv, GlTypes
<1>3. /\ glFile' \in [GlPlace -> GlShape \cup {GlNone}] /\ glFile'[dst] = glFile[src]
      /\ glFile'[src] = GlNone /\ \A p \in GlPlace \ {src, dst} : glFile'[p] = glFile[p]
  BY DEF GlInv, GlTypes
<1> QED
  BY <1>2, <1>3 DEF GlInv, GlTypes, OriginalIsItsOwn

\* One place changes.
LEMMA OneKeeps ==
  ASSUME GlInv, NEW p \in GlPlace, NEW file \in GlShape \cup {GlNone}, NEW backup \in GlShape \cup {GlNone},
         glFile' = Put(glFile, p, file), glBackup' = Put(glBackup, p, backup), Own(file, backup),
         glOutside' \subseteq GlPicture, glMade' \in Nat
  PROVE  GlInv'
  BY DEF Put, Own, GlInv, GlTypes, OriginalIsItsOwn

LEMMA GlKept == ASSUME GlInv, [GlNext]_GlVars PROVE GlInv'
<1> USE DEF GlInv, GlTypes
<1> DEFINE fresh(x, n) == [pic |-> x, crop |-> n]
<1>1. ASSUME NEW x \in GlPicture, Collect(x) PROVE GlInv'
  <2>1. /\ "move" \in GlPlace /\ fresh(x, 0) \in GlShape /\ Own(fresh(x, 0), GlNone)
    BY DEF GlPlace, CropDirs, GlShape, Own
  <2>2. /\ glFile' = Put(glFile, "move", fresh(x, 0)) /\ glBackup' = Put(glBackup, "move", GlNone)
        /\ glOutside' \subseteq GlPicture /\ glMade' \in Nat
    BY <1>1 DEF Collect, Carry
  <2> QED
    BY <2>1, <2>2, OneKeeps
<1>2. ASSUME NEW src \in GlPlace, MoveImageCore(src) PROVE GlInv'
  BY <1>2, MoveKeeps DEF MoveImageCore, CropDirs, GlPlace
<1>3. ASSUME NEW src \in GlPlace, NEW dst \in GlPlace, MoveSorted(src, dst) PROVE GlInv'
  <2>1. src # dst
    BY <1>3 DEF MoveSorted
  <2> QED
    BY <1>3, <2>1, MoveKeeps DEF MoveSorted
<1>4. ASSUME Purge PROVE GlInv'
  BY <1>4, OneKeeps DEF Purge, GlPlace, Own
<1>5. ASSUME NEW p \in GlPlace, AskDelete(p) PROVE GlInv'
  BY <1>5 DEF AskDelete, OriginalIsItsOwn
<1>6. ASSUME NEW p \in GlPlace, Delete(p) PROVE GlInv'
  BY <1>6 DEF Delete, Put, OriginalIsItsOwn
<1>7. ASSUME NEW p \in GlPlace, Crop(p) PROVE GlInv'
  <2> DEFINE backup == IF glBackup[p] = GlNone THEN glFile[p] ELSE glBackup[p]
  <2>1. /\ glFile[p] \in GlShape /\ glMade' = glMade + 1 /\ glMade' \in Nat
        /\ glBackup' = CropBackup(p) /\ UNCHANGED glOutside
    BY <1>7 DEF Crop
  <2> CropBackup(p) = Put(glBackup, p, backup)
    <3>1. CASE glBackup[p] = GlNone
      BY <3>1 DEF CropBackup
    <3>2. CASE glBackup[p] # GlNone
      <4>1. glBackup = [glBackup EXCEPT ![p] = glBackup[p]]
        OBVIOUS
      <4> QED
        BY <3>2, <4>1 DEF CropBackup, Put
    <3> QED
      BY <3>1, <3>2
  <2>2. backup \in GlShape /\ backup = fresh(glFile[p].pic, 0) /\ backup # GlNone
    <3>1. CASE glBackup[p] = GlNone
      BY <2>1, <3>1, <1>7 DEF OriginalIsItsOwn, Crop, GlShape
    <3>2. CASE glBackup[p] # GlNone
      BY <2>1, <3>2, <1>7 DEF OriginalIsItsOwn, Crop
    <3> QED
      BY <3>1, <3>2
  <2>3. CASE UNCHANGED glFile
    <3>1. glFile' = Put(glFile, p, glFile[p]) /\ Own(glFile[p], backup)
      BY <2>2, <2>3 DEF Put, Own
    <3> QED
      BY <2>1, <2>2, <3>1, OneKeeps
  <2>4. CASE glFile' = Put(glFile, p, fresh(glFile[p].pic, glMade'))
    <3>1. fresh(glFile[p].pic, glMade') \in GlShape /\ Own(fresh(glFile[p].pic, glMade'), backup)
      BY <2>1, <2>2 DEF Own, GlShape
    <3> QED
      BY <2>1, <2>2, <2>4, <3>1, OneKeeps
  <2> QED
    BY <1>7, <2>3, <2>4 DEF Crop
<1>8. ASSUME NEW p \in GlPlace, RestoreCrop(p) PROVE GlInv'
  <2>1. glBackup[p] \in GlShape /\ Own(glBackup[p], GlNone)
    BY <1>8 DEF RestoreCrop, OriginalIsItsOwn, Own
  <2> QED
    BY <1>8, <2>1, OneKeeps DEF RestoreCrop
<1>9. CASE UNCHANGED GlVars
  BY <1>9 DEF GlVars, OriginalIsItsOwn
<1> QED
  BY <1>1, <1>2, <1>3, <1>4, <1>5, <1>6, <1>7, <1>8, <1>9 DEF GlNext


(***************************************************************************)
(* The rows of the chat.  On the ordinary page every message that reached  *)
(* it and is not above the first row is a row, or is in the answer that    *)
(* leaving the search asked for, unless the newest page is on its way; in  *)
(* a search the rows are messages without a gap, and what came meanwhile   *)
(* is noted.  Requests for rows that were replaced are left aside: the     *)
(* property excuses them, until the rows are replaced with none under way. *)
(***************************************************************************)
\* a page has messages without a gap
Gapless(page) == \A i \in DOMAIN page : page[i] = page[1] + i - 1
FirstOf(page) == page[1]
EndOf(page)   == page[Len(page)]

LEMMA UptoIsGapless ==
  ASSUME NEW a \in Nat, NEW b \in Int
  PROVE  /\ Upto(a, b) \in Seq(Nat) /\ Gapless(Upto(a, b)) /\ IdsOf(Upto(a, b)) = a .. b
         /\ Len(Upto(a, b)) = Larger(0, b - a + 1)
         /\ a <= b => FirstOf(Upto(a, b)) = a /\ EndOf(Upto(a, b)) = b /\ Upto(a, b) # <<>>
         /\ b < a => Upto(a, b) = <<>>
<1> DEFINE n == Larger(0, b - a + 1)
<1>1. n \in Nat /\ (a <= b => n = b - a + 1) /\ (b < a => n = 0)
  BY DEF Larger
<1>2. Upto(a, b) = [i \in 1 .. n |-> a + i - 1]
  BY DEF Upto
<1> HIDE DEF n
<1>3. Upto(a, b) \in Seq(Nat) /\ Len(Upto(a, b)) = n /\ DOMAIN Upto(a, b) = 1 .. n
        /\ \A i \in 1 .. n : Upto(a, b)[i] = a + i - 1
  BY <1>1, <1>2
<1>4. Gapless(Upto(a, b))
  BY <1>1, <1>3 DEF Gapless
<1>5. IdsOf(Upto(a, b)) = a .. b
  <2>1. ASSUME NEW m \in a .. b PROVE m \in IdsOf(Upto(a, b))
    <3>1. m - a + 1 \in 1 .. n /\ Upto(a, b)[m - a + 1] = m
      BY <1>1, <1>3
    <3> QED
      BY <1>3, <3>1 DEF IdsOf
  <2>2. ASSUME NEW m \in IdsOf(Upto(a, b)) PROVE m \in a .. b
    BY <1>1, <1>3, <2>2 DEF IdsOf
  <2> QED
    BY <2>1, <2>2
<1>6. a <= b => FirstOf(Upto(a, b)) = a /\ EndOf(Upto(a, b)) = b /\ Upto(a, b) # <<>>
  BY <1>1, <1>3 DEF FirstOf, EndOf
<1>7. b < a => Upto(a, b) = <<>>
  BY <1>1, <1>3
<1> QED
  BY <1>3, <1>4, <1>5, <1>6, <1>7 DEF n

LEMMA IdsOfBoth ==
  ASSUME NEW s \in Seq(Nat), NEW t \in Seq(Nat)
  PROVE  s \o t \in Seq(Nat) /\ IdsOf(s \o t) = IdsOf(s) \cup IdsOf(t)
<1>1. /\ s \o t \in Seq(Nat) /\ Len(s \o t) = Len(s) + Len(t)
      /\ \A i \in 1 .. Len(s) + Len(t) : (s \o t)[i] = IF i <= Len(s) THEN s[i] ELSE t[i - Len(s)]
      /\ DOMAIN (s \o t) = 1 .. Len(s) + Len(t) /\ DOMAIN s = 1 .. Len(s) /\ DOMAIN t = 1 .. Len(t)
      /\ Len(s) \in Nat /\ Len(t) \in Nat
  OBVIOUS
<1>2. ASSUME NEW m \in IdsOf(s \o t) PROVE m \in IdsOf(s) \cup IdsOf(t)
  <2>1. PICK i \in 1 .. Len(s) + Len(t) : (s \o t)[i] = m
    BY <1>1, <1>2 DEF IdsOf
  <2>2. CASE i <= Len(s)
    BY <1>1, <2>1, <2>2 DEF IdsOf
  <2>3. CASE ~(i <= Len(s))
    <3>1. i - Len(s) \in 1 .. Len(t) /\ t[i - Len(s)] = m
      BY <1>1, <2>1, <2>3
    <3> QED
      BY <1>1, <3>1 DEF IdsOf
  <2> QED
    BY <2>2, <2>3
<1>3. ASSUME NEW m \in IdsOf(s) PROVE m \in IdsOf(s \o t)
  <2>1. PICK i \in 1 .. Len(s) : s[i] = m
    BY <1>1, <1>3 DEF IdsOf
  <2>2. i \in DOMAIN (s \o t) /\ (s \o t)[i] = m
    BY <1>1, <2>1
  <2> QED
    BY <2>2 DEF IdsOf
<1>4. ASSUME NEW m \in IdsOf(t) PROVE m \in IdsOf(s \o t)
  <2>1. PICK i \in 1 .. Len(t) : t[i] = m
    BY <1>1, <1>4 DEF IdsOf
  <2>2. Len(s) + i \in DOMAIN (s \o t) /\ (s \o t)[Len(s) + i] = m
    BY <1>1, <2>1
  <2> QED
    BY <2>2 DEF IdsOf
<1> QED
  BY <1>1, <1>2, <1>3, <1>4

\* what follows a page without a gap continues it
LEMMA GaplessBoth ==
  ASSUME NEW s \in Seq(Nat), NEW t \in Seq(Nat), Gapless(s), Gapless(t), s # <<>> \/ t # <<>>,
         s # <<>> /\ t # <<>> => FirstOf(t) = EndOf(s) + 1
  PROVE  /\ Gapless(s \o t) /\ s \o t # <<>> /\ Len(s \o t) = Len(s) + Len(t)
         /\ FirstOf(s \o t) = IF s = <<>> THEN FirstOf(t) ELSE FirstOf(s)
         /\ EndOf(s \o t) = IF t = <<>> THEN EndOf(s) ELSE EndOf(t)
<1>1. CASE s = <<>>
  <2>1. s \o t = t
    BY <1>1
  <2> QED
    BY <1>1, <2>1 DEF FirstOf, EndOf
<1>2. CASE t = <<>>
  <2>1. s \o t = s
    BY <1>2
  <2> QED
    BY <1>2, <2>1 DEF FirstOf, EndOf
<1>3. CASE s # <<>> /\ t # <<>>
  <2>1. /\ Len(s) \in Nat \ {0} /\ Len(t) \in Nat \ {0} /\ Len(s \o t) = Len(s) + Len(t)
        /\ DOMAIN s = 1 .. Len(s) /\ DOMAIN t = 1 .. Len(t) /\ DOMAIN (s \o t) = 1 .. Len(s) + Len(t)
        /\ \A i \in 1 .. Len(s) + Len(t) : (s \o t)[i] = IF i <= Len(s) THEN s[i] ELSE t[i - Len(s)]
        /\ s[1] \in Nat /\ t[1] \in Nat
    BY <1>3
  <2>2. \A i \in 1 .. Len(s) : s[i] = s[1] + i - 1
    BY <2>1 DEF Gapless
  <2>3. \A i \in 1 .. Len(t) : t[i] = t[1] + i - 1
    BY <2>1 DEF Gapless
  <2>4. t[1] = s[1] + Len(s)
    BY <1>3, <2>1, <2>2 DEF FirstOf, EndOf
  <2>5. (s \o t)[1] = s[1] /\ s \o t # <<>> /\ EndOf(s \o t) = EndOf(t)
    BY <2>1 DEF EndOf
  <2>6. ASSUME NEW i \in 1 .. Len(s) + Len(t) PROVE (s \o t)[i] = s[1] + i - 1
    <3>1. CASE i <= Len(s)
      BY <2>1, <2>2, <3>1
    <3>2. CASE ~(i <= Len(s))
      <4>1. i - Len(s) \in 1 .. Len(t) /\ (s \o t)[i] = t[i - Len(s)]
        BY <2>1, <3>2
      <4>2. t[i - Len(s)] = t[1] + (i - Len(s)) - 1
        BY <2>3, <4>1
      <4> QED
        BY <2>1, <2>4, <4>1, <4>2
    <3> QED
      BY <3>1, <3>2
  <2> QED
    BY <1>3, <2>1, <2>5, <2>6 DEF Gapless, FirstOf
<1> QED
  BY <1>1, <1>2, <1>3

\* What stands where in a part of a sequence.
LEMMA PartHas ==
  ASSUME NEW s \in Seq(Nat), NEW i \in 1 .. Len(s), NEW j \in i .. Len(s)
  PROVE  LET p == SubSeq(s, i, j) IN
         /\ p \in Seq(Nat) /\ Len(p) = j - i + 1 /\ DOMAIN p = 1 .. j - i + 1
         /\ DOMAIN s = 1 .. Len(s) /\ Len(s) \in Nat
         /\ \A k \in 1 .. j - i + 1 : p[k] = s[i + k - 1] /\ i + k - 1 \in 1 .. Len(s)
<1> DEFINE p == SubSeq(s, i, j)
<1>1. Len(s) \in Nat /\ DOMAIN s = 1 .. Len(s)
  OBVIOUS
<1>2. i \in Nat /\ j \in Nat /\ i >= 1 /\ i <= j /\ j <= Len(s) /\ \A k \in i .. j : s[k] \in Nat
  BY <1>1
<1>3. p \in Seq(Nat) /\ Len(p) = j - i + 1
  BY <1>1, <1>2
<1>4. \A k \in 1 .. j - i + 1 : p[k] = s[i + k - 1]
  BY <1>1, <1>2
<1>5. DOMAIN p = 1 .. j - i + 1
  BY <1>3
<1> HIDE DEF p
<1>6. \A k \in 1 .. j - i + 1 : i + k - 1 \in 1 .. Len(s)
  BY <1>1, <1>2
<1> QED
  BY <1>1, <1>3, <1>4, <1>5, <1>6 DEF p

LEMMA GaplessPart ==
  ASSUME NEW s \in Seq(Nat), Gapless(s), NEW i \in 1 .. Len(s), NEW j \in i .. Len(s)
  PROVE  LET p == SubSeq(s, i, j) IN
         /\ p \in Seq(Nat) /\ Gapless(p) /\ p # <<>> /\ Len(p) = j - i + 1
         /\ FirstOf(p) = s[i] /\ EndOf(p) = s[j] /\ IdsOf(p) \subseteq IdsOf(s)
<1> DEFINE p == SubSeq(s, i, j)
<1>1. /\ p \in Seq(Nat) /\ Len(p) = j - i + 1 /\ DOMAIN p = 1 .. j - i + 1 /\ DOMAIN s = 1 .. Len(s)
      /\ \A k \in 1 .. j - i + 1 : p[k] = s[i + k - 1] /\ i + k - 1 \in 1 .. Len(s)
      /\ Len(s) \in Nat
  BY PartHas
<1> HIDE DEF p
<1>2. /\ \A k \in 1 .. Len(s) : s[k] = s[1] + k - 1
      /\ s[1] \in Nat
  <2>1. \A k \in 1 .. Len(s) : s[k] = s[1] + k - 1
    BY <1>1 DEF Gapless
  <2>2. s[1] \in Nat
    BY <1>1
  <2> QED
    BY <2>1, <2>2
<1>3. p # <<>> /\ FirstOf(p) = s[i] /\ EndOf(p) = s[j]
  BY <1>1 DEF FirstOf, EndOf
<1>4. Gapless(p)
  <2> SUFFICES ASSUME NEW k \in 1 .. j - i + 1 PROVE p[k] = p[1] + k - 1
    BY <1>1 DEF Gapless
  <2>1. p[k] = s[i + k - 1] /\ p[1] = s[i] /\ i + k - 1 \in 1 .. Len(s)
    BY <1>1
  <2>2. i \in 1 .. Len(s) /\ s[i + k - 1] = s[1] + (i + k - 1) - 1 /\ s[i] = s[1] + i - 1
    BY <1>2, <2>1
  <2>3. i \in Int /\ k \in Int /\ s[1] \in Int
    BY <1>2
  <2> QED
    BY <2>1, <2>2, <2>3
<1>5. IdsOf(p) \subseteq IdsOf(s)
  BY <1>1 DEF IdsOf
<1> QED
  BY <1>1, <1>3, <1>4, <1>5 DEF p

\* a message between the ends of a page without a gap is on it
LEMMA GaplessHas ==
  ASSUME NEW s \in Seq(Nat), Gapless(s), s # <<>>
  PROVE  /\ IdsOf(s) = FirstOf(s) .. EndOf(s) /\ EndOf(s) = FirstOf(s) + Len(s) - 1
         /\ FirstOf(s) \in Nat /\ EndOf(s) \in Nat /\ FirstOf(s) <= EndOf(s)
<1>1. Len(s) \in Nat \ {0} /\ DOMAIN s = 1 .. Len(s) /\ s[1] \in Nat
  OBVIOUS
<1>2. \A k \in 1 .. Len(s) : s[k] = s[1] + k - 1
  BY <1>1 DEF Gapless
<1>3. EndOf(s) = FirstOf(s) + Len(s) - 1 /\ FirstOf(s) \in Nat /\ EndOf(s) \in Nat
        /\ FirstOf(s) <= EndOf(s)
  BY <1>1, <1>2 DEF FirstOf, EndOf
<1>4. ASSUME NEW m \in FirstOf(s) .. EndOf(s) PROVE m \in IdsOf(s)
  <2>1. m - FirstOf(s) + 1 \in 1 .. Len(s) /\ s[m - FirstOf(s) + 1] = m
    BY <1>1, <1>2, <1>3 DEF FirstOf
  <2> QED
    BY <1>1, <2>1 DEF IdsOf
<1>5. ASSUME NEW m \in IdsOf(s) PROVE m \in FirstOf(s) .. EndOf(s)
  BY <1>1, <1>2, <1>3, <1>5 DEF IdsOf, FirstOf
<1> QED
  BY <1>3, <1>4, <1>5

ChRequest == [kind : {"more", "visible", "around", "older", "newer", "rest"}, at : Nat, got : Seq(Nat)]
Messages  == 1 .. chNewest

ChTypes ==
  /\ chNewest \in Nat \ {0} /\ chWire \in Nat /\ chLast \in Nat /\ chOffset \in Nat
  /\ chRows \in Seq(Nat) /\ IdsOf(chRows) \subseteq Messages /\ chSeen \subseteq Messages
  /\ {chLoading, chOn, chOlder, chNewer, chBusy, chPending, chAstray} \subseteq BOOLEAN
  /\ chCalls \subseteq ChRequest
  /\ \A c \in chCalls :
       /\ c.got # NotYet => Gapless(c.got) /\ IdsOf(c.got) \subseteq Messages
       /\ c.kind = "around" => c.at \in Messages /\ c.got # <<>>

\* a row, or what the answer that leaving the search asked for brings
Brings(c, m) == c.kind = "rest" /\ m > c.at /\ (c.got = NotYet \/ m \in IdsOf(c.got))
Covered(m)   == m \in IdsOf(chRows) \/ \E c \in chCalls : Brings(c, m)

\* A page by its distance from the newest message, at the time of the answer.
PageIsNext(c) ==
  /\ c.at = chOffset
  /\ c.got # NotYet => \E n \in Messages :
       /\ \A m \in chSeen : m > n - c.at => Covered(m)
       /\ \A m \in 1 .. n - c.at : m > n - c.at - MAX_FETCH_MESSAGE_SIZE => m \in IdsOf(c.got)
       /\ c.got # <<>> => FirstOf(c.got) > n - c.at - MAX_FETCH_MESSAGE_SIZE
       /\ c.at = 0 => c.got # <<>>
NewestPage == \E c \in Under({"more"}) : c.at = 0

ChOrdinary ==
  ~chOn /\ ~chAstray =>
    /\ Under({"older", "newer"}) = {}
    /\ \A c, d \in Under({"more"}) : c = d
    /\ \A c \in Under({"more"}) : PageIsNext(c)
    /\ \A m \in chSeen : m > chNewest - chOffset => Covered(m)
    /\ chRows = <<>> => NewestPage
    /\ chRows # <<>> /\ ~NewestPage => \A m \in chSeen : m >= FirstOf(chRows) => Covered(m)

\* An extension of the rows goes on where they end, and when it is short, what came
\* after it is noted.
GoesOn(c) ==
  IF c.kind = "older"
  THEN c.at = FirstOf(chRows) /\ (c.got \notin {NotYet, <<>>} => EndOf(c.got) = c.at - 1)
  ELSE /\ c.at = EndOf(chRows)
       /\ c.got \notin {NotYet, <<>>} => FirstOf(c.got) = c.at + 1
       /\ c.got # NotYet /\ Len(c.got) < LOAD =>
            \A m \in chSeen : m > c.at + Len(c.got) => chPending

ChSearch ==
  chOn /\ ~chAstray =>
    /\ Under({"more", "rest"}) = {} /\ chRows # <<>> /\ Gapless(chRows)
    /\ \A c, d \in Under({"older", "newer"}) : c = d
    /\ Under({"older", "newer"}) # {} => chBusy
    /\ \A c \in Under({"older", "newer"}) : GoesOn(c)

ChInv == ChTypes /\ ChOrdinary /\ ChSearch

LEMMA ChSafe == ChInv => NothingLostBySearching
  BY DEF ChInv, ChTypes, ChOrdinary, Covered, NewestPage, Under, NothingLostBySearching, FirstOf, IdsOf, RowsSet

LEMMA ChStart == ChInit => ChInv
<1> SUFFICES ASSUME ChInit PROVE ChInv
  OBVIOUS
<1>1. /\ chCalls = {Call("more", 0)} /\ Call("more", 0) \in ChRequest /\ Call("more", 0).got = NotYet
      /\ Call("more", 0).kind = "more" /\ Call("more", 0).at = 0
  BY DEF ChInit, Call, ChRequest, NotYet
<1>2. ChTypes
  <2>1. ChStored \in Nat \ {0}
    BY ChAssumption
  <2>2. IdsOf(<<>>) = {} /\ <<>> \in Seq(Nat)
    BY DEF IdsOf
  <2>3. {chLoading, chOn, chOlder, chNewer, chBusy, chPending, chAstray} \subseteq BOOLEAN
    BY DEF ChInit
  <2>4. /\ chNewest \in Nat \ {0} /\ chWire \in Nat /\ chLast \in Nat /\ chOffset \in Nat
        /\ chRows \in Seq(Nat) /\ IdsOf(chRows) \subseteq Messages /\ chSeen \subseteq Messages
    BY <2>1, <2>2 DEF ChInit
  <2>5. \A c \in chCalls : c \in ChRequest /\ c.got = NotYet /\ c.kind # "around"
    BY <1>1
  <2> QED
    BY <2>3, <2>4, <2>5 DEF ChTypes
<1>3. ChOrdinary
  BY <1>1 DEF ChInit, ChOrdinary, Under, NewestPage, PageIsNext
<1> QED
  BY <1>2, <1>3 DEF ChInit, ChInv, ChSearch

\* A message is said, or lost on its way.
LEMMA SaidKeeps ==
  ASSUME ChInv, chNewest' \in {chNewest, chNewest + 1}, chWire' \in Nat,
         UNCHANGED <<chRows, chLast, chOffset, chLoading, chWindow, chCalls, chSeen, chAstray>>
  PROVE  ChInv'
<1>1. chNewest' \in Nat \ {0} /\ chNewest' >= chNewest /\ Messages \subseteq Messages'
  BY DEF ChInv, ChTypes, Messages
<1>2. ChTypes'
  BY <1>1 DEF ChInv, ChTypes, chWindow
<1>3. \A m : Covered(m)' <=> Covered(m)
  BY DEF Covered
<1>4. \A c \in Under({"more"}) : PageIsNext(c) => PageIsNext(c)'
  BY <1>1, <1>3 DEF PageIsNext
<1>5. ChOrdinary'
  <2>1. \A m \in chSeen : m > chNewest' - chOffset => m > chNewest - chOffset
    BY <1>1 DEF ChInv, ChTypes, Messages
  <2> QED
    BY <1>3, <1>4, <2>1 DEF ChInv, ChOrdinary, Under, NewestPage, chWindow
<1>6. ChSearch'
  BY DEF ChInv, ChSearch, Under, GoesOn, chWindow
<1> QED
  BY <1>2, <1>5, <1>6 DEF ChInv

\* Messages are put below the rows, or noted; the requests that brought them are gone.
LEMMA BelowKeeps ==
  ASSUME ChInv, NEW page \in Seq(Nat), IdsOf(page) \subseteq Messages, PutBelow(page),
         NEW gone \in SUBSET chCalls, chCalls' = chCalls \ gone,
         \A c \in gone : \/ c.kind = "visible"
                         \/ c.kind = "rest" /\ c.got # NotYet /\ IdsOf(c.got) \subseteq IdsOf(page),
         chBusy' = chBusy \/ (chBusy' = FALSE /\ \E c \in gone : c.kind = "rest"),
         chWire' \in Nat, UNCHANGED <<chNewest, chOffset, chLoading, chOn, chOlder, chNewer, chAstray>>
  PROVE  ChInv'
<1>1. chSeen' = chSeen \cup IdsOf(page)
  BY DEF PutBelow
<1>2. LastWith(page) \in Nat
  BY DEF LastWith, Larger, ChInv, ChTypes
<1>3. /\ chRows \o page \in Seq(Nat) /\ IdsOf(chRows \o page) = IdsOf(chRows) \cup IdsOf(page)
  BY IdsOfBoth DEF ChInv, ChTypes
<1>4. /\ chRows' \in Seq(Nat) /\ IdsOf(chRows') \subseteq Messages /\ chLast' \in Nat
      /\ chPending' \in BOOLEAN /\ chBusy' \in BOOLEAN
  BY <1>2, <1>3 DEF PutBelow, ChInv, ChTypes
<1>5. ChTypes'
  BY <1>1, <1>4 DEF ChInv, ChTypes, Messages
<1>6. ASSUME ~chOn, ~chAstray PROVE ChOrdinary'
  <2>1. chRows' = chRows \o page
    BY <1>6 DEF PutBelow
  <2>2. /\ \A m : Covered(m) => Covered(m)'
        /\ \A m \in IdsOf(page) : Covered(m)'
    BY <1>3, <2>1 DEF Covered, Brings
  <2>3. \A m \in chSeen' : m \in chSeen \/ Covered(m)'
    BY <1>1, <2>2
  <2>4. Under({"more"})' = Under({"more"}) /\ Under({"older", "newer"})' \subseteq Under({"older", "newer"})
    BY DEF Under
  <2>5. ASSUME NEW c \in Under({"more"}) PROVE PageIsNext(c)'
    BY <1>6, <2>2, <2>3, <2>5 DEF PageIsNext, ChInv, ChOrdinary, Messages
  <2>6. chRows # <<>> => chRows' # <<>> /\ FirstOf(chRows') = FirstOf(chRows)
    BY <2>1 DEF FirstOf, ChInv, ChTypes
  <2>7. NewestPage' <=> NewestPage
    BY <2>4 DEF NewestPage
  <2> QED
    BY <1>6, <2>2, <2>3, <2>4, <2>5, <2>6, <2>7 DEF ChInv, ChOrdinary
<1>7. ASSUME chOn, ~chAstray PROVE ChSearch'
  <2>1. chRows' = chRows /\ (chPending => chPending') /\ (page # <<>> => chPending')
    <3>1. CASE page = <<>>
      <4>1. chRows \o page = chRows
        BY <3>1 DEF ChInv, ChTypes
      <4> QED
        BY <1>7, <3>1, <4>1 DEF PutBelow
    <3>2. CASE page # <<>>
      BY <1>7, <3>2 DEF PutBelow
    <3> QED
      BY <3>1, <3>2
  <2>2. chBusy' = chBusy /\ Under({"more", "rest"})' = {}
        /\ Under({"older", "newer"})' = Under({"older", "newer"})
    BY <1>7 DEF Under, ChInv, ChSearch
  <2>3. page = <<>> => chSeen' = chSeen
    BY <1>1 DEF IdsOf
  <2>4. ASSUME NEW c \in Under({"older", "newer"}) PROVE GoesOn(c)'
    BY <1>7, <2>1, <2>3, <2>4 DEF GoesOn, ChInv, ChSearch
  <2> QED
    BY <1>7, <2>1, <2>2, <2>4 DEF ChInv, ChSearch
<1> QED
  BY <1>5, <1>6, <1>7 DEF ChInv, ChOrdinary, ChSearch

\* what the table holds of a range
LEMMA StoredIs ==
  ASSUME ChTypes, NEW from \in Int, NEW to \in Int
  PROVE  /\ Stored(from, to) \in Seq(Nat) /\ Gapless(Stored(from, to)) /\ Stored(from, to) # NotYet
         /\ IdsOf(Stored(from, to)) = {m \in Messages : from <= m /\ m <= to}
         /\ Stored(from, to) # <<>> =>
              /\ FirstOf(Stored(from, to)) = Larger(1, from)
              /\ EndOf(Stored(from, to)) = (IF to > chNewest THEN chNewest ELSE to)
<1> DEFINE a == Larger(1, from)
           b == IF to > chNewest THEN chNewest ELSE to
<1>1. a \in Nat /\ a >= 1 /\ a >= from /\ (a = 1 \/ a = from) /\ b \in Int /\ b <= to /\ b <= chNewest
        /\ (b = to \/ b = chNewest) /\ chNewest \in Nat \ {0}
  BY DEF Larger, ChTypes
<1>2. Stored(from, to) = Upto(a, b) /\ Larger(1, from) = a /\ (IF to > chNewest THEN chNewest ELSE to) = b
  BY DEF Stored
<1> HIDE DEF a, b
<1>3. /\ Upto(a, b) \in Seq(Nat) /\ Gapless(Upto(a, b)) /\ IdsOf(Upto(a, b)) = a .. b
      /\ a <= b => FirstOf(Upto(a, b)) = a /\ EndOf(Upto(a, b)) = b /\ Upto(a, b) # <<>>
      /\ b < a => Upto(a, b) = <<>>
  BY <1>1, UptoIsGapless
<1>4. Upto(a, b) # NotYet
  <2>1. CASE a <= b
    BY <1>1, <1>3, <2>1 DEF FirstOf, NotYet
  <2>2. CASE b < a
    BY <1>3, <2>2 DEF NotYet
  <2> QED
    BY <1>1, <2>1, <2>2
<1>5. a .. b = {m \in Messages : from <= m /\ m <= to}
  BY <1>1 DEF Messages
<1>6. Upto(a, b) # <<>> => a <= b
  BY <1>1, <1>3
<1> QED
  BY <1>2, <1>3, <1>4, <1>5, <1>6

LEMMA StoredFits ==
  ASSUME ChTypes
  PROVE  \A from, to \in Int :
           LET p == Stored(from, to) IN
           /\ p \in Seq(Nat) /\ Gapless(p) /\ p # NotYet /\ IdsOf(p) \subseteq Messages
           /\ \A m \in Messages : from <= m /\ m <= to => m \in IdsOf(p)
<1> TAKE from, to \in Int
<1> QED
  BY StoredIs

LEMMA AnswerIs ==
  ASSUME ChTypes, NEW c \in chCalls
  PROVE  /\ RowsOf(c) \in Seq(Nat) /\ Gapless(RowsOf(c)) /\ IdsOf(RowsOf(c)) \subseteq Messages
         /\ RowsOf(c) # NotYet /\ (c.kind = "around" => RowsOf(c) # <<>>)
<1>1. c \in ChRequest /\ c.at \in Nat /\ chNewest \in Nat \ {0}
  BY DEF ChTypes, ChRequest
<1>2. {MAX_FETCH_MESSAGE_SIZE, AROUND, LOAD} \subseteq Nat \ {0}
  BY ChAssumption
<1>3. CASE c.kind \in {"more", "visible"}
  <2>0. chNewest - c.at - MAX_FETCH_MESSAGE_SIZE + 1 \in Int /\ chNewest - c.at \in Int
    BY <1>1, <1>2
  <2>1. RowsOf(c) = Stored(chNewest - c.at - MAX_FETCH_MESSAGE_SIZE + 1, chNewest - c.at)
    BY <1>3 DEF RowsOf, Page
  <2> QED
    BY <1>1, <1>2, <1>3, <2>0, <2>1, StoredFits
<1>4. CASE c.kind = "around"
  <2>0. c.at - AROUND \in Int /\ c.at + AROUND \in Int
    BY <1>1, <1>2
  <2>1. RowsOf(c) = Stored(c.at - AROUND, c.at + AROUND)
    BY <1>4 DEF RowsOf, Context
  <2>2. c.at \in Messages /\ c.at - AROUND <= c.at /\ c.at <= c.at + AROUND
    BY <1>1, <1>2, <1>4 DEF ChTypes
  <2>3. c.at \in IdsOf(RowsOf(c))
    BY <1>1, <1>2, <2>0, <2>1, <2>2, StoredFits
  <2>4. RowsOf(c) # <<>>
    BY <2>3 DEF IdsOf
  <2> QED
    BY <1>1, <1>2, <2>0, <2>1, <2>4, StoredFits
<1>5. CASE c.kind = "older"
  <2>0. c.at - LOAD \in Int /\ c.at - 1 \in Int
    BY <1>1, <1>2
  <2>1. RowsOf(c) = Stored(c.at - LOAD, c.at - 1)
    BY <1>5 DEF RowsOf, OlderThan
  <2> QED
    BY <1>1, <1>2, <1>5, <2>0, <2>1, StoredFits
<1>6. CASE c.kind = "newer"
  <2>0. c.at + 1 \in Int /\ c.at + LOAD \in Int
    BY <1>1, <1>2
  <2>1. RowsOf(c) = Stored(c.at + 1, c.at + LOAD)
    BY <1>6 DEF RowsOf, NewerThan
  <2> QED
    BY <1>1, <1>2, <1>6, <2>0, <2>1, StoredFits
<1>7. CASE c.kind = "rest"
  <2>0. c.at + 1 \in Int /\ chNewest \in Int
    BY <1>1, <1>2
  <2>1. RowsOf(c) = Stored(c.at + 1, chNewest)
    BY <1>1, <1>7 DEF RowsOf, Stored, Larger
  <2> QED
    BY <1>1, <1>2, <1>7, <2>0, <2>1, StoredFits
<1> QED
  BY <1>1, <1>3, <1>4, <1>5, <1>6, <1>7 DEF ChRequest

LEMMA ServeKeeps == ASSUME ChInv, NEW c \in chCalls, Serve(c) PROVE ChInv'
<1> DEFINE d == [c EXCEPT !.got = RowsOf(c)]
<1>1. /\ d.kind = c.kind /\ d.at = c.at /\ d.got = RowsOf(c) /\ d \in ChRequest
      /\ c.at \in Nat /\ chNewest \in Nat \ {0}
  BY AnswerIs DEF ChInv, ChTypes, ChRequest
<1>2. /\ c.got = NotYet /\ chCalls' = (chCalls \ {c}) \cup {d}
      /\ UNCHANGED <<chNewest, chWire, chRows, chLast, chOffset, chLoading, chWindow, chSeen, chAstray>>
  BY DEF Serve
<1> HIDE DEF d
<1>3. ChTypes'
  BY <1>1, <1>2, AnswerIs DEF ChInv, ChTypes, Messages, chWindow
<1>4. /\ RowsOf(c) # NotYet /\ Gapless(RowsOf(c)) /\ RowsOf(c) \in Seq(Nat)
      /\ IdsOf(RowsOf(c)) \subseteq Messages
  BY AnswerIs DEF ChInv
<1>5. c.kind = "rest" => IdsOf(RowsOf(c)) = {m \in Messages : c.at + 1 <= m /\ m <= chNewest}
  <2>1. c.kind = "rest" => RowsOf(c) = Stored(c.at + 1, chNewest)
    BY <1>1 DEF RowsOf, Stored, Larger
  <2>2. c.at + 1 \in Int /\ chNewest \in Int
    BY <1>1
  <2> QED
    BY <2>1, <2>2, StoredIs DEF ChInv
<1>6. ASSUME NEW m \in chSeen, Covered(m) PROVE Covered(m)'
  <2>1. m \in Messages
    BY DEF ChInv, ChTypes
  <2>2. CASE m \in IdsOf(chRows)
    BY <1>2, <2>2 DEF Covered
  <2>3. ASSUME NEW e \in chCalls, Brings(e, m) PROVE Covered(m)'
    <3>1. CASE e # c
      BY <1>2, <2>3, <3>1 DEF Covered, Brings
    <3>2. CASE e = c
      <4>1. m \in IdsOf(RowsOf(c))
        BY <1>1, <1>5, <2>1, <2>3, <3>2 DEF Brings, Messages
      <4>2. Brings(d, m)
        BY <1>1, <2>3, <3>2, <4>1 DEF Brings
      <4> QED
        BY <1>2, <4>2 DEF Covered, Brings
    <3> QED
      BY <3>1, <3>2
  <2> QED
    BY <1>6, <2>2, <2>3 DEF Covered
<1>7. \A kinds : Under(kinds)' = IF c.kind \in kinds THEN (Under(kinds) \ {c}) \cup {d} ELSE Under(kinds)
  BY <1>1, <1>2 DEF Under
<1>8. ASSUME ~chOn, ~chAstray PROVE ChOrdinary'
  <2>1. ASSUME NEW e \in Under({"more"})' PROVE PageIsNext(e)'
    <3>1. CASE e \in Under({"more"})
      BY <1>2, <1>6, <1>8, <3>1 DEF PageIsNext, ChInv, ChOrdinary, Messages
    <3>2. CASE e = d /\ c \in Under({"more"})
      <4>1. RowsOf(c) = Stored(chNewest - c.at - MAX_FETCH_MESSAGE_SIZE + 1, chNewest - c.at)
        BY <3>2 DEF RowsOf, Page, Under
      <4>2. MAX_FETCH_MESSAGE_SIZE \in Nat \ {0}
        BY ChAssumption
      <4> DEFINE from == chNewest - c.at - MAX_FETCH_MESSAGE_SIZE + 1
                 to == chNewest - c.at
      <4>3. from \in Int /\ to \in Int
        BY <1>1, <4>2
      <4>4. /\ IdsOf(RowsOf(c)) = {m \in Messages : from <= m /\ m <= to}
            /\ RowsOf(c) # <<>> => FirstOf(RowsOf(c)) = Larger(1, from)
        BY <4>1, <4>3, StoredIs DEF ChInv
      <4>5. \A m \in 1 .. chNewest - c.at : m > chNewest - c.at - MAX_FETCH_MESSAGE_SIZE => m \in IdsOf(RowsOf(c))
        BY <1>1, <4>2, <4>4 DEF Messages
      <4>6. RowsOf(c) # <<>> => FirstOf(RowsOf(c)) > chNewest - c.at - MAX_FETCH_MESSAGE_SIZE
        BY <1>1, <4>2, <4>4 DEF Larger
      <4>7. c.at = 0 => RowsOf(c) # <<>>
        <5>1. c.at = 0 => chNewest \in IdsOf(RowsOf(c))
          BY <1>1, <4>2, <4>4 DEF Messages
        <5> QED
          BY <5>1 DEF IdsOf
      <4>8. c.at = chOffset /\ \A m \in chSeen : m > chNewest - c.at => Covered(m)'
        BY <1>6, <1>8, <3>2 DEF ChInv, ChOrdinary, PageIsNext
      <4>9. chNewest \in Messages
        BY <1>1 DEF Messages
      <4> HIDE DEF from, to
      <4> QED
        BY <1>1, <1>2, <3>2, <4>5, <4>6, <4>7, <4>8, <4>9 DEF PageIsNext, Messages
    <3>3. Under({"more"})' = IF c.kind \in {"more"} THEN (Under({"more"}) \ {c}) \cup {d}
                             ELSE Under({"more"})
      BY ONLY <1>7
    <3>4. c.kind \in {"more"} => c \in Under({"more"})
      BY DEF Under
    <3>5. e \in Under({"more"}) \/ (e = d /\ c \in Under({"more"}))
      BY ONLY <2>1, <3>3, <3>4
    <3> QED
      BY <3>1, <3>2, <3>5
  <2>2. NewestPage' <=> NewestPage
    BY <1>1, <1>7 DEF NewestPage, Under
  <2>3. Under({"older", "newer"})' = {} /\ \A e, f \in Under({"more"})' : e = f
    BY <1>7, <1>8 DEF ChInv, ChOrdinary, Under
  <2> QED
    BY <1>2, <1>6, <1>8, <2>1, <2>2, <2>3 DEF ChInv, ChOrdinary
<1>9. ASSUME chOn, ~chAstray PROVE ChSearch'
  <2>1. ASSUME NEW e \in Under({"older", "newer"})' PROVE GoesOn(e)'
    <3>1. CASE e \in Under({"older", "newer"})
      BY <1>2, <1>9, <3>1 DEF GoesOn, ChInv, ChSearch, chWindow
    <3>2. CASE e = d /\ c \in Under({"older"})
      <4>1. RowsOf(c) = Stored(c.at - LOAD, c.at - 1)
        BY <3>2 DEF RowsOf, OlderThan, Under
      <4>2. GoesOn(c) /\ c.kind = "older" /\ LOAD \in Nat \ {0}
        BY <1>9, <3>2, ChAssumption DEF Under, ChInv, ChSearch
      <4>3. c.at = FirstOf(chRows) /\ chRows # <<>> /\ c.at \in Messages
        BY <1>9, <4>2 DEF GoesOn, ChInv, ChSearch, ChTypes, FirstOf, IdsOf
      <4>4. RowsOf(c) # <<>> => EndOf(RowsOf(c)) = c.at - 1
        <5>1. c.at - LOAD \in Int /\ c.at - 1 \in Int /\ ~(c.at - 1 > chNewest)
          BY <1>1, <4>2, <4>3 DEF Messages
        <5> QED
          BY <4>1, <5>1, StoredIs DEF ChInv
      <4> QED
        BY <1>1, <1>2, <3>2, <4>2, <4>3, <4>4 DEF GoesOn
    <3>3. CASE e = d /\ c \in Under({"newer"})
      <4>1. RowsOf(c) = Stored(c.at + 1, c.at + LOAD)
        BY <3>3 DEF RowsOf, NewerThan, Under
      <4>2. GoesOn(c) /\ c.kind = "newer" /\ LOAD \in Nat \ {0}
        BY <1>9, <3>3, ChAssumption DEF Under, ChInv, ChSearch
      <4>0. c.at + 1 \in Int /\ c.at + LOAD \in Int /\ Larger(1, c.at + 1) = c.at + 1
        BY <1>1, <4>2 DEF Larger
      <4>3. RowsOf(c) # <<>> => FirstOf(RowsOf(c)) = c.at + 1
        BY <4>0, <4>1, StoredIs DEF ChInv
      <4>4. IdsOf(RowsOf(c)) = {m \in Messages : c.at + 1 <= m /\ m <= c.at + LOAD}
        BY <4>0, <4>1, StoredIs DEF ChInv
      <4>5. ASSUME Len(RowsOf(c)) < LOAD, NEW m \in chSeen, m > c.at + Len(RowsOf(c)) PROVE FALSE
        <5>1. m \in Messages /\ m \in Nat
          BY DEF ChInv, ChTypes, Messages
        <5>2. CASE RowsOf(c) = <<>>
          <6>1. c.at + 1 \in Messages
            BY <1>1, <4>5, <5>1, <5>2 DEF Messages
          <6>2. c.at + 1 \in IdsOf(RowsOf(c))
            BY <1>1, <4>2, <4>4, <6>1
          <6> QED
            BY <5>2, <6>2 DEF IdsOf
        <5>3. CASE RowsOf(c) # <<>>
          <6>1. EndOf(RowsOf(c)) = c.at + Len(RowsOf(c)) /\ IdsOf(RowsOf(c)) = FirstOf(RowsOf(c)) .. EndOf(RowsOf(c))
            BY <1>1, <1>4, <4>3, <5>3, GaplessHas
          <6>2. Len(RowsOf(c)) \in Nat
            BY <1>4
          <6>3. c.at + Len(RowsOf(c)) + 1 \in Messages
            BY <1>1, <4>5, <5>1, <6>2 DEF Messages
          <6>4. c.at + Len(RowsOf(c)) + 1 \in IdsOf(RowsOf(c))
            BY <1>1, <4>2, <4>4, <4>5, <6>2, <6>3
          <6> QED
            BY <1>1, <6>1, <6>2, <6>4
        <5> QED
          BY <5>2, <5>3
      <4> QED
        BY <1>1, <1>2, <3>3, <4>2, <4>3, <4>5 DEF GoesOn
    <3> QED
      BY <1>1, <1>2, <3>1, <3>2, <3>3 DEF Under
  <2>2. Under({"more", "rest"})' = {} /\ \A e, f \in Under({"older", "newer"})' : e = f
    BY <1>1, <1>7, <1>9 DEF ChInv, ChSearch, Under
  <2>3. Under({"older", "newer"})' # {} => chBusy
    BY <1>1, <1>7, <1>9 DEF ChInv, ChSearch, Under
  <2> QED
    BY <1>2, <1>9, <2>1, <2>2, <2>3 DEF ChInv, ChSearch, chWindow
<1> QED
  BY <1>2, <1>3, <1>8, <1>9 DEF ChInv, ChOrdinary, ChSearch, chWindow

LEMMA CallIs ==
  ASSUME NEW kind \in {"more", "visible", "around", "older", "newer", "rest"}, NEW at \in Nat
  PROVE  /\ Call(kind, at) \in ChRequest /\ Call(kind, at).kind = kind /\ Call(kind, at).at = at
         /\ Call(kind, at).got = NotYet
  BY DEF Call, ChRequest, NotYet

\* A request that brings no rows for the place where the rows end.
LEMMA AsideKeeps ==
  ASSUME ChInv, NEW kind \in {"visible", "around"}, NEW at \in Nat, kind = "around" => at \in Messages,
         chCalls' = chCalls \cup {Call(kind, at)}, chLoading' \in BOOLEAN,
         UNCHANGED <<chNewest, chWire, chRows, chLast, chOffset, chWindow, chSeen, chAstray>>
  PROVE  ChInv'
<1>1. /\ Call(kind, at) \in ChRequest /\ Call(kind, at).kind = kind /\ Call(kind, at).at = at
      /\ Call(kind, at).got = NotYet
  BY CallIs
<1>2. ChTypes'
  <2>1. Call(kind, at).kind = "around" => Call(kind, at).at \in Messages /\ Call(kind, at).got # <<>>
    BY <1>1 DEF NotYet
  <2> QED
    BY <1>1, <2>1 DEF ChInv, ChTypes, Messages, chWindow
<1>3. Under({"more"})' = Under({"more"}) /\ Under({"older", "newer"})' = Under({"older", "newer"})
        /\ Under({"more", "rest"})' = Under({"more", "rest"})
  BY <1>1 DEF Under
<1>4. \A m : Covered(m)' <=> Covered(m)
  BY <1>1 DEF Covered, Brings
<1>5. \A c : PageIsNext(c)' <=> PageIsNext(c)
  BY <1>4 DEF PageIsNext, Messages
<1>6. NewestPage' <=> NewestPage
  BY <1>3 DEF NewestPage
<1>7. ChOrdinary'
  BY <1>3, <1>4, <1>5, <1>6 DEF ChInv, ChOrdinary, chWindow
<1>8. \A c : GoesOn(c)' <=> GoesOn(c)
  BY DEF GoesOn, chWindow
<1>9. ChSearch'
  BY <1>3, <1>8 DEF ChInv, ChSearch, chWindow
<1> QED
  BY <1>2, <1>7, <1>9 DEF ChInv

LEMMA ScrollUpKeeps == ASSUME ChInv, ScrollUp PROVE ChInv'
<1>0. PICK d : d = Call("more", chOffset)
  OBVIOUS
<1>1. d \in ChRequest /\ d.kind = "more" /\ d.at = chOffset /\ d.got = NotYet
  BY <1>0, CallIs DEF ChInv, ChTypes
<1>2. /\ chCalls' = chCalls \cup {d} /\ chLoading' = TRUE /\ ~chOn /\ chRows # <<>>
      /\ Under({"more"}) = {}
      /\ UNCHANGED <<chNewest, chWire, chRows, chLast, chOffset, chWindow, chSeen, chAstray>>
  BY <1>0 DEF ScrollUp
<1>3. ChTypes'
  BY <1>1, <1>2 DEF ChInv, ChTypes, Messages, chWindow
<1>4. Under({"more"})' = {d} /\ Under({"older", "newer"})' = Under({"older", "newer"})
  BY <1>1, <1>2 DEF Under
<1>5. \A m : Covered(m)' <=> Covered(m)
  BY <1>1, <1>2 DEF Covered, Brings
<1>6. PageIsNext(d)'
  BY <1>1, <1>2 DEF PageIsNext
<1>7. ~NewestPage
  BY <1>2 DEF NewestPage
<1>8. ChOrdinary'
  BY <1>2, <1>4, <1>5, <1>6, <1>7 DEF ChInv, ChOrdinary, chWindow
<1> QED
  BY <1>2, <1>3, <1>8 DEF ChInv, ChSearch, chWindow

LEMMA MoreKeeps == ASSUME ChInv, NEW c \in chCalls, MoreArrives(c) PROVE ChInv'
<1>1. /\ c.kind = "more" /\ c.got # NotYet /\ chCalls' = chCalls \ {c} /\ chLoading' = FALSE
      /\ chRows' = c.got \o chRows /\ chLast' = LastWith(c.got) /\ chSeen' = chSeen \cup IdsOf(c.got)
      /\ chOffset' = IF c.got = <<>> THEN chOffset ELSE chOffset + MAX_FETCH_MESSAGE_SIZE
      /\ UNCHANGED <<chNewest, chWire, chOn, chOlder, chNewer, chBusy, chPending, chAstray>>
  BY DEF MoreArrives, PutOnTop, chWindow
<1>2. /\ c.got \in Seq(Nat) /\ Gapless(c.got) /\ IdsOf(c.got) \subseteq Messages /\ c.at \in Nat
      /\ chRows \in Seq(Nat) /\ chSeen \subseteq Messages /\ MAX_FETCH_MESSAGE_SIZE \in Nat \ {0}
      /\ chNewest \in Nat \ {0} /\ chOffset \in Nat /\ IdsOf(chRows) \subseteq Messages
  BY <1>1, ChAssumption DEF ChInv, ChTypes, ChRequest
<1>3. chRows' \in Seq(Nat) /\ IdsOf(chRows') = IdsOf(c.got) \cup IdsOf(chRows)
  BY <1>1, <1>2, IdsOfBoth
<1>4. ChTypes'
  <2>1. chLast' \in Nat
    BY <1>1, <1>2 DEF LastWith, Larger, ChInv, ChTypes
  <2>2. chOffset' \in Nat
    BY <1>1, <1>2
  <2> QED
    BY <1>1, <1>2, <1>3, <2>1, <2>2 DEF ChInv, ChTypes, Messages
<1>5. ASSUME ~chOn, ~chAstray PROVE ChOrdinary'
  <2>1. Under({"more"})' = {} /\ Under({"older", "newer"})' = {} /\ c \in Under({"more"})
    BY <1>1, <1>5 DEF Under, ChInv, ChOrdinary
  <2>2. /\ \A m : Covered(m) => Covered(m)'
        /\ \A m \in IdsOf(c.got) : Covered(m)'
    BY <1>1, <1>3 DEF Covered, Brings
  <2>3. c.at = chOffset /\ PageIsNext(c)
    BY <1>5, <2>1 DEF ChInv, ChOrdinary, PageIsNext
  <2>4. PICK n \in Messages :
          /\ \A m \in chSeen : m > n - c.at => Covered(m)
          /\ \A m \in 1 .. n - c.at : m > n - c.at - MAX_FETCH_MESSAGE_SIZE => m \in IdsOf(c.got)
          /\ c.got # <<>> => FirstOf(c.got) > n - c.at - MAX_FETCH_MESSAGE_SIZE
          /\ c.at = 0 => c.got # <<>>
    BY <1>1, <2>3 DEF PageIsNext
  <2>5. ASSUME NEW m \in chSeen', m > n - c.at - MAX_FETCH_MESSAGE_SIZE PROVE Covered(m)'
    <3>1. m \in Messages /\ m \in Nat /\ m >= 1 /\ n \in Nat
      BY <1>1, <1>2 DEF Messages
    <3>2. CASE m \in IdsOf(c.got)
      BY <2>2, <3>2
    <3>3. CASE m \in chSeen /\ m > n - c.at
      BY <2>2, <2>4, <3>3
    <3>4. CASE m \in chSeen /\ ~(m > n - c.at)
      BY <1>2, <2>2, <2>4, <2>5, <3>1, <3>4
    <3> QED
      BY <1>1, <3>2, <3>3, <3>4
  <2>6. CASE c.got = <<>>
    <3>1. chRows' = chRows /\ chOffset' = chOffset /\ chSeen' = chSeen
      BY <1>1, <1>2, <2>6 DEF IdsOf
    <3>2. ~NewestPage /\ ~NewestPage'
      BY <1>5, <2>1, <2>4, <2>6 DEF NewestPage, ChInv, ChOrdinary
    <3> QED
      BY <1>1, <1>5, <2>1, <2>2, <3>1, <3>2 DEF ChInv, ChOrdinary
  <2>7. CASE c.got # <<>>
    <3>1. chRows' # <<>> /\ FirstOf(chRows') = FirstOf(c.got) /\ FirstOf(c.got) \in Nat
      BY <1>1, <1>2, <2>7 DEF FirstOf
    <3>2. \A m \in chSeen' : m >= FirstOf(chRows') => Covered(m)'
      BY <1>1, <1>2, <2>4, <2>5, <2>7, <3>1 DEF Messages
    <3>3. \A m \in chSeen' : m > chNewest' - chOffset' => Covered(m)'
      BY <1>1, <1>2, <2>3, <2>5, <2>7 DEF Messages
    <3> QED
      BY <1>1, <1>5, <2>1, <3>1, <3>2, <3>3 DEF ChOrdinary
  <2> QED
    BY <2>6, <2>7
<1>6. chOn => chAstray
  BY <1>1 DEF ChInv, ChSearch, Under
<1> QED
  BY <1>1, <1>4, <1>5, <1>6 DEF ChInv, ChOrdinary, ChSearch

LEMMA FailsKeeps == ASSUME ChInv, NEW c \in chCalls, Fails(c) PROVE ChInv'
<1>1. /\ chCalls' = chCalls \ {c}
      /\ chLoading' <=> (chLoading /\ c.kind \notin {"more", "around"})
      /\ chBusy' <=> (chBusy /\ c.kind \notin {"older", "newer", "rest"})
      /\ chAstray' <=> (chAstray \/ c.kind = "rest" \/ (c.kind = "more" /\ c.at = 0))
      /\ UNCHANGED <<chNewest, chWire, chRows, chLast, chOffset, chOn, chOlder, chNewer, chPending, chSeen>>
  BY DEF Fails
<1>2. chLoading' \in BOOLEAN /\ chBusy' \in BOOLEAN /\ chAstray' \in BOOLEAN
  BY DEF Fails
<1>3. ChTypes'
  BY <1>1, <1>2 DEF ChInv, ChTypes, Messages
<1>4. ASSUME ~chOn, ~chAstray' PROVE ChOrdinary'
  <2>1. ~chAstray /\ c.kind # "rest" /\ ~(c.kind = "more" /\ c.at = 0)
    BY <1>1, <1>4
  <2>2. \A m : Covered(m)' <=> Covered(m)
    BY <1>1, <2>1 DEF Covered, Brings
  <2>3. \A d : PageIsNext(d)' <=> PageIsNext(d)
    BY <1>1, <2>2 DEF PageIsNext, Messages
  <2>4. /\ Under({"more"})' \subseteq Under({"more"}) /\ Under({"older", "newer"})' \subseteq Under({"older", "newer"})
        /\ (NewestPage' <=> NewestPage)
    BY <1>1, <2>1 DEF Under, NewestPage
  <2> QED
    BY <1>1, <1>4, <2>1, <2>2, <2>3, <2>4 DEF ChInv, ChOrdinary
<1>5. ASSUME chOn, ~chAstray' PROVE ChSearch'
  <2>1. ~chAstray /\ c.kind # "rest"
    BY <1>1, <1>5
  <2>2. \A d : GoesOn(d)' <=> GoesOn(d)
    BY <1>1 DEF GoesOn
  <2>3. /\ Under({"more", "rest"})' \subseteq Under({"more", "rest"})
        /\ Under({"older", "newer"})' = Under({"older", "newer"}) \ {c}
    BY <1>1 DEF Under
  <2>4. c.kind \in {"older", "newer"} => Under({"older", "newer"})' = {}
    <3>1. \A d, e \in Under({"older", "newer"}) : d = e
      BY <1>5, <2>1 DEF ChInv, ChSearch
    <3> QED
      BY <2>3, <3>1 DEF Under
  <2>5. Under({"older", "newer"})' # {} => chBusy'
    BY <1>1, <1>5, <2>1, <2>3, <2>4 DEF ChInv, ChSearch
  <2> QED
    BY <1>1, <1>5, <2>1, <2>2, <2>3, <2>5 DEF ChInv, ChSearch
<1> QED
  BY <1>1, <1>3, <1>4, <1>5 DEF ChInv, ChOrdinary, ChSearch

LEMMA PartIs ==
  ASSUME NEW s \in Seq(Nat), NEW i \in 1 .. Len(s), NEW j \in i .. Len(s)
  PROVE  SubSeq(s, i, j) \in Seq(Nat) /\ IdsOf(SubSeq(s, i, j)) \subseteq IdsOf(s)
           /\ Len(SubSeq(s, i, j)) = j - i + 1
<1> DEFINE p == SubSeq(s, i, j)
<1>1. /\ p \in Seq(Nat) /\ Len(p) = j - i + 1 /\ DOMAIN p = 1 .. j - i + 1 /\ DOMAIN s = 1 .. Len(s)
      /\ \A k \in 1 .. j - i + 1 : p[k] = s[i + k - 1] /\ i + k - 1 \in 1 .. Len(s)
  BY PartHas
<1> HIDE DEF p
<1>2. IdsOf(p) \subseteq IdsOf(s)
  BY <1>1 DEF IdsOf
<1> QED
  BY <1>1, <1>2 DEF p

\* A request whose answer has come.
LEMMA AnsweredIs ==
  ASSUME ChInv, NEW c \in chCalls, c.got # NotYet
  PROVE  /\ c.got \in Seq(Nat) /\ Gapless(c.got) /\ IdsOf(c.got) \subseteq Messages /\ c.at \in Nat
         /\ chRows \in Seq(Nat) /\ IdsOf(chRows) \subseteq Messages /\ chSeen \subseteq Messages
         /\ chNewest \in Nat \ {0} /\ LastWith(c.got) \in Nat
<1>1. c.got \in Seq(Nat) /\ Gapless(c.got) /\ IdsOf(c.got) \subseteq Messages /\ c.at \in Nat
  BY DEF ChInv, ChTypes, ChRequest
<1>2. LastWith(c.got) \in Nat
  BY <1>1 DEF LastWith, Larger, ChInv, ChTypes
<1> QED
  BY <1>1, <1>2 DEF ChInv, ChTypes

LEMMA AroundKeeps == ASSUME ChInv, NEW c \in chCalls, AroundArrives(c) PROVE ChInv'
<1>1. /\ c.kind = "around" /\ c.got # NotYet /\ chRows' = c.got /\ chLast' = LastWith(c.got)
      /\ chSeen' = chSeen \cup IdsOf(c.got) /\ chOn' = TRUE /\ chPending' = FALSE
      /\ chLoading' = FALSE /\ chCalls' = chCalls \ {c} /\ (chAstray' <=> Replaced)
      /\ UNCHANGED <<chNewest, chWire, chOffset, chBusy>>
  BY DEF AroundArrives
<1>2. chOlder' \in BOOLEAN /\ chNewer' \in BOOLEAN /\ chAstray' \in BOOLEAN
  BY DEF AroundArrives, Replaced
<1>3. c.got # <<>> /\ Gapless(c.got)
  BY <1>1 DEF ChInv, ChTypes
<1>4. ChTypes'
  BY <1>1, <1>2, AnsweredIs DEF ChInv, ChTypes, Messages
<1>5. ASSUME ~chAstray' PROVE ChSearch'
  <2>1. Under({"more", "rest"})' = {} /\ Under({"older", "newer"})' = {}
    BY <1>1, <1>5 DEF Replaced, Under
  <2> QED
    BY <1>1, <1>3, <2>1 DEF ChSearch
<1> QED
  BY <1>1, <1>4, <1>5 DEF ChInv, ChOrdinary, ChSearch

LEMMA BackKeeps == ASSUME ChInv, BackToLatest PROVE ChInv'
<1>0. PICK d : d = Call("more", 0)
  OBVIOUS
<1>1. d \in ChRequest /\ d.kind = "more" /\ d.at = 0 /\ d.got = NotYet
  BY <1>0, CallIs
<1>2. /\ Under({"more"}) = {} /\ chRows' = <<>> /\ chOffset' = 0 /\ chOn' = FALSE /\ chPending' = FALSE
      /\ chLoading' = TRUE /\ chCalls' = chCalls \cup {d} /\ (chAstray' <=> Replaced)
      /\ UNCHANGED <<chNewest, chWire, chLast, chOlder, chNewer, chBusy, chSeen>>
  BY <1>0 DEF BackToLatest
<1>3. chAstray' \in BOOLEAN
  BY DEF BackToLatest, Replaced
<1>4. ChTypes'
  <2>1. IdsOf(<<>>) = {} /\ <<>> \in Seq(Nat)
    BY DEF IdsOf
  <2> QED
    BY <1>1, <1>2, <1>3, <2>1 DEF ChInv, ChTypes, Messages
<1>5. ASSUME ~chAstray' PROVE ChOrdinary'
  <2>1. Under({"older", "newer"})' = {} /\ Under({"more"})' = {d}
    BY <1>1, <1>2, <1>5 DEF Replaced, Under
  <2>2. PageIsNext(d)'
    BY <1>1, <1>2 DEF PageIsNext
  <2>3. NewestPage'
    BY <1>1, <2>1 DEF NewestPage
  <2>4. \A m \in chSeen' : ~(m > chNewest' - chOffset')
    BY <1>2 DEF ChInv, ChTypes, Messages
  <2> QED
    BY <1>2, <2>1, <2>2, <2>3, <2>4 DEF ChOrdinary
<1> QED
  BY <1>2, <1>4, <1>5 DEF ChInv, ChOrdinary, ChSearch

LEMMA ExtendKeeps == ASSUME ChInv, NEW kind \in {"older", "newer"}, Extend(kind) PROVE ChInv'
<1>0. PICK d : d = Call(kind, IF kind = "older" THEN chRows[1] ELSE chRows[Len(chRows)])
  OBVIOUS
<1>1. /\ chOn /\ ~chBusy /\ chRows # <<>> /\ chBusy' = TRUE /\ chCalls' = chCalls \cup {d}
      /\ UNCHANGED <<chNewest, chWire, chRows, chLast, chOffset, chLoading, chOn, chOlder, chNewer,
                     chPending, chSeen, chAstray>>
  BY <1>0 DEF Extend
<1>2. chRows[1] \in Nat /\ chRows[Len(chRows)] \in Nat
  BY <1>1 DEF ChInv, ChTypes
<1>3. /\ d \in ChRequest /\ d.kind = kind /\ d.got = NotYet
      /\ d.at = IF kind = "older" THEN FirstOf(chRows) ELSE EndOf(chRows)
  BY <1>0, <1>2, CallIs DEF FirstOf, EndOf
<1>4. ChTypes'
  BY <1>1, <1>3 DEF ChInv, ChTypes, Messages
<1>5. ASSUME ~chAstray PROVE ChSearch'
  <2>1. Under({"older", "newer"})' = {d} /\ Under({"more", "rest"})' = {}
    BY <1>1, <1>3, <1>5 DEF ChInv, ChSearch, Under
  <2>2. GoesOn(d)'
    BY <1>1, <1>3 DEF GoesOn
  <2> QED
    BY <1>1, <1>5, <2>1, <2>2 DEF ChInv, ChSearch
<1> QED
  BY <1>1, <1>4, <1>5 DEF ChInv, ChOrdinary, ChSearch

\* An extension is the only one, when the rows are where it expects them.
LEMMA Extends ==
  ASSUME ChInv, NEW c \in chCalls, c.kind \in {"older", "newer"}, ~chAstray
  PROVE  /\ chOn /\ GoesOn(c) /\ chRows # <<>> /\ Gapless(chRows)
         /\ Under({"older", "newer"}) = {c} /\ Under({"more", "rest"}) = {}
<1>1. c \in Under({"older", "newer"})
  BY DEF Under
<1>2. chOn
  BY <1>1 DEF ChInv, ChOrdinary
<1> QED
  BY <1>1, <1>2 DEF ChInv, ChSearch

LEMMA OlderKeeps == ASSUME ChInv, NEW c \in chCalls, OlderArrives(c) PROVE ChInv'
<1>0. PICK rows : rows = c.got \o chRows
  OBVIOUS
<1>1. /\ c.kind = "older" /\ c.got # NotYet
      /\ \/ chRows' = rows
         \/ Len(rows) > MAX_ROWS /\ chRows' = SubSeq(rows, 1, MAX_ROWS)
      /\ chLast' = LastWith(c.got) /\ chSeen' = chSeen \cup IdsOf(c.got)
      /\ chBusy' = FALSE /\ chCalls' = chCalls \ {c}
      /\ UNCHANGED <<chNewest, chWire, chOffset, chLoading, chOn, chPending, chAstray>>
  BY <1>0 DEF OlderArrives
<1>2. chOlder' \in BOOLEAN /\ chNewer' \in BOOLEAN
  BY DEF OlderArrives, ChInv, ChTypes
<1>3. rows \in Seq(Nat) /\ IdsOf(rows) = IdsOf(c.got) \cup IdsOf(chRows) /\ MAX_ROWS \in Nat \ {0}
  <2>1. MAX_ROWS \in Nat \ {0}
    BY ChAssumption
  <2> QED
    BY <1>0, <1>1, <2>1, AnsweredIs, IdsOfBoth
<1>4. chRows' \in Seq(Nat) /\ IdsOf(chRows') \subseteq IdsOf(rows)
  <2>1. CASE chRows' = rows
    BY <1>3, <2>1
  <2>2. CASE Len(rows) > MAX_ROWS /\ chRows' = SubSeq(rows, 1, MAX_ROWS)
    <3>1. 1 \in 1 .. Len(rows) /\ MAX_ROWS \in 1 .. Len(rows)
      BY <1>3, <2>2
    <3> QED
      BY <1>3, <2>2, <3>1, PartIs
  <2> QED
    BY <1>1, <2>1, <2>2
<1>5. ChTypes'
  BY <1>1, <1>2, <1>3, <1>4, AnsweredIs DEF ChInv, ChTypes, Messages
<1>6. ASSUME ~chAstray PROVE chOn /\ ChSearch'
  <2>1. /\ chOn /\ GoesOn(c) /\ chRows # <<>> /\ Gapless(chRows)
        /\ Under({"older", "newer"}) = {c} /\ Under({"more", "rest"}) = {}
    BY <1>1, <1>6, Extends
  <2>2. Under({"older", "newer"})' = {} /\ Under({"more", "rest"})' = {}
    BY <1>1, <2>1 DEF Under
  <2>3. c.got # <<>> => FirstOf(chRows) = EndOf(c.got) + 1
    <3>1. c.got # <<>> => EndOf(c.got) = c.at - 1
      BY <1>1, <2>1 DEF GoesOn
    <3>2. c.at = FirstOf(chRows) /\ c.at \in Nat
      BY <1>1, <2>1, AnsweredIs DEF GoesOn
    <3> QED
      BY <3>1, <3>2
  <2>4. Gapless(rows) /\ rows # <<>>
    BY <1>0, <1>1, <2>1, <2>3, AnsweredIs, GaplessBoth
  <2>5. Gapless(chRows') /\ chRows' # <<>>
    <3>1. CASE chRows' = rows
      BY <2>4, <3>1
    <3>2. CASE Len(rows) > MAX_ROWS /\ chRows' = SubSeq(rows, 1, MAX_ROWS)
      <4>1. 1 \in 1 .. Len(rows) /\ MAX_ROWS \in 1 .. Len(rows)
        BY <1>3, <3>2
      <4> QED
        BY <1>3, <2>4, <3>2, <4>1, GaplessPart
    <3> QED
      BY <1>1, <3>1, <3>2
  <2> QED
    BY <1>1, <2>1, <2>2, <2>5 DEF ChSearch
<1> QED
  BY <1>1, <1>5, <1>6 DEF ChInv, ChOrdinary, ChSearch

\* The rows with a page below them, trimmed at the top.
LEMMA LongIs ==
  ASSUME NEW rows \in Seq(Nat), NEW left,
         \/ left = rows
         \/ Len(rows) > MAX_ROWS /\ left = SubSeq(rows, Len(rows) - MAX_ROWS + 1, Len(rows))
  PROVE  /\ left \in Seq(Nat) /\ IdsOf(left) \subseteq IdsOf(rows)
         /\ Gapless(rows) /\ rows # <<>> => Gapless(left) /\ left # <<>> /\ EndOf(left) = EndOf(rows)
<1>1. CASE left = rows
  BY <1>1
<1>2. CASE Len(rows) > MAX_ROWS /\ left = SubSeq(rows, Len(rows) - MAX_ROWS + 1, Len(rows))
  <2>1. MAX_ROWS \in Nat \ {0} /\ Len(rows) \in Nat
    BY ChAssumption
  <2>2. Len(rows) - MAX_ROWS + 1 \in 1 .. Len(rows) /\ Len(rows) \in Len(rows) - MAX_ROWS + 1 .. Len(rows)
    BY <1>2, <2>1
  <2>3. left \in Seq(Nat) /\ IdsOf(left) \subseteq IdsOf(rows)
    BY <1>2, <2>2, PartIs
  <2>4. ASSUME Gapless(rows) PROVE Gapless(left) /\ left # <<>> /\ EndOf(left) = EndOf(rows)
    BY <1>2, <2>2, <2>4, GaplessPart DEF EndOf
  <2> QED
    BY <2>3, <2>4
<1> QED
  BY <1>1, <1>2

\* The rows go on with what an extension brings.
LEMMA RowsGoOn ==
  ASSUME ChInv, NEW c \in chCalls, c.kind = "newer", c.got # NotYet, ~chAstray
  PROVE  /\ Gapless(chRows \o c.got) /\ chRows \o c.got # <<>>
         /\ EndOf(chRows \o c.got) = c.at + Len(c.got)
<1>1. GoesOn(c) /\ chRows # <<>> /\ Gapless(chRows)
  BY Extends
<1>2. c.at = EndOf(chRows) /\ (c.got # <<>> => FirstOf(c.got) = c.at + 1)
  BY <1>1 DEF GoesOn
<1>3. c.got \in Seq(Nat) /\ Gapless(c.got) /\ c.at \in Nat /\ chRows \in Seq(Nat)
  BY AnsweredIs
<1>4. c.got # <<>> => FirstOf(c.got) = EndOf(chRows) + 1
  BY <1>2
<1>5. /\ Gapless(chRows \o c.got) /\ chRows \o c.got # <<>>
      /\ EndOf(chRows \o c.got) = IF c.got = <<>> THEN EndOf(chRows) ELSE EndOf(c.got)
  BY <1>1, <1>3, <1>4, GaplessBoth
<1>6. CASE c.got = <<>>
  BY <1>2, <1>3, <1>5, <1>6
<1>7. CASE c.got # <<>>
  <2>1. EndOf(c.got) = FirstOf(c.got) + Len(c.got) - 1
    BY <1>3, <1>7, GaplessHas
  <2>2. Len(c.got) \in Nat
    BY <1>3
  <2> QED
    BY <1>2, <1>3, <1>5, <1>7, <2>1, <2>2
<1> QED
  BY <1>6, <1>7

LEMMA NewerKeeps == ASSUME ChInv, NEW c \in chCalls, NewerArrives(c) PROVE ChInv'
<1>0. PICK rows : rows = chRows \o c.got
  OBVIOUS
<1>1. /\ c.kind = "newer" /\ c.got # NotYet
      /\ \/ chRows' = rows
         \/ Len(rows) > MAX_ROWS /\ chRows' = SubSeq(rows, Len(rows) - MAX_ROWS + 1, Len(rows))
      /\ chLast' = LastWith(c.got) /\ chSeen' = chSeen \cup IdsOf(c.got)
      /\ chBusy' = FALSE /\ chCalls' = chCalls \ {c} /\ chNewer' = TRUE
      /\ UNCHANGED <<chNewest, chWire, chOffset, chLoading, chOn, chPending, chAstray>>
  BY <1>0 DEF NewerArrives
<1>2. chOlder' \in BOOLEAN
  BY DEF NewerArrives, ChInv, ChTypes
<1>3. rows \in Seq(Nat) /\ IdsOf(rows) = IdsOf(chRows) \cup IdsOf(c.got)
  BY <1>0, <1>1, AnsweredIs, IdsOfBoth
<1>4. chRows' \in Seq(Nat) /\ IdsOf(chRows') \subseteq IdsOf(rows)
  BY <1>1, <1>3, LongIs
<1>5. ChTypes'
  BY <1>1, <1>2, <1>3, <1>4, AnsweredIs DEF ChInv, ChTypes, Messages
<1>6. ASSUME ~chAstray PROVE chOn /\ ChSearch'
  <2>1. chOn /\ Under({"older", "newer"}) = {c} /\ Under({"more", "rest"}) = {}
    BY <1>1, <1>6, Extends
  <2>2. Under({"older", "newer"})' = {} /\ Under({"more", "rest"})' = {}
    BY <1>1, <2>1 DEF Under
  <2>3. Gapless(rows) /\ rows # <<>>
    BY <1>0, <1>1, <1>6, RowsGoOn
  <2>4. Gapless(chRows') /\ chRows' # <<>>
    BY <1>1, <1>3, <2>3, LongIs
  <2> QED
    BY <1>1, <2>1, <2>2, <2>4 DEF ChSearch
<1> QED
  BY <1>1, <1>5, <1>6 DEF ChInv, ChOrdinary, ChSearch

\* The end of the search: the rows reach the newest message, or what came is asked for.
LEMMA NewestKeeps == ASSUME ChInv, NEW c \in chCalls, NewestArrive(c) PROVE ChInv'
<1>0. PICK rows, left :
        /\ rows = chRows \o c.got
        /\ left = IF c.got # <<>> /\ Len(rows) > MAX_ROWS
                  THEN SubSeq(rows, Len(rows) - MAX_ROWS + 1, Len(rows)) ELSE rows
  OBVIOUS
<1>1. /\ c.kind = "newer" /\ c.got # NotYet /\ Len(c.got) < LOAD /\ chRows' = left
      /\ \/ left = rows
         \/ Len(rows) > MAX_ROWS /\ left = SubSeq(rows, Len(rows) - MAX_ROWS + 1, Len(rows))
      /\ chLast' = LastWith(c.got) /\ chSeen' = chSeen \cup IdsOf(c.got)
      /\ chNewer' = FALSE /\ chOn' = FALSE /\ chOffset' = Len(left) /\ Leaves(left) /\ chPending' = FALSE
      /\ UNCHANGED <<chNewest, chWire, chLoading, chAstray>>
  BY <1>0 DEF NewestArrive
<1>2. chOlder' \in BOOLEAN /\ chBusy' \in BOOLEAN
  <2>1. chOlder' \in BOOLEAN
    BY DEF NewestArrive, ChInv, ChTypes
  <2>2. chBusy' \in BOOLEAN
    BY <1>1 DEF Leaves, ChInv, ChTypes
  <2> QED
    BY <2>1, <2>2
<1>3. rows \in Seq(Nat) /\ IdsOf(rows) = IdsOf(chRows) \cup IdsOf(c.got)
  BY <1>0, <1>1, AnsweredIs, IdsOfBoth
<1>4. left \in Seq(Nat) /\ IdsOf(left) \subseteq IdsOf(rows) /\ Len(left) \in Nat
  <2>1. left \in Seq(Nat) /\ IdsOf(left) \subseteq IdsOf(rows)
    BY <1>1, <1>3, LongIs
  <2> QED
    BY <2>1
<1>5. PICK d : d = Call("rest", left[Len(left)])
  OBVIOUS
<1>6. left # <<>> => d \in ChRequest /\ d.kind = "rest" /\ d.at = EndOf(left) /\ d.got = NotYet
  <2>1. left # <<>> => left[Len(left)] \in Nat
    BY <1>4
  <2> QED
    BY <1>5, <2>1, CallIs DEF EndOf
<1>7. /\ chPending /\ left # <<>> => chCalls' = {e \in chCalls : e.kind # "newer"} \cup {d}
      /\ ~(chPending /\ left # <<>>) => chCalls' = {e \in chCalls : e.kind # "newer"}
  BY <1>1, <1>5 DEF Leaves
<1>8. \A e \in chCalls' : (e \in chCalls /\ e.kind # "newer") \/ (chPending /\ left # <<>> /\ e = d)
  BY <1>7
<1>9. ChTypes'
  <2>1. chCalls' \subseteq ChRequest
    BY <1>6, <1>8 DEF ChInv, ChTypes
  <2>2. \A e \in chCalls' :
          /\ e.got # NotYet => Gapless(e.got) /\ IdsOf(e.got) \subseteq Messages
          /\ e.kind = "around" => e.at \in Messages /\ e.got # <<>>
    BY <1>6, <1>8 DEF ChInv, ChTypes
  <2> QED
    BY <1>1, <1>2, <1>3, <1>4, <2>1, <2>2, AnsweredIs DEF ChInv, ChTypes, Messages
<1>10. ASSUME ~chAstray PROVE ChOrdinary'
  <2>1. /\ chOn /\ GoesOn(c) /\ Under({"older", "newer"}) = {c} /\ Under({"more", "rest"}) = {}
    BY <1>1, <1>10, Extends
  <2>2. Under({"older", "newer"})' = {} /\ Under({"more"})' = {}
    BY <1>1, <1>6, <1>8, <2>1 DEF Under
  <2>3. Gapless(rows) /\ rows # <<>> /\ EndOf(rows) = c.at + Len(c.got)
    BY <1>0, <1>1, <1>10, RowsGoOn
  <2>4. Gapless(left) /\ left # <<>> /\ EndOf(left) = c.at + Len(c.got)
    BY <1>1, <1>3, <2>3, LongIs
  <2>5. /\ IdsOf(left) = FirstOf(left) .. EndOf(left) /\ EndOf(left) = FirstOf(left) + Len(left) - 1
        /\ FirstOf(left) \in Nat /\ EndOf(left) \in Nat /\ FirstOf(left) <= EndOf(left)
    BY <1>4, <2>4, GaplessHas
  <2>6. IdsOf(left) \subseteq Messages
    BY <1>1, <1>3, <1>4, AnsweredIs
  <2>7. EndOf(left) <= chNewest
    BY <2>5, <2>6 DEF Messages
  <2>8. \A m \in IdsOf(c.got) : m <= EndOf(left)
    <3>1. IdsOf(rows) = FirstOf(rows) .. EndOf(rows)
      BY <1>3, <2>3, GaplessHas
    <3> QED
      BY <1>3, <2>3, <2>4, <3>1
  <2>9. ASSUME NEW m \in chSeen', m >= FirstOf(left) PROVE Covered(m)'
    <3>1. m \in Nat
      BY <1>1, AnsweredIs DEF Messages
    <3>2. CASE m <= EndOf(left)
      <4>1. m \in IdsOf(chRows')
        BY <1>1, <2>5, <2>9, <3>1, <3>2
      <4> QED
        BY <4>1 DEF Covered
    <3>3. CASE m > EndOf(left)
      <4>1. m \in chSeen
        BY <1>1, <2>5, <2>8, <3>1, <3>3
      <4>2. chPending
        BY <1>1, <2>1, <2>4, <3>3, <4>1 DEF GoesOn
      <4>3. d \in chCalls' /\ Brings(d, m)
        BY <1>6, <1>7, <2>4, <3>3, <4>2 DEF Brings
      <4> QED
        BY <4>3 DEF Covered, Brings
    <3> QED
      BY <2>5, <3>1, <3>2, <3>3
  <2>10. ASSUME NEW m \in chSeen', m > chNewest' - chOffset' PROVE Covered(m)'
    <3>1. m \in Nat /\ chNewest \in Nat /\ m > chNewest - Len(left)
      BY <1>1, <2>10, AnsweredIs DEF Messages
    <3>2. m >= FirstOf(left)
      BY <1>4, <2>5, <2>7, <3>1
    <3> QED
      BY <2>9, <3>2
  <2> QED
    BY <1>1, <2>2, <2>4, <2>9, <2>10 DEF ChOrdinary
<1> QED
  BY <1>1, <1>9, <1>10 DEF ChInv, ChOrdinary, ChSearch

LEMMA DeliveredKeeps == ASSUME ChInv, Delivered PROVE ChInv'
<1>1. chWire \in Nat /\ chWire <= chNewest /\ chWire' \in Nat /\ chLast \in Nat /\ chNewest \in Nat
  BY DEF Delivered, ChInv, ChTypes
<1>2. CASE chLast < chWire
  <2>1. PutBelow(<<chWire>>)
        /\ UNCHANGED <<chNewest, chOffset, chLoading, chOn, chOlder, chNewer, chBusy, chCalls, chAstray>>
    BY <1>2 DEF Delivered
  <2>2. <<chWire>> \in Seq(Nat) /\ IdsOf(<<chWire>>) \subseteq Messages
    BY <1>1, <1>2 DEF IdsOf, Messages
  <2>3. chCalls' = chCalls \ {} /\ {} \in SUBSET chCalls
    BY <2>1
  <2> QED
    BY <1>1, <2>1, <2>2, <2>3, BelowKeeps
<1>3. CASE ~(chLast < chWire)
  BY <1>1, <1>3, SaidKeeps DEF Delivered, chWindow
<1> QED
  BY <1>2, <1>3

LEMMA VisibleKeeps == ASSUME ChInv, NEW c \in chCalls, VisibleArrives(c) PROVE ChInv'
<1>1. /\ c.kind = "visible" /\ c.got # NotYet /\ PutBelow(Unknown(c.got)) /\ chCalls' = chCalls \ {c}
      /\ UNCHANGED <<chNewest, chWire, chOffset, chLoading, chOn, chOlder, chNewer, chBusy, chAstray>>
  BY DEF VisibleArrives
<1>2. c.got \in Seq(Nat) /\ Gapless(c.got) /\ IdsOf(c.got) \subseteq Messages
  BY <1>1, AnsweredIs
<1>3. Unknown(c.got) \in Seq(Nat) /\ IdsOf(Unknown(c.got)) \subseteq Messages
  <2>1. CASE c.got = <<>>
    BY <2>1 DEF Unknown, IdsOf
  <2>2. CASE c.got # <<>>
    <3> DEFINE a == Larger(c.got[1], chLast + 1)
               b == c.got[Len(c.got)]
    <3>1. IdsOf(c.got) = c.got[1] .. b /\ c.got[1] \in Nat /\ b \in Nat
      BY <1>2, <2>2, GaplessHas DEF FirstOf, EndOf
    <3>2. a \in Nat /\ a >= c.got[1]
      BY <3>1 DEF Larger, ChInv, ChTypes
    <3>3. Unknown(c.got) = Upto(a, b)
      BY <2>2 DEF Unknown
    <3> HIDE DEF a, b
    <3>4. Upto(a, b) \in Seq(Nat) /\ IdsOf(Upto(a, b)) = a .. b
      <4>1. a \in Nat /\ b \in Int
        BY <3>1, <3>2
      <4> QED
        BY ONLY <4>1, UptoIsGapless
    <3>5. a .. b \subseteq c.got[1] .. b
      BY <3>1, <3>2
    <3> QED
      BY <1>2, <3>1, <3>3, <3>4, <3>5
  <2> QED
    BY <2>1, <2>2
<1>4. {c} \in SUBSET chCalls /\ chWire' \in Nat
  BY <1>1 DEF ChInv, ChTypes
<1> QED
  BY <1>1, <1>3, <1>4, BelowKeeps

LEMMA RestKeeps == ASSUME ChInv, NEW c \in chCalls, RestArrives(c) PROVE ChInv'
<1>1. /\ c.kind = "rest" /\ c.got # NotYet /\ PutBelow(c.got) /\ chBusy' = FALSE /\ chCalls' = chCalls \ {c}
      /\ UNCHANGED <<chNewest, chWire, chOffset, chLoading, chOn, chOlder, chNewer, chAstray>>
  BY DEF RestArrives
<1>2. c.got \in Seq(Nat) /\ IdsOf(c.got) \subseteq Messages
  BY <1>1, AnsweredIs
<1>3. {c} \in SUBSET chCalls /\ chWire' \in Nat
  BY <1>1 DEF ChInv, ChTypes
<1> QED
  BY <1>1, <1>2, <1>3, BelowKeeps

\* Every step of the chat page.
LEMMA ChKept == ChInv /\ [ChNext]_ChVars => ChInv'
<1> SUFFICES ASSUME ChInv, [ChNext]_ChVars PROVE ChInv'
  OBVIOUS
<1>1. CASE UNCHANGED ChVars
  BY <1>1, SaidKeeps DEF ChVars, ChInv, ChTypes
<1>2. CASE Said
  BY <1>2, SaidKeeps DEF Said, ChInv, ChTypes
<1>3. CASE Missed
  BY <1>3, SaidKeeps DEF Missed, ChInv, ChTypes
<1>4. CASE Shown
  <2>1. chLoading' \in BOOLEAN
    BY <1>4 DEF Shown, ChInv, ChTypes
  <2> QED
    BY <1>4, <2>1, AsideKeeps DEF Shown
<1>5. ASSUME NEW hit \in Hits, JumpTo(hit) PROVE ChInv'
  <2>1. hit \in Nat /\ hit \in Messages
    BY ChAssumption DEF Hits, Messages
  <2> QED
    BY <1>5, <2>1, AsideKeeps DEF JumpTo
<1>6. ASSUME NEW c \in chCalls,
             \/ Serve(c) \/ Fails(c) \/ MoreArrives(c) \/ VisibleArrives(c) \/ AroundArrives(c)
             \/ OlderArrives(c) \/ NewerArrives(c) \/ NewestArrive(c) \/ RestArrives(c)
      PROVE  ChInv'
  BY <1>6, ServeKeeps, FailsKeeps, MoreKeeps, VisibleKeeps, AroundKeeps, OlderKeeps, NewerKeeps, NewestKeeps, RestKeeps
<1> QED
  BY <1>1, <1>2, <1>3, <1>4, <1>5, <1>6, ScrollUpKeeps, DeliveredKeeps, BackKeeps, ExtendKeeps DEF ChNext

(***************************************************************************)
(* What the server remembers of the chat.  A snapshot that is being        *)
(* written may be older than the state: then the state is marked as        *)
(* changed, and a timer, a flush or a thread about to start one is there.  *)
(* That has to hold for a state equal to the file as well, since the       *)
(* snapshot is about to replace the file.                                  *)
(***************************************************************************)
CsState == [last : Nat, read : [CsUser -> Nat]]

CsTypes ==
  /\ csFile \in CsState \cup {NotAState} /\ csCache \in CsState \cup {NotAState}
  /\ csDirty \in BOOLEAN /\ csTimer \in BOOLEAN /\ csLost \in BOOLEAN
  /\ csFired \in Nat /\ csMessages \in Nat /\ csWrites \subseteq CsState
  /\ csAt \in [CsThread -> {"idle", "loaded", "saved"}]
  /\ csCopy \in [CsThread -> CsState]
  /\ csDoes \in [CsThread -> [field : {"last", "read", "seen"}, user : CsUser \cup {Nothing.user}, to : Nat]]
Marked == csDirty /\ (csTimer \/ csFired > 0 \/ \E t \in CsThread : csAt[t] = "saved")
CsKeeps ==
  /\ csFile = Spoilt => csLost
  /\ csCache = NotLoaded => csWrites = {} /\ ~csDirty
  /\ csWrites # {} /\ ~csLost => csCache \in csWrites \/ Marked
CsInv == CsTypes /\ CsKeeps /\ ChangeWillBeWritten

\* Nothing that counts as a state is what a file that is not one holds.
LEMMA StateIsNoWreck == NotAState \notin CsState /\ NoneRead \in CsState
  BY DEF NotAState, NoneRead, CsState

LEMMA ChangedIsState ==
  ASSUME NEW s \in CsState, NEW do, do.to \in Nat
  PROVE  Changed(s, do) \in CsState
<1>1. CASE do.field = "last"
  BY <1>1 DEF Changed, CsState
<1>2. CASE do.field = "read"
  <2>1. [s.read EXCEPT ![do.user] = do.to] \in [CsUser -> Nat]
    BY DEF CsState
  <2>2. Changed(s, do) = [s EXCEPT !.read = [s.read EXCEPT ![do.user] = do.to]]
    BY <1>2, Zenon DEF Changed
  <2> QED
    BY <2>1, <2>2 DEF CsState
<1>3. CASE do.field # "last" /\ do.field # "read"
  BY <1>3 DEF Changed
<1> QED
  BY <1>1, <1>2, <1>3

LEMMA CsStart == CsInit => CsInv
<1> SUFFICES ASSUME CsInit PROVE CsInv
  OBVIOUS
<1>1. CsTypes
  BY StateIsNoWreck DEF CsInit, CsTypes, NotLoaded, Nothing
<1>2. CsKeeps
  BY StateIsNoWreck DEF CsInit, CsKeeps, NotLoaded, Spoilt
<1>3. ChangeWillBeWritten
  BY DEF CsInit, ChangeWillBeWritten
<1> QED
  BY <1>1, <1>2, <1>3 DEF CsInv

\* A request takes its copy: the state is loaded if it was not.
LEMMA LoadKeeps ==
  ASSUME CsInv, csMessages' \in Nat, NEW t \in CsThread,
         NEW do \in [field : {"last", "read", "seen"}, user : CsUser \cup {Nothing.user}, to : Nat],
         Load(t, do)
  PROVE  CsInv'
<1>1. /\ csCache' = Loaded /\ csCopy' = [csCopy EXCEPT ![t] = Loaded] /\ csDoes' = [csDoes EXCEPT ![t] = do]
      /\ csAt[t] = "idle" /\ csAt' = [csAt EXCEPT ![t] = "loaded"]
      /\ UNCHANGED <<csFile, csDirty, csTimer, csFired, csWrites, csFaults, csLost>>
  BY DEF Load
<1>2. Loaded \in CsState
  BY StateIsNoWreck DEF CsInv, CsTypes, Loaded, NotLoaded, Spoilt
<1>3. CsTypes'
  BY <1>1, <1>2 DEF CsInv, CsTypes, NotAState, Nothing
<1>4. Marked => Marked'
  BY <1>1 DEF Marked, CsInv, CsTypes
<1>5. csCache = NotLoaded => csWrites = {} /\ (csFile = Spoilt \/ csCache' = csFile)
  BY <1>1 DEF CsInv, CsKeeps, Loaded
<1>6. csCache # NotLoaded => csCache' = csCache
  BY <1>1 DEF Loaded
<1>7. csCache' # NotLoaded'
  BY <1>1, <1>2, StateIsNoWreck DEF NotLoaded, NotAState
<1>8. CsKeeps' /\ ChangeWillBeWritten'
  BY <1>1, <1>4, <1>5, <1>6, <1>7 DEF CsInv, CsKeeps, ChangeWillBeWritten, Marked, Spoilt, NotAState
<1> QED
  BY <1>3, <1>8 DEF CsInv

\* Every step of the requests, of the timer and of the writes.
LEMMA CsKept == CsInv /\ [CsNext]_CsVars => CsInv'
<1> SUFFICES ASSUME CsInv, [CsNext]_CsVars PROVE CsInv'
  OBVIOUS
<1> DEFINE Do == [field : {"last", "read", "seen"}, user : CsUser \cup {Nothing.user}, to : Nat]
<1>0. CsTypes /\ CsKeeps /\ ChangeWillBeWritten
  BY DEF CsInv
<1>1. CASE UNCHANGED CsVars
  BY <1>0, <1>1 DEF CsInv, CsTypes, CsKeeps, ChangeWillBeWritten, Marked, CsVars, csThreads,
                    Spoilt, NotLoaded, NotAState, Nothing
<1>2. ASSUME NEW t \in CsThread, Chat(t) PROVE CsInv'
  <2>1. csMessages' \in Nat /\ [Nothing EXCEPT !.to = csMessages'] \in Do
    <3>1. csMessages' \in Nat
      BY <1>0, <1>2 DEF Chat, CsTypes
    <3>2. Nothing \in Do
      BY DEF Nothing
    <3> HIDE DEF Do
    <3>3. [Nothing EXCEPT !.to = csMessages'] \in Do
      BY <3>1, <3>2 DEF Do
    <3> QED
      BY <3>1, <3>3
  <2> QED
    BY <1>2, <2>1, LoadKeeps DEF Chat
<1>3. ASSUME NEW t \in CsThread, NEW u \in CsUser, NEW upto \in 1..csMessages, Read(t, u, upto) PROVE CsInv'
  <2>1. csMessages' \in Nat /\ [field |-> "read", user |-> u, to |-> upto] \in Do
    BY <1>0, <1>3 DEF Read, CsTypes
  <2> QED
    BY <1>3, <2>1, LoadKeeps DEF Read
<1>4. ASSUME NEW t \in CsThread, NEW u \in CsUser, Beat(t, u) PROVE CsInv'
  <2>1. csMessages' \in Nat /\ [field |-> "seen", user |-> u, to |-> 1] \in Do
    BY <1>0, <1>4 DEF Beat, CsTypes
  <2> QED
    BY <1>4, <2>1, LoadKeeps DEF Beat
<1>5. ASSUME NEW t \in CsThread, Save(t) PROVE CsInv'
  <2>1. csCopy[t] \in CsState /\ csDoes[t].to \in Nat
    BY <1>0 DEF CsTypes
  <2>2. Changed(csCopy[t], csDoes[t]) \in CsState
    BY <2>1, ChangedIsState
  <2>3. /\ csAt' = [csAt EXCEPT ![t] = "saved"] /\ csCache' \in CsState /\ csDirty' = TRUE
        /\ UNCHANGED <<csFile, csTimer, csFired, csWrites, csCopy, csDoes, csMessages, csFaults, csLost>>
    BY <1>5, <2>2 DEF Save
  <2>4. CsTypes'
    BY <1>0, <2>3 DEF CsTypes, NotAState, Nothing
  <2>5. Marked' /\ csCache' # NotLoaded'
    BY <1>0, <2>3, StateIsNoWreck DEF CsTypes, Marked, NotLoaded, NotAState
  <2>6. CsKeeps' /\ ChangeWillBeWritten'
    BY <1>0, <2>3, <2>5 DEF CsKeeps, ChangeWillBeWritten, Marked, Spoilt, NotAState
  <2> QED
    BY <2>4, <2>6 DEF CsInv
<1>6. ASSUME NEW t \in CsThread, Schedule(t) PROVE CsInv'
  <2>1. /\ csAt' = [csAt EXCEPT ![t] = "idle"] /\ csTimer' = TRUE
        /\ csCopy' = [csCopy EXCEPT ![t] = NoneRead] /\ csDoes' = [csDoes EXCEPT ![t] = Nothing]
        /\ UNCHANGED <<csFile, csCache, csDirty, csFired, csWrites, csMessages, csFaults, csLost>>
    BY <1>6 DEF Schedule
  <2>2. Nothing \in Do
    BY DEF Nothing
  <2>3. CsTypes'
    <3>1. /\ csAt' \in [CsThread -> {"idle", "loaded", "saved"}] /\ csCopy' \in [CsThread -> CsState]
          /\ csDoes' \in [CsThread -> Do]
      BY <1>0, <2>1, <2>2, StateIsNoWreck DEF CsTypes
    <3> QED
      BY <1>0, <2>1, <3>1 DEF CsTypes, NotAState, Nothing
  <2>4. Marked => Marked'
    BY <2>1 DEF Marked
  <2>5. CsKeeps' /\ ChangeWillBeWritten'
    BY <1>0, <2>1, <2>4 DEF CsKeeps, ChangeWillBeWritten, Marked, Spoilt, NotLoaded, NotAState
  <2> QED
    BY <2>3, <2>5 DEF CsInv
<1>7. CASE Fire
  <2>1. /\ csTimer' = FALSE /\ csFired' = 1
        /\ UNCHANGED <<csFile, csCache, csDirty, csWrites, csAt, csCopy, csDoes, csMessages, csFaults, csLost>>
    BY <1>7 DEF Fire, csThreads
  <2>2. CsTypes'
    BY <1>0, <2>1 DEF CsTypes, NotAState, Nothing
  <2>3. Marked => Marked'
    BY <2>1 DEF Marked
  <2>4. CsKeeps' /\ ChangeWillBeWritten'
    BY <1>0, <2>1, <2>3 DEF CsKeeps, ChangeWillBeWritten, Marked, Spoilt, NotLoaded, NotAState
  <2> QED
    BY <2>2, <2>4 DEF CsInv
<1>8. CASE Flush
  <2>1. /\ csFired > 0 /\ csFired' = csFired - 1 /\ csDirty' = FALSE
        /\ csDirty => csWrites' = csWrites \cup {csCache}
        /\ ~csDirty => csWrites' = csWrites
        /\ UNCHANGED <<csFile, csCache, csTimer, csAt, csCopy, csDoes, csMessages, csFaults, csLost>>
    BY <1>8 DEF Flush, csThreads
  <2>2. csDirty => csCache \in CsState
    BY <1>0 DEF CsTypes, CsKeeps, NotLoaded
  <2>3. CsTypes'
    <3>1. csWrites' \subseteq CsState
      <4>1. csWrites \subseteq CsState /\ csDirty \in BOOLEAN
        BY <1>0 DEF CsTypes
      <4> QED
        BY <2>1, <2>2, <4>1
    <3>2. csFired' \in Nat
      <4>1. csFired \in Nat /\ csFired > 0 /\ csFired' = csFired - 1
        BY <1>0, <2>1 DEF CsTypes
      <4> QED
        BY <4>1
    <3> QED
      BY <1>0, <2>1, <3>1, <3>2 DEF CsTypes, NotAState, Nothing
  <2>4. csCache \in csWrites \/ Marked => csCache' \in csWrites'
    BY <2>1 DEF Marked
  <2>5. CsKeeps' /\ ChangeWillBeWritten'
    BY <1>0, <2>1, <2>4 DEF CsKeeps, ChangeWillBeWritten, Marked, Spoilt, NotLoaded, NotAState
  <2> QED
    BY <2>3, <2>5 DEF CsInv
<1>9. ASSUME NEW state \in csWrites, Written(state) PROVE CsInv'
  <2>1. /\ csWrites = {state} /\ csWrites' = {} /\ csFile' = state /\ csLost' = (csLost /\ state # csCache)
        /\ UNCHANGED <<csCache, csDirty, csTimer, csFired, csAt, csCopy, csDoes, csMessages, csFaults>>
    BY <1>9 DEF Written, csThreads
  <2>2. state \in CsState /\ state # NotAState /\ csLost' \in BOOLEAN
    BY <1>0, <2>1, StateIsNoWreck DEF CsTypes
  <2>3. CsTypes'
    BY <1>0, <2>1, <2>2 DEF CsTypes, NotAState, Nothing
  <2>4. Marked => Marked'
    BY <2>1 DEF Marked
  <2>5. csFile' # csCache' /\ ~csLost' => ~csLost /\ csCache \notin csWrites
    BY <2>1
  <2>6. ChangeWillBeWritten'
    BY <1>0, <2>1, <2>4, <2>5 DEF CsKeeps, ChangeWillBeWritten, Marked, NotLoaded, NotAState
  <2>7. CsKeeps'
    BY <1>0, <2>1, <2>2 DEF CsKeeps, Spoilt, NotLoaded, NotAState
  <2> QED
    BY <2>3, <2>6, <2>7 DEF CsInv
<1>10. ASSUME NEW outcome \in csWrites \cup {Spoilt}, WritesCollide(outcome) PROVE CsInv'
  <2>1. /\ csWrites' = {} /\ csFile' = outcome /\ csLost' = TRUE
        /\ UNCHANGED <<csCache, csDirty, csTimer, csFired, csAt, csCopy, csDoes, csMessages, csFaults>>
    BY <1>10 DEF WritesCollide, csThreads
  <2>2. CsTypes'
    BY <1>0, <2>1 DEF CsTypes, NotAState, Nothing, Spoilt
  <2>3. CsKeeps' /\ ChangeWillBeWritten'
    BY <1>0, <2>1 DEF CsKeeps, ChangeWillBeWritten, NotLoaded, NotAState
  <2> QED
    BY <2>2, <2>3 DEF CsInv
<1>11. ASSUME NEW state \in csWrites, WriteFails(state) PROVE CsInv'
  <2>1. /\ csWrites' = csWrites \ {state} /\ csLost' = TRUE
        /\ UNCHANGED <<csFile, csCache, csDirty, csTimer, csFired, csAt, csCopy, csDoes, csMessages>>
    BY <1>11 DEF WriteFails, csThreads
  <2>2. CsTypes'
    BY <1>0, <2>1 DEF CsTypes, NotAState, Nothing
  <2>3. CsKeeps' /\ ChangeWillBeWritten'
    BY <1>0, <2>1 DEF CsKeeps, ChangeWillBeWritten, NotLoaded, NotAState
  <2> QED
    BY <2>2, <2>3 DEF CsInv
<1>12. CASE CsRestart
  <2>1. /\ csCache' = NotLoaded /\ csDirty' = FALSE /\ csTimer' = FALSE /\ csFired' = 0 /\ csWrites' = {}
        /\ csAt' = [t \in CsThread |-> "idle"] /\ csCopy' = [t \in CsThread |-> NoneRead]
        /\ csDoes' = [t \in CsThread |-> Nothing] /\ csLost' = (csFile = Spoilt)
        /\ UNCHANGED <<csFile, csMessages>>
    BY <1>12 DEF CsRestart
  <2>2. Nothing \in Do /\ csLost' \in BOOLEAN
    BY <2>1 DEF Nothing
  <2>3. CsTypes'
    BY <1>0, <2>1, <2>2, StateIsNoWreck DEF CsTypes, NotAState, NotLoaded, Nothing
  <2>4. CsKeeps' /\ ChangeWillBeWritten'
    BY <2>1 DEF CsKeeps, ChangeWillBeWritten, NotLoaded, Spoilt, NotAState
  <2> QED
    BY <2>3, <2>4 DEF CsInv
<1> QED
  BY <1>1, <1>2, <1>3, <1>4, <1>5, <1>6, <1>7, <1>8, <1>9, <1>10, <1>11, <1>12 DEF CsNext

(***************************************************************************)
(* The run App_pages.                                                      *)
(***************************************************************************)
EveryPage == <<part, ApVars, ChVars, CsVars, VcVars, PlVars, LkVars, IvVars, CuVars, ThVars,
               OdVars, LsVars, BdVars, ScVars, GlVars>>

LEMMA StepOfPages ==
  ASSUME [Next_Pages]_EveryPage
  PROVE  /\ [PlNext]_PlVars /\ [BdNext]_BdVars /\ [ApNext]_ApVars /\ [VcNext]_VcVars
         /\ [ScNext]_ScVars /\ [GlNext]_GlVars /\ [ChNext]_ChVars /\ [CsNext]_CsVars
<1>1. CASE Next_Pages
  BY <1>1 DEF Next_Pages, Others
<1>2. CASE UNCHANGED EveryPage
  BY <1>2 DEF EveryPage
<1> QED
  BY <1>1, <1>2

\* video.js: whatever presses, left, probes, late metadata, watchdogs, renamings and
\* deletions overtake each other, when nothing is being started any more the page plays
\* the video that the heart, the offset and the deletion go to.
THEOREM CurrentVideoPlays == Spec_Pages => []WhatPlaysIsCurrent
<1>1. Init_Pages => PlInv
  BY PlStart DEF Init_Pages
<1>2. PlInv /\ [Next_Pages]_EveryPage => PlInv'
  BY StepOfPages, PlKept
<1> QED
  BY <1>1, <1>2, PlSafe, PTL DEF Spec_Pages, EveryPage

\* The collectors of boards, for lists and pages of any length and any posts that arrive
\* during a walk: no gap that has no reason, a second try for what was missed, and nothing
\* registered that was not read.
THEOREM BoardsAreCollected == Spec_Pages => []BoardsRight
<1>1. Init_Pages => BdInv
  BY BdStart DEF Init_Pages
<1>2. BdInv /\ [Next_Pages]_EveryPage => BdInv'
  BY StepOfPages, BdKept
<1> QED
  BY <1>1, <1>2, BdSafe, PTL DEF Spec_Pages, EveryPage

\* audio_analysis.js: for any recordings, requests and failures, the page that shows a
\* recording as unfinished has a look at the list set or under way.
THEOREM PageKeepsLooking == Spec_Pages => []KeepsLooking
<1>1. Init_Pages => ApInv
  BY ApStart DEF Init_Pages
<1>2. ApInv /\ [Next_Pages]_EveryPage => ApInv'
  BY StepOfPages, ApKept
<1>3. ApInv => KeepsLooking
  BY DEF ApInv
<1> QED
  BY <1>1, <1>2, <1>3, PTL DEF Spec_Pages, EveryPage

\* video_call.js: however messages, timers and handlers of the two pages overtake each other,
\* and whatever is lost, a page that says it is connecting has something coming that ends it.
THEOREM ConnectingEnds == Spec_Pages => []TryingComesToAnEnd
<1>1. Init_Pages => VcInv
  BY VcStart DEF Init_Pages
<1>2. VcInv /\ [Next_Pages]_EveryPage => VcInv'
  BY StepOfPages, VcKept
<1>3. VcInv => TryingComesToAnEnd
  BY DEF VcInv, VcEnds, TryingComesToAnEnd
<1> QED
  BY <1>1, <1>2, <1>3, PTL DEF Spec_Pages, EveryPage

\* chat.js, chat_search.js and app/function.py: for any number of messages, sizes of a page
\* and of a window, and requests under way, a message that reached the page during a search is
\* on it afterwards; and whatever requests, timers, writes and restarts overtake each other,
\* what is remembered of the chat is in the file or will be written.
THEOREM ChatIsKept == Spec_Pages => []ChatRight
<1>1. Init_Pages => ChInv /\ CsInv
  BY ChStart, CsStart DEF Init_Pages
<1>2. ChInv /\ CsInv /\ [Next_Pages]_EveryPage => ChInv' /\ CsInv'
  BY StepOfPages, ChKept, CsKept
<1>3. ChInv /\ CsInv => ChatRight
  BY ChSafe DEF CsInv, ChatRight
<1> QED
  BY <1>1, <1>2, <1>3, PTL DEF Spec_Pages, EveryPage

\* scrap_gm_playwrigit.py and app/image.py: for any posts, failures and ends of runs no post
\* of an account is passed over for good, and for any pictures of one name an original that
\* a restoration would bring back is the untouched picture it was made from.
THEOREM CollectedIsKept == Spec_Pages => []CollectedRight
<1>1. Init_Pages => ScInv /\ GlInv
  BY ScStart, GlStart DEF Init_Pages
<1>2. ScInv /\ GlInv /\ [Next_Pages]_EveryPage => ScInv' /\ GlInv'
  BY StepOfPages, ScKept, GlKept
<1>3. ScInv /\ GlInv => CollectedRight
  BY ScSafe DEF GlInv, CollectedRight
<1> QED
  BY <1>1, <1>2, <1>3, PTL DEF Spec_Pages, EveryPage

=============================================================================
