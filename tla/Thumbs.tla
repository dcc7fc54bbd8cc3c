------------------------------- MODULE Thumbs -------------------------------
(***************************************************************************)
(* The thumbnails of a gallery (utils/image_thumbs.py with its callers in  *)
(* app/image.py and the collectors).  A picture is shown by its thumbnail, *)
(* which is found by the picture's name without its extension; there is no *)
(* other link between them.  A picture that is collected, moved in or out, *)
(* cropped or deleted takes care of its thumbnail itself, and a job at     *)
(* night makes the missing ones and takes away those of two names that     *)
(* differ in their extension only.                                         *)
(*                                                                         *)
(* The model has one name in one gallery, with two extensions.  Pictures   *)
(* are numbers.  `big` stands for all the reasons to make a thumbnail or   *)
(* not: size, animation, a file that cannot be read.  The size and the     *)
(* time of change the job remembers tell two pictures apart.  Posters of   *)
(* videos have the same protocol in a directory of their own.              *)
(***************************************************************************)
EXTENDS Integers, FiniteSets

CONSTANTS
  ThActor,                     \* requests and collectors at the same time
  ThNone,
  ThPictures, ThRuns, ThDeaths \* bounds: pictures; runs of the job; processes that die

ASSUME ThAssumption ==
  /\ {ThPictures, ThRuns, ThDeaths} \subseteq Nat
  /\ ThNone \notin [pic : Nat, at : Nat, big : BOOLEAN]
  /\ ThNone \notin [of : Nat, at : Nat, doubt : BOOLEAN] /\ ThNone \notin [pic : Nat, at : Nat]

VARIABLES
  thFile,     \* the file of each extension: its picture, its time of change
  thYoung,    \* extensions whose file was written in the last ten minutes
  thThumb,    \* the thumbnail: of which picture, when written; doubt: see below
  thOp,       \* what each actor is doing
  thRun,      \* the job at night
  thSkip,     \* image_thumbs_skip: files found to need no thumbnail
  thCarried,  \* pictures moved out with a thumbnail
  thNow,      \* pictures so far, which is also the time
  thSettled,  \* a whole run of the job is the last that happened
  thRuns, thDeaths

ThVars  == <<thFile, thYoung, thThumb, thOp, thRun, thSkip, thCarried, thNow, thSettled, thRuns, thDeaths>>
thFiles == <<thFile, thYoung, thNow>>
thCount == <<thRuns, thDeaths>>

ThExt == {"jpg", "png"}
NoOp  == [at |-> "idle", ext |-> "jpg", pic |-> 0, time |-> 0, with |-> FALSE, over |-> FALSE]
NoRun == [at |-> "idle", files |-> [e \in ThExt |-> ThNone], old |-> {}, todo |-> {},
          recs |-> [e \in ThExt |-> ThNone], pic |-> 0, over |-> FALSE, quiet |-> TRUE]

ThInit ==
  /\ thFile = [e \in ThExt |-> ThNone] /\ thYoung = {} /\ thThumb = ThNone
  /\ thOp = [a \in ThActor |-> NoOp] /\ thRun = NoRun /\ thSkip = [e \in ThExt |-> ThNone]
  /\ thCarried = {} /\ thNow = 0 /\ thSettled = FALSE /\ thRuns = 0 /\ thDeaths = 0

There  == {e \in ThExt : thFile[e] # ThNone}
Active == {a \in ThActor : thOp[a].at # "idle"}
New    == thNow < ThPictures /\ thNow' = thNow + 1

\* _is_fresh: not older than the file.
Fresh(time) == thThumb # ThNone /\ thThumb.at >= time

\* A thumbnail is in doubt when it was made while someone else was at the same name, or
\* while the name stood for two files.
Thumb(pic, over) == [of |-> pic, at |-> thNow, doubt |-> over \/ Cardinality(There) = 2]

\* Actor a begins something at the name: whoever is at it as well will have been overlapped.
Begin(a, at, e, pic, time, with) ==
  /\ thOp[a].at = "idle"
  /\ thOp' = [b \in ThActor |->
                IF b = a THEN [at |-> at, ext |-> e, pic |-> pic, time |-> time, with |-> with,
                               over |-> Active # {} \/ thRun.at # "idle"]
                ELSE [thOp[b] EXCEPT !.over = TRUE]]
  /\ thRun' = [thRun EXCEPT !.over = TRUE, !.quiet = FALSE] /\ thSettled' = FALSE

Goes(a, at)   == thOp' = [thOp EXCEPT ![a].at = at]
Holds(a, pic) == thOp' = [thOp EXCEPT ![a].at = "write", ![a].pic = pic]
thRest == <<thRun, thSkip, thSettled, thCount>>

(***************************************************************************)
(* A picture is saved by a collector, which opens the file before it has   *)
(* the whole of it, and then ensure_thumb.                                 *)
(***************************************************************************)
CollectOpen(a, e) ==
  /\ thFile[e] = ThNone /\ New /\ Begin(a, "save", e, thNow', thNow', FALSE)
  /\ thFile' = [thFile EXCEPT ![e] = [pic |-> thNow', at |-> thNow', big |-> FALSE]]
  /\ thYoung' = thYoung \cup {e}
  /\ UNCHANGED <<thThumb, thSkip, thCarried, thCount>>

CollectDone(a, big) ==
  LET e == thOp[a].ext
  IN /\ thOp[a].at = "save" /\ thFile[e] # ThNone /\ New /\ Goes(a, "ensure")
     /\ thFile' = [thFile EXCEPT ![e] = [pic |-> thNow', at |-> thNow', big |-> big]]
     /\ thYoung' = thYoung \cup {e}
     /\ UNCHANGED <<thThumb, thCarried, thRest>>

EnsureThumb(a) ==
  LET f == thFile[thOp[a].ext]
  IN /\ thOp[a].at \in {"ensure", "save"}
     /\ thOp[a].at = "save" => f = ThNone
     /\ IF f = ThNone \/ ~f.big \/ Fresh(f.at) THEN Goes(a, "idle") ELSE Holds(a, f.pic)
     /\ UNCHANGED <<thFiles, thThumb, thCarried, thRest>>

\* _write_atomic
WriteThumb(a) ==
  /\ thOp[a].at = "write" /\ Goes(a, "idle")
  /\ thThumb' = Thumb(thOp[a].pic, thOp[a].over)
  /\ UNCHANGED <<thFiles, thCarried, thRest>>

(***************************************************************************)
(* move_image_core moves the file, which keeps its time of change and      *)
(* takes the place of one that has its name, and then move_thumb.          *)
(***************************************************************************)
MoveIn(a, e, big, with) ==
  /\ with => big
  /\ New /\ Begin(a, "thumb in", e, thNow', 0, with)
  /\ thFile' = [thFile EXCEPT ![e] = [pic |-> thNow', at |-> 0, big |-> big]]
  /\ thYoung' = thYoung \ {e}
  /\ UNCHANGED <<thThumb, thSkip, thCarried, thCount>>

LeftThumb_AsItIs == thThumb                                      \* mutant
LeftThumb == ThNone

ThumbIn(a) ==
  /\ thOp[a].at = "thumb in"
  /\ Goes(a, IF thOp[a].with THEN "idle" ELSE "ensure")
  /\ thThumb' = IF thOp[a].with THEN Thumb(thOp[a].pic, thOp[a].over) ELSE LeftThumb
  /\ UNCHANGED <<thFiles, thCarried, thRest>>

MoveOut(a, e) ==
  /\ thFile[e] # ThNone /\ Begin(a, "thumb out", e, thFile[e].pic, thFile[e].at, FALSE)
  /\ thFile' = [thFile EXCEPT ![e] = ThNone] /\ thYoung' = thYoung \ {e}
  /\ UNCHANGED <<thThumb, thSkip, thCarried, thNow, thCount>>

ThumbOut(a) ==
  /\ thOp[a].at = "thumb out" /\ Goes(a, "idle")
  /\ thCarried' = IF ~Fresh(thOp[a].time) THEN thCarried
                  ELSE thCarried \cup {[pic |-> thOp[a].pic, of |-> thThumb.of,
                                        doubt |-> thThumb.doubt \/ thOp[a].over \/ There # {}]}
  /\ thThumb' = ThNone
  /\ UNCHANGED <<thFiles, thRest>>

(***************************************************************************)
(* crop_image and crop_restore put another picture in the file's place,    *)
(* with the old time of change, and then _rebuild_thumb.                   *)
(***************************************************************************)
Edit(a, e, big) ==
  /\ thFile[e] # ThNone /\ New /\ Begin(a, "rebuild", e, thNow', thFile[e].at, FALSE)
  /\ thFile' = [thFile EXCEPT ![e].pic = thNow', ![e].big = big]
  /\ UNCHANGED <<thYoung, thThumb, thSkip, thCarried, thCount>>

Outdated_UnlessFresh(f) == f.big /\ ~Fresh(f.at)                 \* mutant
Outdated(f) == f.big

RebuildThumb(a) ==
  LET f == thFile[thOp[a].ext]
  IN /\ thOp[a].at = "rebuild"
     /\ IF f # ThNone /\ Outdated(f) THEN Holds(a, f.pic) ELSE Goes(a, "idle")
     /\ thThumb' = IF f # ThNone /\ ~f.big THEN ThNone ELSE thThumb
     /\ UNCHANGED <<thFiles, thCarried, thRest>>

\* delete_images_task: the thumbnail before the file.
DeleteThumb(a, e) ==
  /\ thFile[e] # ThNone /\ Begin(a, "delete", e, thFile[e].pic, thFile[e].at, FALSE)
  /\ thThumb' = ThNone
  /\ UNCHANGED <<thFiles, thSkip, thCarried, thCount>>

DeleteFile(a) ==
  LET e == thOp[a].ext
  IN /\ thOp[a].at = "delete" /\ Goes(a, "idle")
     /\ thFile' = [thFile EXCEPT ![e] = ThNone] /\ thYoung' = thYoung \ {e}
     /\ UNCHANGED <<thThumb, thCarried, thNow, thRest>>

\* The server or the collector dies. What it was moving or cropping keeps the thumbnail
\* that was there.
ActorDies(a) ==
  /\ thOp[a].at # "idle" /\ thDeaths < ThDeaths /\ thDeaths' = thDeaths + 1
  /\ thThumb' = IF thThumb # ThNone THEN [thThumb EXCEPT !.doubt = TRUE] ELSE ThNone
  /\ thOp' = [thOp EXCEPT ![a] = NoOp]
  /\ UNCHANGED <<thFiles, thRun, thSkip, thCarried, thSettled, thRuns>>

----------------------------------------------------------------------------
(***************************************************************************)
(* process_dir: lists the gallery, decides about each file, converts those *)
(* that remain and stores what needs none.                                 *)
(***************************************************************************)
Known_ByName(e) == thRun.recs[e] # ThNone                        \* mutant
Known(e) ==
  /\ thRun.recs[e] # ThNone
  /\ thRun.recs[e].at = thRun.files[e].at /\ thRun.recs[e].pic = thRun.files[e].pic

Scan ==
  /\ thRun.at = "idle" /\ thRuns < ThRuns /\ thRuns' = thRuns + 1
  /\ thRun' = [NoRun EXCEPT !.at = "judge", !.files = thFile, !.old = There \ thYoung,
                 !.todo = There, !.quiet = Active = {},
                 !.recs = [e \in ThExt |-> IF e \in There THEN thSkip[e] ELSE ThNone]]
  /\ thSettled' = FALSE
  /\ thOp' = [a \in ThActor |-> IF a \in Active THEN [thOp[a] EXCEPT !.over = TRUE] ELSE thOp[a]]
  /\ UNCHANGED <<thFiles, thThumb, thSkip, thCarried, thDeaths>>

Clash_Left == thThumb                                            \* mutant
Clash == ThNone

\* Two names that clash; a thumbnail that is new enough; a file that is known to need none;
\* one that may still be written; one to convert.
Judge(e) ==
  LET both == \A x \in ThExt : thRun.files[x] # ThNone
      done == both \/ Fresh(thRun.files[e].at) \/ Known(e) \/ e \notin thRun.old
  IN /\ thRun.at = "judge" /\ e \in thRun.todo
     /\ thThumb' = IF both THEN Clash ELSE thThumb
     /\ thRun' = IF done THEN [thRun EXCEPT !.todo = @ \ {e}] ELSE [thRun EXCEPT !.at = "convert"]
     /\ UNCHANGED <<thFiles, thOp, thSkip, thCarried, thSettled, thCount>>

\* The picture is read now; the time is up.
Convert(e) ==
  LET f == thFile[e]
      makes == thRun.files[e].big /\ f # ThNone /\ f.big
  IN /\ thRun.at = "convert" /\ e \in thRun.todo
     /\ \/ /\ makes
           /\ thRun' = [thRun EXCEPT !.at = "write", !.pic = f.pic, !.over = Active # {}]
        \/ /\ ~makes
           /\ thRun' = [thRun EXCEPT !.at = "judge", !.todo = @ \ {e},
                          !.recs[e] = [pic |-> thRun.files[e].pic, at |-> thRun.files[e].at]]
        \/ thRun' = [thRun EXCEPT !.at = "judge", !.todo = @ \ {e}, !.quiet = FALSE]
     /\ UNCHANGED <<thFiles, thThumb, thOp, thSkip, thCarried, thSettled, thCount>>

JobWrites ==
  /\ thRun.at = "write"
  /\ thThumb' = Thumb(thRun.pic, thRun.over)
  /\ thRun' = [thRun EXCEPT !.at = "judge", !.todo = {}]
  /\ UNCHANGED <<thFiles, thOp, thSkip, thCarried, thSettled, thCount>>

SaveSkip ==
  /\ thRun.at = "judge" /\ thRun.todo = {}
  /\ thSkip' = thRun.recs /\ thRun' = NoRun /\ thSettled' = thRun.quiet
  /\ UNCHANGED <<thFiles, thThumb, thOp, thCarried, thCount>>

JobDies ==
  /\ thRun.at # "idle" /\ thDeaths < ThDeaths /\ thDeaths' = thDeaths + 1 /\ thRun' = NoRun
  /\ UNCHANGED <<thFiles, thThumb, thOp, thSkip, thCarried, thSettled, thRuns>>

\* RECENT_SEC pass.
Age(e) ==
  /\ e \in thYoung /\ thYoung' = thYoung \ {e}
  /\ thRun' = [thRun EXCEPT !.quiet = FALSE] /\ thSettled' = FALSE
  /\ UNCHANGED <<thFile, thThumb, thOp, thSkip, thCarried, thNow, thCount>>

ThNext ==
  \/ \E a \in ThActor, e \in ThExt :
       \/ CollectOpen(a, e) \/ MoveOut(a, e) \/ DeleteThumb(a, e)
       \/ \E big, with \in BOOLEAN : MoveIn(a, e, big, with)
       \/ \E big \in BOOLEAN : Edit(a, e, big)
  \/ \E a \in ThActor :
       \/ \E big \in BOOLEAN : CollectDone(a, big)
       \/ EnsureThumb(a) \/ WriteThumb(a) \/ ThumbIn(a) \/ ThumbOut(a) \/ RebuildThumb(a)
       \/ DeleteFile(a) \/ ActorDies(a)
  \/ Scan \/ JobWrites \/ SaveSkip \/ JobDies
  \/ \E e \in ThExt : Judge(e) \/ Convert(e) \/ Age(e)

ThSpec == ThInit /\ [][ThNext]_ThVars

----------------------------------------------------------------------------
\* get_image: the thumbnail of the name if there is one, the file otherwise.
Served(e) == IF thThumb # ThNone THEN thThumb.of ELSE thFile[e].pic

\* Whatever was moved over what, cropped, deleted, collected and cut off in which order: a
\* name that stands for one file shows that file's picture, unless the thumbnail was made
\* while something else was done with the name.
ShowsItsOwn ==
  \A e \in There :
    (Active = {} /\ Cardinality(There) = 1 /\ (thThumb # ThNone => ~thThumb.doubt))
       => Served(e) = thFile[e].pic

\* A picture takes no other's thumbnail with it.
CarriesItsOwn == \A c \in thCarried : c.doubt \/ c.of = c.pic

\* What a whole run leaves: no thumbnail for two names that clash, and one for every
\* picture that needs one, whatever an earlier run remembered of a file of that name.
SettledByJob ==
  thSettled =>
    IF Cardinality(There) = 2 THEN thThumb = ThNone
    ELSE \A e \in There \ thYoung : thFile[e].big => thThumb # ThNone

ThumbsRight == ShowsItsOwn /\ CarriesItsOwn /\ SettledByJob

=============================================================================
