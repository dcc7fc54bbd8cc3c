------------------------------ MODULE Gallery ------------------------------
(***************************************************************************)
(* The picture galleries (app/image.py) and the sorting page over one of   *)
(* them (app/image_curate.py): pictures are moved from gallery to gallery, *)
(* cropped in place and given back, and what belongs to a cropped picture, *)
(* its original in origin/ and its frame in the crop history, has to go    *)
(* with it.  Files are found by name only, so the model has one file name  *)
(* that several pictures carry: one that arrives replaces what was there.  *)
(*                                                                         *)
(* One request is one step: the moments in which two requests about one    *)
(* name overlap are left out.  A deletion is a job of its own.             *)
(***************************************************************************)
EXTENDS Integers, FiniteSets

CONSTANTS
  GlPicture,       \* pictures that have the same file name
  GlNone,
  GlCrops          \* bound: crops

VARIABLES
  glOutside,   \* pictures still in the galleries they were collected in
  glFile,      \* the file of each place: its picture and its crop, 0 when it is as it came
  glBackup,    \* the picture whose original is in origin/ of each place
  glOrphans,   \* the originals put aside in origin/_orphan
  glHist,      \* _crop_history: whose frame, and the crop that it made
  glDelete,    \* deletions that are asked for and not done
  glMade       \* crops made

GlVars == <<glOutside, glFile, glBackup, glOrphans, glHist, glDelete, glMade>>

CropDirs == {"move", "refine"}                         \* CROP_DIRS
GlPlace  == CropDirs \cup {"review", "archive"}        \* refine/_review, refine/_archive

ASSUME GlAssumption == GlCrops \in Nat /\ GlNone \notin GlPicture \cup GlPlace

Put(f, p, v) == [f EXCEPT ![p] = v]

GlInit ==
  /\ glOutside = GlPicture
  /\ glFile = [p \in GlPlace |-> GlNone] /\ glBackup = [p \in GlPlace |-> GlNone]
  /\ glHist = [p \in GlPlace |-> GlNone]
  /\ glOrphans = {} /\ glDelete = {} /\ glMade = 0

(***************************************************************************)
(* _carry_crop_origin: the original and the frame go with the file; what   *)
(* an earlier file of that name left is put aside, and its frame dropped.  *)
(***************************************************************************)
Carry_Leaves(src, dst) ==                                        \* mutant
  /\ glBackup' = IF src # GlNone /\ glBackup[src] # GlNone
                 THEN [glBackup EXCEPT ![dst] = glBackup[src], ![src] = GlNone] ELSE glBackup
  /\ UNCHANGED glOrphans
  /\ glHist' = IF src = GlNone THEN Put(glHist, dst, GlNone)
               ELSE [glHist EXCEPT ![dst] = glHist[src], ![src] = GlNone]
Carry(src, dst) ==
  LET own == src # GlNone /\ glBackup[src] # GlNone IN
  /\ glBackup' = IF own THEN [glBackup EXCEPT ![dst] = glBackup[src], ![src] = GlNone]
                 ELSE Put(glBackup, dst, GlNone)
  /\ glOrphans' = IF own THEN glOrphans ELSE glOrphans \cup ({glBackup[dst]} \ {GlNone})
  /\ glHist' = IF src = GlNone THEN Put(glHist, dst, GlNone)
               ELSE [glHist EXCEPT ![dst] = glHist[src], ![src] = GlNone]

\* move_image_core, of a picture that was collected, by a click or for the screening of
\* image2: into the gallery "move", over a file of the same name
Collect(x) ==
  /\ x \in glOutside /\ glOutside' = glOutside \ {x}
  /\ glFile' = Put(glFile, "move", [pic |-> x, crop |-> 0])
  /\ Carry(GlNone, "move")
  /\ UNCHANGED <<glDelete, glMade>>

\* move_image_core, between the galleries
MoveImageCore(src) ==
  LET dst == IF src = "move" THEN "refine" ELSE "move" IN
  /\ src \in CropDirs /\ glFile[src] # GlNone
  /\ glFile' = [glFile EXCEPT ![dst] = glFile[src], ![src] = GlNone]
  /\ Carry(src, dst)
  /\ UNCHANGED <<glOutside, glDelete, glMade>>

\* _move_one of the sorting page: never over a file that is there
MoveSorted(src, dst) ==
  /\ <<src, dst>> \in {<<"refine", "review">>, <<"review", "refine">>, <<"archive", "refine">>,
                       <<"review", "archive">>}
  /\ glFile[src] # GlNone /\ glFile[dst] = GlNone
  /\ glFile' = [glFile EXCEPT ![dst] = glFile[src], ![src] = GlNone]
  /\ Carry(src, dst)
  /\ UNCHANGED <<glOutside, glDelete, glMade>>

\* _purge_one: the file and its original leave the galleries together
Purge ==
  /\ glFile["review"] # GlNone
  /\ glFile' = Put(glFile, "review", GlNone) /\ glBackup' = Put(glBackup, "review", GlNone)
  /\ glHist' = Put(glHist, "review", GlNone)
  /\ UNCHANGED <<glOutside, glOrphans, glDelete, glMade>>

\* delete_images: a job will do it; delete_images_task: the file goes, its original and its
\* frame stay
AskDelete(p) ==
  /\ p \in CropDirs /\ glFile[p] # GlNone /\ p \notin glDelete /\ glDelete' = glDelete \cup {p}
  /\ UNCHANGED <<glOutside, glFile, glBackup, glOrphans, glHist, glMade>>

Delete(p) ==
  /\ p \in glDelete /\ glDelete' = glDelete \ {p}
  /\ glFile' = Put(glFile, p, GlNone)
  /\ UNCHANGED <<glOutside, glBackup, glOrphans, glHist, glMade>>

(***************************************************************************)
(* The crop editor.                                                        *)
(***************************************************************************)
\* _adopt_moved_history: a frame left under the other gallery, when no file is there
Adopted(p) ==
  LET other == IF p = "refine" THEN "move" ELSE "refine" IN
  IF glHist[p] = GlNone /\ glHist[other] # GlNone /\ glFile[other] = GlNone
  THEN [glHist EXCEPT ![p] = glHist[other], ![other] = GlNone] ELSE glHist

\* _origin_box: the new frame in the coordinates of the first original; a second crop goes
\* by the frame of the first, which must have made a picture of this size
Frame(p, hist, n) ==
  IF glBackup[p] = GlNone THEN {[pic |-> glFile[p].pic, crop |-> n]}
  ELSE IF hist[p] = GlNone THEN {GlNone}
  ELSE {[pic |-> hist[p].pic, crop |-> n]} \cup
       IF hist[p].crop = glFile[p].crop THEN {} ELSE {GlNone}

\* crop_image: the original is kept once; the file is busy, or is replaced
CropBackup(p) == IF glBackup[p] = GlNone THEN Put(glBackup, p, glFile[p]) ELSE glBackup

Crop(p) ==
  /\ p \in CropDirs /\ glFile[p] # GlNone /\ glMade < GlCrops
  /\ glMade' = glMade + 1 /\ glBackup' = CropBackup(p)
  /\ \/ UNCHANGED <<glFile, glHist>>
     \/ /\ glFile' = Put(glFile, p, [pic |-> glFile[p].pic, crop |-> glMade'])
        /\ \E frame \in Frame(p, Adopted(p), glMade') : glHist' = Put(Adopted(p), p, frame)
  /\ UNCHANGED <<glOutside, glOrphans, glDelete>>

\* crop_restore, for a file the page shows
RestoreCrop(p) ==
  /\ p \in CropDirs /\ glFile[p] # GlNone /\ glBackup[p] # GlNone
  /\ glFile' = Put(glFile, p, glBackup[p]) /\ glBackup' = Put(glBackup, p, GlNone)
  /\ glHist' = Put(Adopted(p), p, GlNone)
  /\ UNCHANGED <<glOutside, glOrphans, glDelete, glMade>>

GlNext ==
  \/ \E x \in GlPicture : Collect(x)
  \/ \E p \in GlPlace : MoveImageCore(p) \/ AskDelete(p) \/ Delete(p) \/ Crop(p) \/ RestoreCrop(p)
  \/ \E src, dst \in GlPlace : MoveSorted(src, dst)
  \/ Purge

GlSpec == GlInit /\ [][GlNext]_GlVars

(***************************************************************************)
(* Properties.                                                             *)
(***************************************************************************)
\* "Gives back an unrelated picture": whatever was deleted, moved or replaced under a name,
\* an original that restoring a file would bring back is the untouched picture it was made
\* from, and a file that was cropped has one.
OriginalIsItsOwn ==
  \A p \in GlPlace : glFile[p] # GlNone =>
    /\ glBackup[p] # GlNone => glBackup[p] = [pic |-> glFile[p].pic, crop |-> 0]
    /\ glFile[p].crop # 0 => glBackup[p] # GlNone
=============================================================================
