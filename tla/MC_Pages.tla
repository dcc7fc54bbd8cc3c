------------------------------ MODULE MC_Pages ------------------------------
(***************************************************************************)
(* One run for the pages of the browser with the routes they call, and for *)
(* the collectors and thumbnails that fill them: a behaviour is one of the *)
(* page that `part` names, with the others at rest.                        *)
(***************************************************************************)
EXTENDS AudioPage, Chat, VideoCall, Player, ImageViewer, Curate, Thumbs,
  OnDemand, GalleryLists, Boards, Scrape, Gallery

VARIABLE part

parts == {"audio", "chat", "state", "call", "player", "hearts", "viewer", "curate",
          "thumbs", "ondemand", "lists", "boards", "scrape", "gallery"}

Init_Pages ==
  /\ part \in parts
  /\ part # "audio"  => apStage = [j \in ApJob |-> "queued"]
  /\ part # "player" => plMobile = FALSE
  /\ part # "lists"  => lsDir = "image"
  /\ part # "boards" => bdKind = "ai"
  /\ ApInit /\ ChInit /\ CsInit /\ VcInit /\ PlInit /\ LkInit /\ IvInit /\ CuInit
  /\ ThInit /\ OdInit /\ LsInit /\ BdInit /\ ScInit /\ GlInit

Others(p) ==
  /\ p # "audio"    => UNCHANGED ApVars
  /\ p # "chat"     => UNCHANGED ChVars
  /\ p # "state"    => UNCHANGED CsVars
  /\ p # "call"     => UNCHANGED VcVars
  /\ p # "player"   => UNCHANGED PlVars
  /\ p # "hearts"   => UNCHANGED LkVars
  /\ p # "viewer"   => UNCHANGED IvVars
  /\ p # "curate"   => UNCHANGED CuVars
  /\ p # "thumbs"   => UNCHANGED ThVars
  /\ p # "ondemand" => UNCHANGED OdVars
  /\ p # "lists"    => UNCHANGED LsVars
  /\ p # "boards"   => UNCHANGED BdVars
  /\ p # "scrape"   => UNCHANGED ScVars
  /\ p # "gallery"  => UNCHANGED GlVars

Next_Pages ==
  /\ UNCHANGED part /\ Others(part)
  /\ \/ part = "audio"    /\ ApNext
     \/ part = "chat"     /\ ChNext
     \/ part = "state"    /\ CsNext
     \/ part = "call"     /\ VcNext
     \/ part = "player"   /\ PlNext
     \/ part = "hearts"   /\ LkNext
     \/ part = "viewer"   /\ IvNext
     \/ part = "curate"   /\ CuNext
     \/ part = "thumbs"   /\ ThNext
     \/ part = "ondemand" /\ OdNext
     \/ part = "lists"    /\ LsNext
     \/ part = "boards"   /\ BdNext
     \/ part = "scrape"   /\ ScNext
     \/ part = "gallery"  /\ GlNext

Spec_Pages ==
  Init_Pages /\ [][Next_Pages]_<<part, ApVars, ChVars, CsVars, VcVars, PlVars, LkVars, IvVars, CuVars, ThVars,
        OdVars, LsVars, BdVars, ScVars, GlVars>>

\* The address of post 2 is the beginning of that of post 4.
BdPrefixes == {<<2, 4>>}

\* One video in a folder of its own, one in "like" that nobody knows the origin of.
LkFolders == [v \in LkVideo |-> IF v = "v1" THEN "sub" ELSE "like"]

\* What the pages of the chat keep: a search loses no message, and a change of the state
\* is written in the end.
ChatRight == NothingLostBySearching /\ ChangeWillBeWritten

\* What the collected pages and files keep: no post is passed over, and a restored
\* picture is its own.
CollectedRight == NeverPassedOver /\ OriginalIsItsOwn

\* What is shown of the pictures and videos: the viewer, the curation, the thumbnails and the
\* posters show the picture they stand for.
PicturesRight == ViewerRight /\ CurateRight /\ ThumbsRight /\ OnDemandRight

\* Whatever is moved, restored or deleted: the lists the galleries are leafed through by are
\* those of the directories, and a video keeps its heart, its offset and its place.
GalleriesRight == ListsRight /\ LikesRight
=============================================================================
