------------------------------ MODULE OnDemand ------------------------------
(***************************************************************************)
(* Files made when they are first asked for: the poster of a video         *)
(* (get_temp_video_poster in app/video.py with make_video_thumb) and the   *)
(* playable film of a motion photo (app/motion_photo.py).  A request looks *)
(* for the kept file, waits its turn for this file, looks again, makes it  *)
(* and puts it in place at once.  Posters are made two at a time, and a    *)
(* request that gets no seat in three seconds gives up.  A video that is   *)
(* uploaded, or collected, gets its poster there and then, from a maker    *)
(* that takes neither the lock nor a seat but works in the same two files  *)
(* beside the poster.                                                      *)
(*                                                                         *)
(* A source has a content, a number, and a time of change, which is older  *)
(* than the content's arrival when the file was moved here.  A source that *)
(* is deleted while it is waited for is left out.                          *)
(***************************************************************************)
EXTENDS Integers, FiniteSets

CONSTANTS
  OdVideo, OdMotion,   \* videos and motion photos
  OdUploaded,          \* videos that come by an upload or a collector
  OdRequest, OdNone,
  OdSeats,             \* _poster_sem
  OdChanges, OdDeaths  \* bounds: sources written over; deaths of the server

ASSUME OdAssumption ==
  /\ OdUploaded \subseteq OdVideo /\ OdVideo \cap OdMotion = {}
  /\ OdSeats \in Nat \ {0} /\ {OdChanges, OdDeaths} \subseteq Nat
  /\ OdNone \notin [is : Nat, time : Nat]

VARIABLES
  odSrc,     \* [is, time] of each source, or OdNone
  odKept,    \* the file made of it: of which content, when, whole; or OdNone
  odReq,     \* what each request is doing, for which source, and the content it has read
  odUpload,  \* the same of the upload of a video
  odFree,    \* seats
  odMixed,   \* sources whose maker is not alone with the files beside the kept one
  odOld,     \* history: written over while the kept file was made, or by an older file
  odNow, odDeaths

OdVars == <<odSrc, odKept, odReq, odUpload, odFree, odMixed, odOld, odNow, odDeaths>>

OdFile == OdVideo \cup OdMotion
OdAway == [at |-> "away", file |-> OdNone, read |-> 0]

OdInit ==
  /\ odSrc = [f \in OdFile |-> IF f \in OdUploaded THEN OdNone ELSE [is |-> 1, time |-> 1]]
  /\ odKept = [f \in OdFile |-> OdNone]
  /\ odReq = [r \in OdRequest |-> OdAway] /\ odUpload = [f \in OdUploaded |-> OdAway]
  /\ odFree = OdSeats /\ odMixed = {} /\ odOld = {} /\ odNow = 1 /\ odDeaths = 0

\* fresh(), and the same comparison in ensure_motion_video
KeptIsFresh_Exists(f) == odKept[f] # OdNone                      \* mutant
KeptIsFresh(f) ==
  odKept[f] # OdNone /\ odSrc[f] # OdNone /\ odKept[f].time >= odSrc[f].time

Making(f) == {r \in OdRequest : odReq[r].at = "making" /\ odReq[r].file = f}
Uploading(f) == f \in OdUploaded /\ odUpload[f].at = "making"
Locked(f) == \E r \in OdRequest : odReq[r].file = f /\ odReq[r].at \in {"locked", "making"}

\* The routes: a source that is not there is not found; a fresh file is sent as it is.
Asks(r) ==
  /\ odReq[r].at = "away"
  /\ \E f \in OdFile :
       /\ odSrc[f] # OdNone /\ ~KeptIsFresh(f)
       /\ odReq' = [odReq EXCEPT ![r] = [at |-> "asked", file |-> f, read |-> 0]]
  /\ UNCHANGED <<odSrc, odKept, odUpload, odFree, odMixed, odOld, odNow, odDeaths>>

\* One lock for each file to be made, from a dictionary with a lock of its own.
LockFor_Anyone(f) == TRUE                                        \* mutant
LockFor(f) == ~Locked(f)

Locks(r) ==
  /\ odReq[r].at = "asked" /\ LockFor(odReq[r].file)
  /\ odReq' = [odReq EXCEPT ![r].at = "locked"]
  /\ UNCHANGED <<odSrc, odKept, odUpload, odFree, odMixed, odOld, odNow, odDeaths>>

\* The second look, under the lock.
LooksAgain_NotNeeded(f) == FALSE                                 \* mutant
LooksAgain(f) == KeptIsFresh(f)

FoundMeanwhile(r) ==
  /\ odReq[r].at = "locked" /\ LooksAgain(odReq[r].file)
  /\ odReq' = [odReq EXCEPT ![r] = OdAway]
  /\ UNCHANGED <<odSrc, odKept, odUpload, odFree, odMixed, odOld, odNow, odDeaths>>

Begins(r) ==
  LET f == odReq[r].file IN
  /\ odReq[r].at = "locked" /\ ~LooksAgain(f)
  /\ f \in OdVideo => odFree > 0
  /\ odFree' = IF f \in OdVideo THEN odFree - 1 ELSE odFree
  /\ odReq' = [odReq EXCEPT ![r].at = "making", ![r].read = odSrc[f].is]
  /\ odMixed' = IF Making(f) # {} \/ Uploading(f) THEN odMixed \cup {f} ELSE odMixed \ {f}
  /\ UNCHANGED <<odSrc, odKept, odUpload, odOld, odNow, odDeaths>>

\* Three seconds without a seat: 503, and the page shows the video without a poster.
NoSeat(r) ==
  /\ odReq[r].at = "locked" /\ ~LooksAgain(odReq[r].file)
  /\ odReq[r].file \in OdVideo /\ odFree = 0
  /\ odReq' = [odReq EXCEPT ![r] = OdAway]
  /\ UNCHANGED <<odSrc, odKept, odUpload, odFree, odMixed, odOld, odNow, odDeaths>>

(***************************************************************************)
(* What a maker puts in place, by os.replace.  Two makers at once write    *)
(* the same frame and the same temporary file: anything may come of it.    *)
(***************************************************************************)
PutsInPlace(f, read) ==
  \E whole \in (IF f \in odMixed THEN BOOLEAN ELSE {TRUE}) :
    /\ odKept' = [odKept EXCEPT ![f] = [of |-> read, time |-> odNow, whole |-> whole]]
    /\ odOld' = IF odSrc[f] # OdNone /\ odSrc[f].is = read THEN odOld \ {f} ELSE odOld \cup {f}

\* The seat is given back in "finally", whatever happened.
SeatsAfter_Success(f, done) ==                                   \* mutant
  IF f \in OdVideo /\ done THEN odFree + 1 ELSE odFree
SeatsAfter(f, done) == IF f \in OdVideo THEN odFree + 1 ELSE odFree

Ends(r, done) ==
  LET f == odReq[r].file IN
  /\ odReq[r].at = "making" /\ odReq' = [odReq EXCEPT ![r] = OdAway]
  /\ odFree' = SeatsAfter(f, done)
  /\ IF done THEN PutsInPlace(f, odReq[r].read) ELSE UNCHANGED <<odKept, odOld>>
  /\ UNCHANGED <<odSrc, odUpload, odMixed, odNow, odDeaths>>

(***************************************************************************)
(* A source is written over, by a newer file or by one that was moved and  *)
(* has kept its time; an uploaded file has a name of its own.              *)
(***************************************************************************)
WrittenOver(f, old) ==
  /\ odNow <= OdChanges /\ odNow' = odNow + 1 /\ odSrc[f] # OdNone
  /\ odSrc' = [odSrc EXCEPT ![f] = [is |-> odNow', time |-> IF old THEN 0 ELSE odNow']]
  /\ odOld' = IF old \/ Making(f) # {} \/ Uploading(f) THEN odOld \cup {f} ELSE odOld \ {f}
  /\ UNCHANGED <<odKept, odReq, odUpload, odFree, odMixed, odDeaths>>

Uploads(f) ==
  /\ odSrc[f] = OdNone
  /\ odSrc' = [odSrc EXCEPT ![f] = [is |-> odNow, time |-> odNow]]
  /\ odUpload' = [odUpload EXCEPT ![f] = [at |-> "saved", file |-> f, read |-> odNow]]
  /\ UNCHANGED <<odKept, odReq, odFree, odMixed, odOld, odNow, odDeaths>>

\* convert_video_file: the length of the video is asked first.
UploadMakes(f) ==
  /\ odUpload[f].at = "saved"
  /\ odUpload' = [odUpload EXCEPT ![f].at = "making", ![f].read = odSrc[f].is]
  /\ odMixed' = IF Making(f) # {} THEN odMixed \cup {f} ELSE odMixed \ {f}
  /\ UNCHANGED <<odSrc, odKept, odReq, odFree, odOld, odNow, odDeaths>>

UploadEnds(f, done) ==
  /\ odUpload[f].at = "making" /\ odUpload' = [odUpload EXCEPT ![f] = OdAway]
  /\ IF done THEN PutsInPlace(f, odUpload[f].read) ELSE UNCHANGED <<odKept, odOld>>
  /\ UNCHANGED <<odSrc, odReq, odFree, odMixed, odNow, odDeaths>>

\* The locks and seats are in memory; what is half made is in files of other names.
ServerDies ==
  /\ odDeaths < OdDeaths /\ odDeaths' = odDeaths + 1
  /\ odReq' = [r \in OdRequest |-> OdAway] /\ odUpload' = [f \in OdUploaded |-> OdAway]
  /\ odFree' = OdSeats
  /\ UNCHANGED <<odSrc, odKept, odMixed, odOld, odNow>>

OdNext ==
  \/ \E r \in OdRequest :
       \/ Asks(r) \/ Locks(r) \/ FoundMeanwhile(r) \/ Begins(r) \/ NoSeat(r)
       \/ \E done \in BOOLEAN : Ends(r, done)
  \/ \E f \in OdUploaded :
       Uploads(f) \/ UploadMakes(f) \/ \E done \in BOOLEAN : UploadEnds(f, done)
  \/ \E f \in OdFile \ OdUploaded, old \in BOOLEAN : WrittenOver(f, old)
  \/ ServerDies

OdSpec == OdInit /\ [][OdNext]_OdVars

----------------------------------------------------------------------------
\* What is put in place is whole, although it is written beside other requests for the same
\* file; only the upload of that video, which takes no lock, can spoil its first poster.
KeptIsWhole ==
  \A f \in OdFile \ OdUploaded : odKept[f] # OdNone => odKept[f].whole

\* What is sent as fresh was made of what the source is now, unless the source was written
\* over while the file was being made, or by a file with an older time.
FreshIsOfTheSource ==
  \A f \in OdFile : KeptIsFresh(f) => odKept[f].of = odSrc[f].is \/ f \in odOld

\* Nobody makes again what another has just made: many requests for a new file run one
\* ffmpeg, one after the other only if it fails.
MadeOnce ==
  \A r \in OdRequest : odReq[r].at = "making" =>
    LET f == odReq[r].file IN f \in odOld \/ f \in OdUploaded \/ ~KeptIsFresh(f)

\* A failure or a timeout costs no seat: the posters never come to a stop for good.
SeatsComeBack ==
  odFree = OdSeats - Cardinality({r \in OdRequest : odReq[r].at = "making" /\ odReq[r].file \in OdVideo})

OnDemandRight == KeptIsWhole /\ FreshIsOfTheSource /\ MadeOnce /\ SeatsComeBack
=============================================================================
