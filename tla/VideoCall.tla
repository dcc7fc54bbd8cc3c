------------------------------ MODULE VideoCall ------------------------------
(***************************************************************************)
(* How the two pages of a video call agree on a connection and find it     *)
(* again (app/static/js/video_call.js): offers and answers over the        *)
(* signalling server, the timers that look whether a connection has come   *)
(* about, and what the page tells its user meanwhile.                      *)
(*                                                                         *)
(* The handlers are asynchronous: one waits for the browser between        *)
(* creating an offer or an answer and setting it, and others run then.     *)
(* Which of two offers an answer belongs to is told by the number of the   *)
(* offer; the browser connects two pages that settled on the same one.     *)
(* Camera, microphone, recording and layout are left out.                  *)
(***************************************************************************)
EXTENDS Integers, FiniteSets, Sequences

CONSTANTS
  VcPeer,                   \* the two pages
  MAX_NEGOTIATION_RETRY,
  VcOffers, VcFaults        \* bounds: offers; pages closed, losses of the network, freezes

ASSUME VcAssumption ==
  /\ Cardinality(VcPeer) = 2 /\ {MAX_NEGOTIATION_RETRY, VcOffers, VcFaults} \subseteq Nat

VARIABLES
  vcHere,      \* the page is open
  vcSig,       \* signalingState: "stable", "offered" (have-local-offer), "asked"
  vcOffer,     \* the offer it has made or answered last; 0 none
  vcAgreed,    \* the offer it believes agreed on; 0 none
  vcConn,      \* connectionState: "new", "connected", "lost"
  vcIn,        \* messages on their way to it
  vcDoing,     \* handlers that wait for the browser: "offer", "restart", "answer"
  vcTimers,    \* "watchdog", "ice", "stable" (retryOfferWhenStable), "late" (an answer)
  vcLate,      \* the answer put aside for a later state
  vcRetries,   \* negotiationRetryCount
  vcOnce,      \* hasConnectedOnce
  vcFrozen,    \* peerFaceFrozen
  vcStatus,    \* what the page says: "none", "waiting", "trying", "gone"
  vcNet,       \* the network between the two works
  vcMade,      \* offers made
  vcFaults

vcBook   == <<vcSig, vcOffer, vcAgreed, vcConn>>
vcWork   == <<vcDoing, vcTimers, vcLate>>
vcScreen == <<vcRetries, vcOnce, vcFrozen, vcStatus>>
VcVars   == <<vcHere, vcBook, vcIn, vcWork, vcScreen, vcNet, vcMade, vcFaults>>

Other(p) == CHOOSE q \in VcPeer : q # p
For(p, f, v) == [f EXCEPT ![p] = v]

VcInit ==
  /\ vcHere = [p \in VcPeer |-> FALSE] /\ vcSig = [p \in VcPeer |-> "stable"]
  /\ vcOffer = [p \in VcPeer |-> 0] /\ vcAgreed = [p \in VcPeer |-> 0]
  /\ vcConn = [p \in VcPeer |-> "new"] /\ vcIn = [p \in VcPeer |-> <<>>]
  /\ vcDoing = [p \in VcPeer |-> {}] /\ vcTimers = [p \in VcPeer |-> {}]
  /\ vcLate = [p \in VcPeer |-> 0]
  /\ vcRetries = [p \in VcPeer |-> 0] /\ vcOnce = [p \in VcPeer |-> FALSE]
  /\ vcFrozen = [p \in VcPeer |-> FALSE] /\ vcStatus = [p \in VcPeer |-> "waiting"]
  /\ vcNet = TRUE /\ vcMade = 0 /\ vcFaults = 0

Send(p, message) ==
  IF vcHere[Other(p)] THEN [vcIn EXCEPT ![Other(p)] = Append(@, message)] ELSE vcIn
Take(p) == [vcIn EXCEPT ![p] = Tail(@)]
Heading(p, kind) == vcIn[p] # <<>> /\ Head(vcIn[p]).kind = kind
Msg(kind, n) == [kind |-> kind, offer |-> n]

(***************************************************************************)
(* The page opens and joins the room (the server tells the other page), or *)
(* is closed; the socket comes back and the page joins again.              *)
(***************************************************************************)
Join(p) ==
  /\ ~vcHere[p] /\ vcHere' = For(p, vcHere, TRUE)
  /\ vcIn' = Send(p, Msg("welcome", 0))
  /\ UNCHANGED <<vcBook, vcWork, vcScreen, vcNet, vcMade, vcFaults>>

JoinAgain(p) ==
  /\ vcHere[p] /\ vcFaults < VcFaults /\ vcFaults' = vcFaults + 1
  /\ vcIn' = Send(p, Msg("welcome", 0))
  /\ UNCHANGED <<vcHere, vcBook, vcWork, vcScreen, vcNet, vcMade>>

Leave(p) ==
  /\ vcHere[p] /\ vcFaults < VcFaults /\ vcFaults' = vcFaults + 1
  /\ vcHere' = For(p, vcHere, FALSE) /\ vcIn' = For(p, vcIn, <<>>)
  /\ vcSig' = For(p, vcSig, "stable") /\ vcOffer' = For(p, vcOffer, 0)
  /\ vcAgreed' = For(p, vcAgreed, 0) /\ vcConn' = For(p, vcConn, "new")
  /\ vcDoing' = For(p, vcDoing, {}) /\ vcTimers' = For(p, vcTimers, {})
  /\ vcLate' = For(p, vcLate, 0) /\ vcRetries' = For(p, vcRetries, 0)
  /\ vcOnce' = For(p, vcOnce, FALSE) /\ vcFrozen' = For(p, vcFrozen, FALSE)
  /\ vcStatus' = For(p, vcStatus, "waiting")
  /\ UNCHANGED <<vcNet, vcMade>>

(***************************************************************************)
(* tryRestartNegotiation                                                   *)
(***************************************************************************)
\* timers is the set of timers that are left
TryRestart(p, timers) ==
  /\ vcTimers' = For(p, vcTimers, timers)
  /\ IF "restart" \in vcDoing[p] THEN UNCHANGED <<vcRetries, vcStatus, vcDoing>>
     ELSE IF vcRetries[p] >= MAX_NEGOTIATION_RETRY
     THEN /\ vcStatus' = For(p, vcStatus, IF vcOnce[p] THEN "gone" ELSE "waiting")
          /\ UNCHANGED <<vcRetries, vcDoing>>
     ELSE /\ vcRetries' = For(p, vcRetries, vcRetries[p] + 1)
          /\ vcDoing' = For(p, vcDoing, vcDoing[p] \cup {"restart"})
          /\ vcStatus' = For(p, vcStatus, IF vcRetries[p] = 0 THEN "trying" ELSE "waiting")

(***************************************************************************)
(* The messages.                                                           *)
(***************************************************************************)
\* welcome, of a page whose media flow: ignored, unless the picture stands still
WelcomeConnected(p) ==
  /\ Heading(p, "welcome") /\ vcConn[p] = "connected" /\ vcIn' = Take(p)
  /\ IF vcFrozen[p] THEN TryRestart(p, vcTimers[p])
     ELSE UNCHANGED <<vcRetries, vcStatus, vcDoing, vcTimers>>
  /\ UNCHANGED <<vcHere, vcBook, vcLate, vcOnce, vcFrozen, vcNet, vcMade, vcFaults>>

\* A connection that is dead is made anew; an offer follows, at once or when the state
\* is stable again.
Welcome(p) ==
  LET dead == vcConn[p] = "lost"
      sig  == IF dead THEN "stable" ELSE vcSig[p]
      left == IF dead THEN vcTimers[p] \ {"watchdog", "ice"} ELSE vcTimers[p] IN
  /\ Heading(p, "welcome") /\ vcConn[p] # "connected" /\ vcIn' = Take(p)
  /\ vcStatus' = For(p, vcStatus, "trying") /\ vcRetries' = For(p, vcRetries, 0)
  /\ vcSig' = For(p, vcSig, sig)
  /\ vcConn' = For(p, vcConn, "new")
  /\ vcAgreed' = IF dead THEN For(p, vcAgreed, 0) ELSE vcAgreed
  /\ IF sig = "stable"
     THEN vcDoing' = For(p, vcDoing, vcDoing[p] \cup {"offer"}) /\ vcTimers' = For(p, vcTimers, left)
     ELSE vcTimers' = For(p, vcTimers, left \cup {"stable"}) /\ UNCHANGED vcDoing
  /\ UNCHANGED <<vcHere, vcOffer, vcLate, vcOnce, vcFrozen, vcNet, vcMade, vcFaults>>

\* sendOffer, restartNegotiation: the browser has the offer.  A page that has taken
\* over the other's offer meanwhile cannot set its own.
OfferReady_NoWatch(p, kind) ==                                   \* mutant
  /\ kind \in vcDoing[p] /\ vcDoing' = For(p, vcDoing, vcDoing[p] \ {kind})
  /\ IF vcSig[p] = "asked" THEN UNCHANGED <<vcSig, vcOffer, vcIn, vcTimers, vcMade>>
     ELSE /\ vcMade < VcOffers /\ vcMade' = vcMade + 1
          /\ vcSig' = For(p, vcSig, "offered") /\ vcOffer' = For(p, vcOffer, vcMade')
          /\ vcIn' = Send(p, Msg("offer", vcMade'))
          /\ vcTimers' = For(p, vcTimers, IF kind = "offer" THEN vcTimers[p] \cup {"watchdog"}
                                           ELSE vcTimers[p])
  /\ UNCHANGED <<vcHere, vcAgreed, vcConn, vcLate, vcScreen, vcNet, vcFaults>>
OfferReady(p, kind) ==
  /\ kind \in vcDoing[p] /\ vcDoing' = For(p, vcDoing, vcDoing[p] \ {kind})
  /\ IF vcSig[p] = "asked" THEN UNCHANGED <<vcSig, vcOffer, vcIn, vcTimers, vcMade>>
     ELSE /\ vcMade < VcOffers /\ vcMade' = vcMade + 1
          /\ vcSig' = For(p, vcSig, "offered") /\ vcOffer' = For(p, vcOffer, vcMade')
          /\ vcIn' = Send(p, Msg("offer", vcMade'))
          /\ vcTimers' = For(p, vcTimers, vcTimers[p] \cup {"watchdog"})
  /\ UNCHANGED <<vcHere, vcAgreed, vcConn, vcLate, vcScreen, vcNet, vcFaults>>

\* offer: the browser takes its own offer back for it
Offered(p) ==
  /\ Heading(p, "offer") /\ vcIn' = Take(p)
  /\ vcSig' = For(p, vcSig, "asked") /\ vcOffer' = For(p, vcOffer, Head(vcIn[p]).offer)
  /\ vcDoing' = For(p, vcDoing, vcDoing[p] \cup {"answer"})
  /\ vcStatus' = IF vcConn[p] = "connected" THEN vcStatus ELSE For(p, vcStatus, "trying")
  /\ UNCHANGED <<vcHere, vcAgreed, vcConn, vcTimers, vcLate, vcRetries, vcOnce, vcFrozen, vcNet,
                 vcMade, vcFaults>>

\* the browser has the answer; the state is stable again, for an offer that waits too
AnswerReady(p) ==
  /\ "answer" \in vcDoing[p] /\ vcSig[p] = "asked"
  /\ vcSig' = For(p, vcSig, "stable") /\ vcAgreed' = For(p, vcAgreed, vcOffer[p])
  /\ vcIn' = Send(p, Msg("answer", vcOffer[p]))
  /\ vcDoing' = For(p, vcDoing, (vcDoing[p] \ {"answer"}) \cup
                                IF "stable" \in vcTimers[p] THEN {"offer"} ELSE {})
  /\ vcTimers' = For(p, vcTimers, (vcTimers[p] \ {"stable"}) \cup {"watchdog"})
  /\ UNCHANGED <<vcHere, vcOffer, vcConn, vcLate, vcScreen, vcNet, vcMade, vcFaults>>

\* answer, to the offer that is out, or to another one: the page cannot tell
Applied(p, n) ==
  /\ vcSig' = For(p, vcSig, "stable") /\ vcAgreed' = For(p, vcAgreed, n)
  /\ vcDoing' = For(p, vcDoing, vcDoing[p] \cup IF "stable" \in vcTimers[p] THEN {"offer"} ELSE {})

Answered(p) ==
  /\ Heading(p, "answer") /\ vcIn' = Take(p)
  /\ IF vcSig[p] = "offered"
     THEN /\ Applied(p, Head(vcIn[p]).offer)
          /\ vcTimers' = For(p, vcTimers, vcTimers[p] \ {"stable"}) /\ UNCHANGED vcLate
     ELSE /\ vcTimers' = For(p, vcTimers, vcTimers[p] \cup {"late"})
          /\ vcLate' = For(p, vcLate, Head(vcIn[p]).offer)
          /\ UNCHANGED <<vcSig, vcAgreed, vcDoing>>
  /\ UNCHANGED <<vcHere, vcOffer, vcConn, vcScreen, vcNet, vcMade, vcFaults>>

\* an answer put aside finds the page with an offer out
LateAnswer(p) ==
  /\ "late" \in vcTimers[p] /\ vcSig[p] = "offered"
  /\ Applied(p, vcLate[p])
  /\ vcLate' = For(p, vcLate, 0) /\ vcTimers' = For(p, vcTimers, vcTimers[p] \ {"late", "stable"})
  /\ UNCHANGED <<vcHere, vcOffer, vcConn, vcIn, vcScreen, vcNet, vcMade, vcFaults>>

(***************************************************************************)
(* The browser.                                                            *)
(***************************************************************************)
CanConnect(p) ==
  /\ vcNet /\ vcHere[p] /\ vcHere[Other(p)]
  /\ vcAgreed[p] # 0 /\ vcAgreed[p] = vcAgreed[Other(p)]

Connected(p) ==
  /\ CanConnect(p) /\ vcConn[p] # "connected"
  /\ vcConn' = For(p, vcConn, "connected")
  /\ vcTimers' = For(p, vcTimers, vcTimers[p] \ {"watchdog", "ice"})
  /\ vcRetries' = For(p, vcRetries, 0) /\ vcOnce' = For(p, vcOnce, TRUE)
  /\ vcStatus' = For(p, vcStatus, "none")
  /\ UNCHANGED <<vcHere, vcSig, vcOffer, vcAgreed, vcIn, vcDoing, vcLate, vcFrozen, vcNet,
                 vcMade, vcFaults>>

\* disconnected
Lost(p) ==
  /\ vcConn[p] = "connected" /\ ~CanConnect(p)
  /\ vcConn' = For(p, vcConn, "lost") /\ vcTimers' = For(p, vcTimers, vcTimers[p] \cup {"ice"})
  /\ UNCHANGED <<vcHere, vcSig, vcOffer, vcAgreed, vcIn, vcDoing, vcLate, vcScreen, vcNet,
                 vcMade, vcFaults>>

\* failed
Failed(p) ==
  /\ vcHere[p] /\ vcAgreed[p] # 0 /\ ~CanConnect(p) /\ vcConn' = For(p, vcConn, "lost")
  /\ vcConn[p] # "lost" \/ "ice" \in vcTimers[p]
  /\ TryRestart(p, vcTimers[p] \ {"ice"})
  /\ UNCHANGED <<vcHere, vcSig, vcOffer, vcAgreed, vcIn, vcLate, vcOnce, vcFrozen, vcNet,
                 vcMade, vcFaults>>

\* The other page shows no new picture, or does again.
Freeze(p) ==
  /\ vcConn[p] = "connected" /\ ~vcFrozen[p] /\ vcFaults < VcFaults /\ vcFaults' = vcFaults + 1
  /\ vcFrozen' = For(p, vcFrozen, TRUE) /\ vcStatus' = For(p, vcStatus, "waiting")
  /\ UNCHANGED <<vcHere, vcBook, vcIn, vcWork, vcRetries, vcOnce, vcNet, vcMade>>

Thaw(p) ==
  /\ vcFrozen[p] /\ vcConn[p] = "connected"
  /\ vcFrozen' = For(p, vcFrozen, FALSE) /\ vcStatus' = For(p, vcStatus, "none")
  /\ UNCHANGED <<vcHere, vcBook, vcIn, vcWork, vcRetries, vcOnce, vcNet, vcMade, vcFaults>>

NetChange ==
  /\ vcNet => vcFaults < VcFaults
  /\ vcFaults' = IF vcNet THEN vcFaults + 1 ELSE vcFaults
  /\ vcNet' = ~vcNet
  /\ UNCHANGED <<vcHere, vcBook, vcIn, vcWork, vcScreen, vcMade>>

\* the online event
Online(p) ==
  /\ vcNet /\ vcHere[p] /\ vcConn[p] = "lost" /\ "ice" \in vcTimers[p]
  /\ TryRestart(p, vcTimers[p] \ {"ice"})
  /\ UNCHANGED <<vcHere, vcBook, vcIn, vcLate, vcOnce, vcFrozen, vcNet, vcMade, vcFaults>>

(***************************************************************************)
(* The timers.                                                             *)
(***************************************************************************)
\* armConnectWatchdog: nothing, when the connection is there or about to be
Watchdog(p) ==
  /\ "watchdog" \in vcTimers[p]
  /\ IF vcConn[p] = "connected" \/ CanConnect(p)
     THEN /\ vcTimers' = For(p, vcTimers, vcTimers[p] \ {"watchdog"})
          /\ UNCHANGED <<vcRetries, vcStatus, vcDoing>>
     ELSE TryRestart(p, vcTimers[p] \ {"watchdog"})
  /\ UNCHANGED <<vcHere, vcBook, vcIn, vcLate, vcOnce, vcFrozen, vcNet, vcMade, vcFaults>>

IceTimer(p) ==
  /\ "ice" \in vcTimers[p] /\ vcConn[p] = "lost" /\ TryRestart(p, vcTimers[p] \ {"ice"})
  /\ UNCHANGED <<vcHere, vcBook, vcIn, vcLate, vcOnce, vcFrozen, vcNet, vcMade, vcFaults>>

\* NEGOTIATION_WAIT_MS is over, for an offer or an answer that waits
WaitOver(p, timer) ==
  /\ timer \in {"stable", "late"} /\ timer \in vcTimers[p]
  /\ TryRestart(p, vcTimers[p] \ {timer})
  /\ vcLate' = IF timer = "late" THEN For(p, vcLate, 0) ELSE vcLate
  /\ UNCHANGED <<vcHere, vcBook, vcIn, vcOnce, vcFrozen, vcNet, vcMade, vcFaults>>

VcNext ==
  \/ NetChange
  \/ \E p \in VcPeer :
       \/ Join(p) \/ JoinAgain(p) \/ Leave(p)
       \/ WelcomeConnected(p) \/ Welcome(p) \/ Offered(p) \/ Answered(p) \/ LateAnswer(p)
       \/ \E kind \in {"offer", "restart"} : OfferReady(p, kind)
       \/ AnswerReady(p) \/ Connected(p) \/ Lost(p) \/ Failed(p) \/ Freeze(p) \/ Thaw(p)
       \/ Online(p) \/ Watchdog(p) \/ IceTimer(p)
       \/ \E timer \in vcTimers[p] : WaitOver(p, timer)

VcSpec == VcInit /\ [][VcNext]_VcVars

(***************************************************************************)
(* Properties.                                                             *)
(***************************************************************************)
\* "The display stuck for ever": a page only tells its user that it is connecting when
\* something will come to end that: a timer, a handler that waits, a message, or the
\* browser, which either connects the two or gives up.  A frozen picture is excepted:
\* a page that had tried to restart a connection that was there keeps saying so until
\* the picture moves.
TryingComesToAnEnd ==
  \A p \in VcPeer : vcStatus[p] = "trying" =>
    \/ vcTimers[p] # {} \/ vcDoing[p] # {} \/ vcIn[p] # <<>> \/ vcAgreed[p] # 0
    \/ vcFrozen[p]
=============================================================================
