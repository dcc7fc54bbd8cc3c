--------------------------------- MODULE Chat ---------------------------------
(***************************************************************************)
(* The chat: the rows of the page, and what the server remembers of who    *)
(* has read how far.                                                       *)
(***************************************************************************)
EXTENDS Integers, FiniteSets, Sequences

(***************************************************************************)
(* The rows of the chat page (app/static/js/chat/chat.js, chat_search.js): *)
(* the newest page of messages, older pages loaded by their distance from  *)
(* the newest, messages the socket brings, the messages missed while the   *)
(* page was hidden; and the search, which puts a window of messages around *)
(* a hit in the place of the rows, extends and trims the window while the  *)
(* user scrolls, and gives way to the ordinary page at the newest message. *)
(*                                                                         *)
(* Messages are numbered as the database numbers them.  A request is       *)
(* answered (Serve) and its answer arrives later (an Arrives action).      *)
(***************************************************************************)
CONSTANTS
  ChStored,                 \* messages there are when the page opens
  MAX_FETCH_MESSAGE_SIZE,   \* a page
  AROUND, LOAD, MAX_ROWS,   \* WIN: context of a hit, a step, the longest window
  ChHits,                   \* the messages the search finds
  ChMessages, ChCalls       \* bounds: messages, requests under way

ASSUME ChAssumption ==
  /\ {ChStored, MAX_FETCH_MESSAGE_SIZE, AROUND, LOAD, MAX_ROWS, ChMessages, ChCalls}
       \subseteq Nat \ {0}
  /\ ChStored <= ChMessages /\ ChHits \subseteq 1..ChStored /\ 2 * AROUND + 1 <= MAX_ROWS

VARIABLES
  chNewest,      \* the messages in the database are 1..chNewest
  chWire,        \* the first message the socket has not brought yet
  chRows,        \* the rows, from the top
  chLast,        \* lastChatId
  chOffset, chLoading,               \* offset, loading
  chOn, chOlder, chNewer, chBusy,    \* win.on, win.hasOlder, win.hasNewer, win.busy
  chPending,     \* __chatPendingNew
  chCalls,       \* requests under way: [kind, at, got]
  \* what the properties remember
  chSeen,        \* messages that have reached the page
  chAstray       \* the rows were replaced under a request, or fetching the newest messages failed

chWindow == <<chOn, chOlder, chNewer, chBusy, chPending>>
ChVars   == <<chNewest, chWire, chRows, chLast, chOffset, chLoading, chWindow, chCalls,
              chSeen, chAstray>>

NotYet == <<0>>
Call(kind, at) == [kind |-> kind, at |-> at, got |-> NotYet]
Under(kinds)   == {c \in chCalls : c.kind \in kinds}
MayCall        == Cardinality(chCalls) < ChCalls

ChInit ==
  /\ chNewest = ChStored /\ chWire = ChStored + 1
  /\ chRows = <<>> /\ chLast = 0 /\ chOffset = 0 /\ chLoading = FALSE
  /\ chOn = FALSE /\ chOlder = FALSE /\ chNewer = FALSE /\ chBusy = FALSE /\ chPending = FALSE
  /\ chCalls = {Call("more", 0)}                                   \* initPage
  /\ chSeen = {} /\ chAstray = FALSE

RowsSet == {chRows[i] : i \in DOMAIN chRows}
Larger(m, n) == IF m < n THEN n ELSE m
Upto(from, to) == [i \in 1 .. Larger(0, to - from + 1) |-> from + i - 1]
IdsOf(rows) == {rows[i] : i \in DOMAIN rows}

(***************************************************************************)
(* addMessage: a page has its messages in order                            *)
(***************************************************************************)
LastWith(page) == IF page = <<>> THEN chLast ELSE Larger(page[Len(page)], chLast)

\* a page on top of the rows
PutOnTop(page) ==
  /\ chRows' = page \o chRows
  /\ chLast' = LastWith(page)
  /\ chSeen' = chSeen \cup IdsOf(page)

\* Messages below the rows; in the search they are only noted.
PutBelow_Dropped(page) ==                                        \* mutant
  IF page = <<>> THEN UNCHANGED <<chRows, chLast, chSeen, chPending>>
  ELSE IF chOn THEN chSeen' = chSeen \cup IdsOf(page) /\ UNCHANGED <<chRows, chLast, chPending>>
  ELSE /\ chRows' = chRows \o page /\ chLast' = LastWith(page)
       /\ chSeen' = chSeen \cup IdsOf(page) /\ UNCHANGED chPending
PutBelow(page) ==
  /\ chSeen' = chSeen \cup IdsOf(page)
  /\ IF chOn /\ page # <<>> THEN chPending' = TRUE /\ UNCHANGED <<chRows, chLast>>
     ELSE /\ chRows' = chRows \o page /\ chLast' = LastWith(page)
          /\ UNCHANGED chPending

(***************************************************************************)
(* The server, and the relay of the socket.                                *)
(***************************************************************************)
\* save_chat_message
Said ==
  /\ chNewest < ChMessages /\ chNewest' = chNewest + 1
  /\ UNCHANGED <<chWire, chRows, chLast, chOffset, chLoading, chWindow, chCalls, chSeen, chAstray>>

\* new_msg: the relay keeps the order; a message older than one that is there counts as known
Delivered ==
  /\ chWire <= chNewest /\ chWire' = chWire + 1
  /\ IF chLast < chWire THEN PutBelow(<<chWire>>) ELSE UNCHANGED <<chRows, chLast, chPending, chSeen>>
  /\ UNCHANGED <<chNewest, chOffset, chLoading, chOn, chOlder, chNewer, chBusy, chCalls, chAstray>>

\* the socket is down while the message is relayed
Missed ==
  /\ chWire <= chNewest /\ chWire' = chWire + 1
  /\ UNCHANGED <<chNewest, chRows, chLast, chOffset, chLoading, chWindow, chCalls, chSeen, chAstray>>

\* the messages the table holds of a range: the queries count from its newest or from an id
Stored(from, to) == Upto(Larger(1, from), IF to > chNewest THEN chNewest ELSE to)

\* find_chats_by_offset, find_chats_range and fetch_context_by_center
Page(offset)  == Stored(chNewest - offset - MAX_FETCH_MESSAGE_SIZE + 1, chNewest - offset)
OlderThan(id) == Stored(id - LOAD, id - 1)
NewerThan(id) == Stored(id + 1, id + LOAD)
Context(id)   == Stored(id - AROUND, id + AROUND)

\* find_chat_indices_by_keyword
Hits == {m \in ChHits : m <= chNewest}

\* load_more_logs, fetch_context, load_chat_range; and, to leave the search, all that is newer
RowsOf(c) ==
  CASE c.kind \in {"more", "visible"} -> Page(c.at)
    [] c.kind = "around" -> Context(c.at)
    [] c.kind = "older"  -> OlderThan(c.at)
    [] c.kind = "newer"  -> NewerThan(c.at)
    [] c.kind = "rest"   -> Upto(c.at + 1, chNewest)

Serve(c) ==
  /\ c.got = NotYet
  /\ chCalls' = (chCalls \ {c}) \cup {[c EXCEPT !.got = RowsOf(c)]}
  /\ UNCHANGED <<chNewest, chWire, chRows, chLast, chOffset, chLoading, chWindow, chSeen, chAstray>>

(***************************************************************************)
(* The ordinary page.                                                      *)
(***************************************************************************)
\* the user scrolls to the top: loadMoreChats, which stays out of a search
ScrollUp ==
  /\ ~chLoading /\ ~chOn /\ chRows # <<>> /\ MayCall /\ Under({"more"}) = {}
  /\ chLoading' = TRUE /\ chCalls' = chCalls \cup {Call("more", chOffset)}
  /\ UNCHANGED <<chNewest, chWire, chRows, chLast, chOffset, chWindow, chSeen, chAstray>>

MoreArrives(c) ==
  /\ c.kind = "more" /\ c.got # NotYet
  /\ PutOnTop(c.got)
  /\ chOffset' = IF c.got = <<>> THEN chOffset ELSE chOffset + MAX_FETCH_MESSAGE_SIZE
  /\ chLoading' = FALSE /\ chCalls' = chCalls \ {c}
  /\ UNCHANGED <<chNewest, chWire, chWindow, chAstray>>

\* visibilitychange: the newest page, of which the messages it has not are added
Shown ==
  /\ MayCall /\ Under({"visible"}) = {} /\ chCalls' = chCalls \cup {Call("visible", 0)}
  /\ UNCHANGED <<chNewest, chWire, chRows, chLast, chOffset, chLoading, chWindow, chSeen, chAstray>>

Unknown(page) == IF page = <<>> THEN <<>> ELSE Upto(Larger(page[1], chLast + 1), page[Len(page)])

VisibleArrives(c) ==
  /\ c.kind = "visible" /\ c.got # NotYet
  /\ PutBelow(Unknown(c.got))
  /\ chCalls' = chCalls \ {c}
  /\ UNCHANGED <<chNewest, chWire, chOffset, chLoading, chOn, chOlder, chNewer, chBusy, chAstray>>

(***************************************************************************)
(* The search.                                                             *)
(***************************************************************************)
\* jumpTo a hit that is not on the page: it waits for loadMoreChats, but three
\* seconds at the most
JumpTo(hit) ==
  /\ hit \notin RowsSet /\ MayCall
  /\ chLoading' = TRUE /\ chCalls' = chCalls \cup {Call("around", hit)}
  /\ UNCHANGED <<chNewest, chWire, chRows, chLast, chOffset, chWindow, chSeen, chAstray>>

Replaced == Under({"more", "older", "newer", "rest"}) # {}

\* enterWindowAround
AroundArrives(c) ==
  LET below == {m \in IdsOf(c.got) : m > c.at}
      above == {m \in IdsOf(c.got) : m < c.at} IN
  /\ c.kind = "around" /\ c.got # NotYet
  /\ chRows' = c.got /\ chLast' = LastWith(c.got)
  /\ chSeen' = chSeen \cup IdsOf(c.got)
  /\ chOn' = TRUE /\ chPending' = FALSE
  /\ chOlder' = (Cardinality(above) >= AROUND) /\ chNewer' = (Cardinality(below) >= AROUND)
  /\ chLoading' = FALSE /\ chCalls' = chCalls \ {c}
  /\ chAstray' = Replaced
  /\ UNCHANGED <<chNewest, chWire, chOffset, chBusy>>

\* maybeLoadMore, near the top or near the bottom
Extend(kind) ==
  /\ chOn /\ ~chBusy /\ MayCall /\ chRows # <<>>
  /\ IF kind = "older" THEN chOlder ELSE chNewer
  /\ chBusy' = TRUE
  /\ chCalls' = chCalls \cup {Call(kind, IF kind = "older" THEN chRows[1] ELSE chRows[Len(chRows)])}
  /\ UNCHANGED <<chNewest, chWire, chRows, chLast, chOffset, chLoading, chOn, chOlder, chNewer,
                 chPending, chSeen, chAstray>>

\* loadOlder, and trimBottom
OlderArrives(c) ==
  LET rows == c.got \o chRows
      long == c.got # <<>> /\ Len(rows) > MAX_ROWS IN
  /\ c.kind = "older" /\ c.got # NotYet
  /\ chRows' = IF long THEN SubSeq(rows, 1, MAX_ROWS) ELSE rows
  /\ chLast' = LastWith(c.got) /\ chSeen' = chSeen \cup IdsOf(c.got)
  /\ chOlder' = (Len(c.got) >= LOAD) /\ chNewer' = (chNewer \/ long)
  /\ chBusy' = FALSE /\ chCalls' = chCalls \ {c}
  /\ UNCHANGED <<chNewest, chWire, chOffset, chLoading, chOn, chPending, chAstray>>

\* loadNewer, and trimTop; there are more
NewerArrives(c) ==
  LET rows == chRows \o c.got
      long == Len(rows) > MAX_ROWS IN
  /\ c.kind = "newer" /\ c.got # NotYet /\ Len(c.got) >= LOAD
  /\ chRows' = IF long THEN SubSeq(rows, Len(rows) - MAX_ROWS + 1, Len(rows)) ELSE rows
  /\ chLast' = LastWith(c.got) /\ chSeen' = chSeen \cup IdsOf(c.got)
  /\ chNewer' = TRUE /\ chOlder' = (chOlder \/ long)
  /\ chBusy' = FALSE /\ chCalls' = chCalls \ {c}
  /\ UNCHANGED <<chNewest, chWire, chOffset, chLoading, chOn, chPending, chAstray>>

\* leaveWindowAtLatest: the end has been reached; what came during the search is
\* fetched once more
Leaves(rows) ==
  IF chPending /\ rows # <<>>
  THEN /\ chCalls' = {d \in chCalls : d.kind # "newer"} \cup {Call("rest", rows[Len(rows)])}
       /\ UNCHANGED chBusy
  ELSE chCalls' = {d \in chCalls : d.kind # "newer"} /\ chBusy' = FALSE

NewestArrive(c) ==
  LET rows == chRows \o c.got
      long == c.got # <<>> /\ Len(rows) > MAX_ROWS
      left == IF long THEN SubSeq(rows, Len(rows) - MAX_ROWS + 1, Len(rows)) ELSE rows IN
  /\ c.kind = "newer" /\ c.got # NotYet /\ Len(c.got) < LOAD
  /\ chRows' = left
  /\ chLast' = LastWith(c.got) /\ chSeen' = chSeen \cup IdsOf(c.got)
  /\ chNewer' = FALSE /\ chOlder' = (chOlder \/ long)
  /\ chOn' = FALSE /\ chOffset' = Len(left)
  /\ Leaves(left) /\ chPending' = FALSE
  /\ UNCHANGED <<chNewest, chWire, chLoading, chAstray>>

RestArrives(c) ==
  /\ c.kind = "rest" /\ c.got # NotYet
  /\ PutBelow(c.got) /\ chBusy' = FALSE /\ chCalls' = chCalls \ {c}
  /\ UNCHANGED <<chNewest, chWire, chOffset, chLoading, chOn, chOlder, chNewer, chAstray>>

\* the button under the rows: exitChatWindowMode
BackToLatest ==
  /\ chOn /\ MayCall /\ Under({"more"}) = {}
  /\ chRows' = <<>> /\ chOffset' = 0 /\ chOn' = FALSE /\ chPending' = FALSE
  /\ chLoading' = TRUE /\ chCalls' = chCalls \cup {Call("more", 0)}
  /\ chAstray' = Replaced
  /\ UNCHANGED <<chNewest, chWire, chLast, chOlder, chNewer, chBusy, chSeen>>

\* a request fails
Fails(c) ==
  /\ chCalls' = chCalls \ {c}
  /\ chLoading' = (chLoading /\ c.kind \notin {"more", "around"})
  /\ chBusy' = (chBusy /\ c.kind \notin {"older", "newer", "rest"})
  /\ chAstray' = (chAstray \/ c.kind = "rest" \/ (c.kind = "more" /\ c.at = 0))
  /\ UNCHANGED <<chNewest, chWire, chRows, chLast, chOffset, chOn, chOlder, chNewer, chPending,
                 chSeen>>

ChNext ==
  \/ Said \/ Delivered \/ Missed \/ ScrollUp \/ Shown \/ BackToLatest
  \/ \E hit \in Hits : JumpTo(hit)
  \/ \E kind \in {"older", "newer"} : Extend(kind)
  \/ \E c \in chCalls :
       \/ Serve(c) \/ Fails(c) \/ MoreArrives(c) \/ VisibleArrives(c) \/ AroundArrives(c)
       \/ OlderArrives(c) \/ NewerArrives(c) \/ NewestArrive(c) \/ RestArrives(c)

ChSpec == ChInit /\ [][ChNext]_ChVars

(***************************************************************************)
(* Properties.                                                             *)
(***************************************************************************)
\* "Messages that came during the search and were skipped are fetched once more":
\* back on the ordinary page every message that has reached it and is not above its
\* first row is among the rows, unless the rows were replaced while a page for them
\* was on its way, or that fetching, or that of the newest page, failed.
NothingLostBySearching ==
  ~chOn /\ chCalls = {} /\ ~chAstray /\ chRows # <<>> =>
    \A m \in chSeen : m >= chRows[1] => m \in RowsSet

(***************************************************************************)
(* What the server remembers of the chat (app/function.py, STATE): how far *)
(* each user has read, the last message, and when each user was last seen, *)
(* which is left out but for the requests that note it.  The state is kept *)
(* in memory; a request takes a copy, changes the copy and puts it in the  *)
(* place of the state, and a timer writes the state to the file a while    *)
(* after a change.                                                         *)
(***************************************************************************)
CONSTANTS
  CsUser, CsThread,
  CsMessages, CsFaults     \* bounds: messages; restarts and failing writes

ASSUME CsAssumption == {CsMessages, CsFaults} \subseteq Nat

NoneRead  == [last |-> 0, read |-> [u \in CsUser |-> 0]]
NotAState == [last |-> -1, read |-> [u \in CsUser |-> 0]]
Spoilt  == NotAState      \* the file is there and is not JSON
NotLoaded == NotAState    \* _state_cache is None

VARIABLES
  csFile,      \* the state in the file
  csCache,     \* _state_cache
  csDirty,     \* _state_dirty
  csTimer,     \* _flush_timer
  csFired,     \* timers that have fired and not yet looked whether there is something
  csWrites,    \* snapshots that are being written
  csAt,        \* where a thread is: "idle", "loaded", "saved"
  csCopy,      \* its copy of the state
  csDoes,      \* what it changes: [field, user, to]
  csMessages,  \* messages in the database
  csFaults,
  \* what the properties remember
  csLost       \* the last write has failed

csThreads == <<csAt, csCopy, csDoes>>
CsVars    == <<csFile, csCache, csDirty, csTimer, csFired, csWrites, csThreads, csMessages,
               csFaults, csLost>>

Nothing == [field |-> "last", user |-> CHOOSE u \in CsUser : TRUE, to |-> 0]

CsInit ==
  /\ csFile = NoneRead /\ csCache = NotLoaded /\ csDirty = FALSE /\ csTimer = FALSE
  /\ csFired = 0 /\ csWrites = {}
  /\ csAt = [t \in CsThread |-> "idle"] /\ csCopy = [t \in CsThread |-> NoneRead]
  /\ csDoes = [t \in CsThread |-> Nothing]
  /\ csMessages = 0 /\ csFaults = 0 /\ csLost = FALSE

Changed(state, do) ==
  CASE do.field = "last" -> [state EXCEPT !.last = do.to]
    [] do.field = "read" -> [state EXCEPT !.read[do.user] = do.to]
    [] OTHER             -> state

(***************************************************************************)
(* The requests: load_state, the change of the copy, save_state.           *)
(***************************************************************************)
\* _load_state_from_disk: a file that cannot be read counts as none
Loaded == IF csCache # NotLoaded THEN csCache ELSE IF csFile = Spoilt THEN NoneRead ELSE csFile

Load(t, do) ==
  /\ csAt[t] = "idle"
  /\ csCache' = Loaded
  /\ csCopy' = [csCopy EXCEPT ![t] = Loaded] /\ csDoes' = [csDoes EXCEPT ![t] = do]
  /\ csAt' = [csAt EXCEPT ![t] = "loaded"]
  /\ UNCHANGED <<csFile, csDirty, csTimer, csFired, csWrites, csFaults, csLost>>

\* save_chat_message: the database numbers the message, then the state is loaded
Chat(t) ==
  /\ csMessages < CsMessages /\ csMessages' = csMessages + 1
  /\ Load(t, [Nothing EXCEPT !.to = csMessages'])

\* POST last-read-chat-id: as far as the page has messages
Read(t, u, upto) ==
  /\ Load(t, [field |-> "read", user |-> u, to |-> upto]) /\ UNCHANGED csMessages

\* POST heartbeat
Beat(t, u) == Load(t, [field |-> "seen", user |-> u, to |-> 1]) /\ UNCHANGED csMessages

Save(t) ==
  /\ csAt[t] = "loaded" /\ csAt' = [csAt EXCEPT ![t] = "saved"]
  /\ csCache' = Changed(csCopy[t], csDoes[t]) /\ csDirty' = TRUE
  /\ UNCHANGED <<csFile, csTimer, csFired, csWrites, csCopy, csDoes, csMessages, csFaults, csLost>>

\* _schedule_flush, and the answer
Schedule(t) ==
  /\ csAt[t] = "saved" /\ csAt' = [csAt EXCEPT ![t] = "idle"]
  /\ csTimer' = TRUE
  /\ csCopy' = [csCopy EXCEPT ![t] = NoneRead] /\ csDoes' = [csDoes EXCEPT ![t] = Nothing]
  /\ UNCHANGED <<csFile, csCache, csDirty, csFired, csWrites, csMessages, csFaults, csLost>>

(***************************************************************************)
(* The timer: _flush_timer_fired, _flush_state_to_disk,                    *)
(* _write_state_to_disk.                                                   *)
(***************************************************************************)
Fire ==
  /\ csTimer /\ csFired = 0 /\ csFired' = csFired + 1
  /\ csTimer' = FALSE
  /\ UNCHANGED <<csFile, csCache, csDirty, csWrites, csThreads, csMessages, csFaults, csLost>>

\* the snapshot, taken with the lock
Flush ==
  /\ csFired > 0 /\ csFired' = csFired - 1
  /\ csWrites' = IF csDirty THEN csWrites \cup {csCache} ELSE csWrites
  /\ csDirty' = FALSE
  /\ UNCHANGED <<csFile, csCache, csTimer, csThreads, csMessages, csFaults, csLost>>

Written_ThenClean(state) ==                                      \* mutant
  /\ csWrites = {state} /\ csWrites' = {} /\ csFile' = state /\ csLost' = (csLost /\ state # csCache)
  /\ csDirty' = FALSE
  /\ UNCHANGED <<csCache, csTimer, csFired, csThreads, csMessages, csFaults>>
Written(state) ==
  /\ csWrites = {state} /\ csWrites' = {} /\ csFile' = state /\ csLost' = (csLost /\ state # csCache)
  /\ UNCHANGED <<csCache, csDirty, csTimer, csFired, csThreads, csMessages, csFaults>>

\* Two writes at once share the name of the temporary file: the first to end cannot
\* replace the file while the other has it open, and what they wrote may be mixed.
WritesCollide(outcome) ==
  /\ Cardinality(csWrites) > 1
  /\ csWrites' = {} /\ csFile' = outcome /\ csLost' = TRUE
  /\ UNCHANGED <<csCache, csDirty, csTimer, csFired, csThreads, csMessages, csFaults>>

WriteFails(state) ==
  /\ csFaults < CsFaults /\ csFaults' = csFaults + 1
  /\ csWrites' = csWrites \ {state} /\ csLost' = TRUE
  /\ UNCHANGED <<csFile, csCache, csDirty, csTimer, csFired, csThreads, csMessages>>

\* the server stops: timers are daemons, nothing is written
CsRestart ==
  /\ csFaults < CsFaults /\ csFaults' = csFaults + 1
  /\ csCache' = NotLoaded /\ csDirty' = FALSE /\ csTimer' = FALSE /\ csFired' = 0
  /\ csWrites' = {} /\ csAt' = [t \in CsThread |-> "idle"]
  /\ csCopy' = [t \in CsThread |-> NoneRead] /\ csDoes' = [t \in CsThread |-> Nothing]
  /\ csLost' = (csFile = Spoilt)
  /\ UNCHANGED <<csFile, csMessages>>

CsNext ==
  \/ \E t \in CsThread :
       \/ Chat(t) \/ Save(t) \/ Schedule(t)
       \/ \E u \in CsUser : Beat(t, u) \/ \E upto \in 1..csMessages : Read(t, u, upto)
  \/ Fire \/ Flush \/ CsRestart
  \/ \E state \in csWrites :
       Written(state) \/ WriteFails(state) \/ WritesCollide(state)
  \/ WritesCollide(Spoilt)

CsSpec == CsInit /\ [][CsNext]_CsVars

(***************************************************************************)
(* Properties.                                                             *)
(***************************************************************************)
\* FLUSH_DEBOUNCE_SEC, "only the changes of the last interval can be lost": what is
\* in memory is in the file, or is being written, or is marked as changed with a timer
\* or a thread about to start one ahead of it.  A write that fails is not repeated
\* before the next change.
ChangeWillBeWritten ==
  csCache # NotLoaded /\ csCache # csFile /\ ~csLost =>
    \/ csCache \in csWrites
    \/ csDirty /\ (csTimer \/ csFired > 0 \/ \E t \in CsThread : csAt[t] = "saved")
=============================================================================
