---------------------------- MODULE DocSession ----------------------------
(***************************************************************************)
(* One browser tab: the document selection of app.component.ts and the     *)
(* WebSocket life cycle of ws-sync.service.ts.                             *)
(*                                                                         *)
(* JavaScript runs one callback at a time, so every action is one event    *)
(* handler; what interleaves is the order in which the browser delivers    *)
(* HTTP responses, socket events and timers.  Sockets the tab has replaced *)
(* still deliver their events, to handlers that read the state of the      *)
(* current one.                                                            *)
(*                                                                         *)
(* The content of a Y.Doc is abstracted to the set of documents it has     *)
(* text of, which tells whether documents stay apart.                      *)
(***************************************************************************)
EXTENDS Integers, FiniteSets

CONSTANTS
  Docs,          \* document ids
  NoDoc,         \* the empty docId, and undefined
  MaxAttempts,   \* maxReconnectAttempts (5 in the code)
  MaxSockets,    \* bound: sockets with events outstanding, the current one included
  MaxGets        \* bound: blob requests under way

ASSUME SessionAssumption ==
  /\ NoDoc \notin Docs
  /\ MaxAttempts \in Nat /\ MaxSockets \in Nat \ {0} /\ MaxGets \in Nat \ {0}

Sockets == 1..MaxSockets
NoSocket == 0

\* readyState, with the two ways a socket gets to CLOSING told apart: close() on
\* a CONNECTING socket makes the browser fail the connection.
SocketPhases == {"connecting", "open", "aborting", "closing", "closed"}
ConnStates == {"disconnected", "connecting", "connected", "reconnecting"}

\* A socket that has delivered its last event, or a slot never used.
Done == [doc |-> NoDoc, phase |-> "closed"]

VARIABLES
  authed,      \* userEmail and jwt_token are set
  listing,     \* a refreshDocs(true) request is under way
  docId,       \* AppComponent.docId
  gets,        \* gets[d]: getBlob(d) requests under way
  lastDocId,   \* WSSyncService.lastDocId
  connState,   \* WSSyncService.connectionState
  attempts,    \* WSSyncService.reconnectAttempts
  timer,       \* reconnectTimer is set
  ws,          \* WSSyncService.ws
  sock,        \* sock[s]: document and phase of every socket with events to come
  ydoc,        \* the documents whose text WSSyncService.ydoc holds
  snapTimer,   \* snapshotTimer is set
  sentTo       \* sentTo[d]: other documents whose text was sent to the room of d

uiVars    == <<authed, listing, docId>>
retryVars == <<attempts, timer>>
connVars  == <<lastDocId, connState, ws, sock>>
textVars  == <<ydoc, snapTimer, sentTo>>
vars      == <<uiVars, gets, connVars, retryVars, textVars>>

Init ==
  /\ authed \in BOOLEAN
  /\ listing = FALSE
  /\ docId = NoDoc
  /\ gets = [d \in Docs |-> 0]
  /\ lastDocId = NoDoc
  /\ connState = "disconnected"
  /\ attempts = 0
  /\ timer = FALSE
  /\ ws = NoSocket
  /\ sock = [s \in Sockets |-> Done]
  /\ ydoc = {}
  /\ snapTimer = FALSE
  /\ sentTo = [d \in Docs |-> {}]

-----------------------------------------------------------------------------
(* WSSyncService                                                           *)

\* WebSocket.close() on socket w, if there is one.
Closed(sk, w) ==
  IF w = NoSocket THEN sk
  ELSE [sk EXCEPT ![w].phase = CASE @ = "connecting" -> "aborting"
                                 [] @ = "open" -> "closing"
                                 [] OTHER -> @]

\* A slot for a new WebSocket object: one whose last event has been delivered.
FreeSockets == {s \in Sockets : sock[s].phase = "closed" /\ s # ws}

\* Fault: the previous socket is left open.
ConnectLeavesOpen(d) ==
  /\ lastDocId' = d
  /\ IF connState = "connecting"
       THEN UNCHANGED <<connState, ws, sock>>
       ELSE /\ connState' = "connecting"
            /\ \E s \in FreeSockets :
                 /\ \A q \in FreeSockets : s <= q
                 /\ ws' = s
                 /\ sock' = [sock EXCEPT ![s] = [doc |-> d, phase |-> "connecting"]]

\* connect(docId).  The early return compares the state only, not the document.
Connect(d) ==
  /\ lastDocId' = d
  /\ IF connState = "connecting"
       THEN UNCHANGED <<connState, ws, sock>>
       ELSE /\ connState' = "connecting"
            /\ \E s \in FreeSockets :
                 /\ \A q \in FreeSockets : s <= q
                 /\ ws' = s
                 /\ sock' = [Closed(sock, ws) EXCEPT
                               ![s] = [doc |-> d, phase |-> "connecting"]]

\* scheduleReconnect()
ScheduleReconnect ==
  IF timer \/ lastDocId = NoDoc \/ attempts >= MaxAttempts
    THEN UNCHANGED retryVars
    ELSE attempts' = attempts + 1 /\ timer' = TRUE

\* send(): only on an OPEN socket, and otherwise nothing happens.
Sent(text) ==
  IF ws # NoSocket /\ sock[ws].phase = "open"
    THEN LET d == sock[ws].doc IN [sentTo EXCEPT ![d] = @ \cup (text \ {d})]
    ELSE sentTo

\* Fault: a successful handshake takes back one attempt only.
SocketOpensForgivesOne(s) ==
  /\ sock[s].phase = "connecting"
  /\ sock[s].doc # NoDoc
  /\ sock' = [sock EXCEPT ![s].phase = "open"]
  /\ connState' = "connected"
  /\ attempts' = attempts - 1
  /\ UNCHANGED <<uiVars, gets, lastDocId, ws, timer, textVars>>

\* onopen.  The server refuses the handshake when docId is empty.
SocketOpens(s) ==
  /\ sock[s].phase = "connecting"
  /\ sock[s].doc # NoDoc
  /\ sock' = [sock EXCEPT ![s].phase = "open"]
  /\ connState' = "connected"
  /\ attempts' = 0
  /\ UNCHANGED <<uiVars, gets, lastDocId, ws, timer, textVars>>

\* Fault: onclose does not react.
SocketEndsUnnoticed(s) ==
  /\ sock[s].phase # "closed"
  /\ sock' = [sock EXCEPT ![s] = Done]
  /\ UNCHANGED <<uiVars, gets, lastDocId, connState, ws, retryVars, textVars>>

\* Fault: only an error schedules a retry, a close does not.
SocketEndsQuietly(s) ==
  /\ sock[s].phase # "closed"
  /\ sock' = [sock EXCEPT ![s] = Done]
  /\ \/ connState = "connecting" /\ ScheduleReconnect /\ UNCHANGED connState
     \/ connState = "connected" /\ connState' = "reconnecting" /\ UNCHANGED retryVars
     \/ connState \notin {"connecting", "connected"} /\ UNCHANGED <<retryVars, connState>>
  /\ UNCHANGED <<uiVars, gets, lastDocId, ws, textVars>>

\* The connection of s is gone: onerror, if it failed, and then onclose.  A
\* handshake that does not succeed always counts as failed.
SocketEnds(s) ==
  /\ sock[s].phase # "closed"
  /\ sock' = [sock EXCEPT ![s] = Done]
  /\ \E failed \in BOOLEAN :
       /\ sock[s].phase \in {"connecting", "aborting"} => failed
       /\ CASE connState = "connecting" /\ failed ->
                 ScheduleReconnect /\ UNCHANGED connState
            [] connState = "connected" ->
                 ScheduleReconnect /\ connState' = "reconnecting"
            [] OTHER -> UNCHANGED <<retryVars, connState>>
  /\ UNCHANGED <<uiVars, gets, lastDocId, ws, textVars>>

\* The reconnect timer fires.
TimerFires ==
  /\ timer
  /\ timer' = FALSE
  /\ Connect(lastDocId)
  /\ UNCHANGED <<uiVars, gets, attempts, textVars>>

\* The text the server has for d: its own, and what was sent to its room.
ServerText(d) == {d} \cup sentTo[d]

\* onmessage with an update or a full state that brings something new.  A socket
\* that is not open delivers no messages.
ReceiveUpdate(s) ==
  /\ sock[s].phase = "open"
  /\ ydoc' = ydoc \cup ServerText(sock[s].doc)
  /\ snapTimer' = TRUE
  /\ UNCHANGED <<uiVars, gets, connVars, retryVars, sentTo>>

\* onmessage with a peer's request for the full state, or with the tab's own,
\* which the server sends back to it too.
ReceiveSyncReq(s) ==
  /\ sock[s].phase = "open"
  /\ sentTo' = Sent(ydoc)
  /\ UNCHANGED <<uiVars, gets, connVars, retryVars, ydoc, snapTimer>>

\* The snapshot timer fires; resetDocument does not clear it.
SnapshotTimerFires ==
  /\ snapTimer
  /\ snapTimer' = FALSE
  /\ sentTo' = Sent(ydoc)
  /\ UNCHANGED <<uiVars, gets, connVars, retryVars, ydoc>>

\* updateLocal: the user types while docId is selected, or nothing is.  The text
\* is replaced by what is on the screen: the text there was, or nothing of it once
\* a request has failed or the user has logged out.
Edit ==
  \E shown \in {ydoc, {}} :
    LET text == shown \cup ({docId} \ {NoDoc})
    IN  /\ ydoc' = text
        /\ sentTo' = Sent(text)
        /\ snapTimer' = TRUE
        /\ UNCHANGED <<uiVars, gets, connVars, retryVars>>

-----------------------------------------------------------------------------
(* AppComponent                                                            *)

\* resetDocument: the socket is closed, and the document is an empty one.
ResetDocument == sock' = Closed(sock, ws) /\ ydoc' = {}

\* onDocChange(d), called by the dropdown, by the response to createDoc (which
\* may come at any time) and by the first list after a login: a clean
\* document unless d is the one last connected to, then the snapshot request.
OnDocChange(d) ==
  /\ docId' = d
  /\ IF lastDocId # d
       THEN ResetDocument
       ELSE UNCHANGED <<sock, ydoc>>
  /\ gets[d] < MaxGets
  /\ gets' = [gets EXCEPT ![d] = @ + 1]
  /\ UNCHANGED <<lastDocId, connState, ws, retryVars, snapTimer, sentTo>>

PickDoc(d) ==
  /\ OnDocChange(d)
  /\ UNCHANGED <<authed, listing>>

\* getBlob(d) answers: its bytes go into the document of the moment, and the
\* socket is opened for the selection of the moment.
BlobArrives(d) ==
  /\ gets[d] > 0
  /\ gets' = [gets EXCEPT ![d] = @ - 1]
  /\ \/ ydoc' = ydoc \cup ServerText(d) /\ snapTimer' = TRUE
     \/ UNCHANGED <<ydoc, snapTimer>>     \* nothing stored, or nothing new
  /\ Connect(docId)
  /\ UNCHANGED <<uiVars, retryVars, sentTo>>

\* getBlob(d) fails: connect all the same.
BlobFails(d) ==
  /\ gets[d] > 0
  /\ gets' = [gets EXCEPT ![d] = @ - 1]
  /\ Connect(docId)
  /\ UNCHANGED <<uiVars, retryVars, textVars>>

\* doLogin or doRegister succeeds: refreshDocs(true).
Login ==
  /\ ~authed
  /\ authed' = TRUE
  /\ listing' = TRUE
  /\ UNCHANGED <<docId, gets, connVars, retryVars, textVars>>

\* The list arrives; the first document is picked if none is selected.
ListArrives ==
  /\ listing
  /\ listing' = FALSE
  /\ \/ docId = NoDoc /\ \E d \in Docs : OnDocChange(d)
     \/ UNCHANGED <<docId, gets, connVars, retryVars, textVars>>
  /\ UNCHANGED authed

\* doLogout: the socket, the document and the timers stay.
Logout ==
  /\ authed
  /\ authed' = FALSE
  /\ docId' = NoDoc
  /\ UNCHANGED <<listing, gets, connVars, retryVars, textVars>>

User == Edit \/ Login \/ Logout \/ \E d \in Docs : PickDoc(d)
Http == ListArrives \/ \E d \in Docs : BlobArrives(d) \/ BlobFails(d)
Net  == \E s \in Sockets :
          SocketOpens(s) \/ SocketEnds(s) \/ ReceiveUpdate(s) \/ ReceiveSyncReq(s)

Next == User \/ Http \/ Net \/ TimerFires \/ SnapshotTimerFires

\* The reconnect timer fires, handshakes are answered one way or the other, and
\* close() ends.  The user does what the user likes, requests may hang, and no
\* open socket has to break.
Fairness ==
  /\ WF_vars(TimerFires)
  /\ \A s \in Sockets :
       WF_vars(sock[s].phase # "open" /\ (SocketOpens(s) \/ SocketEnds(s)))

Spec == Init /\ [][Next]_vars /\ Fairness

-----------------------------------------------------------------------------

\* Every variable keeps its type.
TypeOK ==
  /\ {authed, listing, timer, snapTimer} \subseteq BOOLEAN
  /\ docId \in Docs \cup {NoDoc}
  /\ gets \in [Docs -> 0..MaxGets]
  /\ lastDocId \in Docs \cup {NoDoc}
  /\ connState \in ConnStates
  /\ attempts \in 0..MaxAttempts
  /\ ws \in Sockets \cup {NoSocket}
  /\ sock \in [Sockets -> [doc : Docs \cup {NoDoc}, phase : SocketPhases]]
  /\ ydoc \in SUBSET Docs
  /\ sentTo \in [Docs -> SUBSET Docs]

Live(s) == sock[s].phase \in {"connecting", "open"}

\* However selections, responses and timers interleave, at most one socket is
\* connecting or open, and it is the one the service holds: a replaced socket
\* never brings text into the document.  (ws-sync.service.ts:90, 125, 132)
OneLiveSocket == \A s \in Sockets : Live(s) => s = ws

\* The service shows "connected" only while its socket is open, or while the
\* close event that will tell it otherwise is still to come.
\* (ws-sync.service.ts:135-151)
ConnectedIsReal ==
  connState = "connected" =>
    \E s \in Sockets : sock[s].phase \in {"open", "closing"}

\* After a connection drops the service tries again, however many times it has
\* been lost and found before.  (ws-sync.service.ts:137, 145-150, 241-261)
ReconnectsAfterDrop ==
  connState = "reconnecting" /\ lastDocId # NoDoc ~>
    connState # "reconnecting" \/ lastDocId = NoDoc

-----------------------------------------------------------------------------
(* What the comments and the README say, and the code does not do.         *)

\* ws-sync.service.ts:244 and 253: once a retry is scheduled, the service goes on
\* trying, with growing delays, until it is connected or the attempts are used up.
RetriesUntilGivenUp ==
  timer /\ lastDocId # NoDoc ~>
    connState = "connected" \/ attempts = MaxAttempts \/ lastDocId = NoDoc

\* README.md:11, document isolation: text of one document is never sent into the
\* room of another.
DocumentsStayApart == \A d \in Docs : sentTo[d] = {}
=============================================================================
