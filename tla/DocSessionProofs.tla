-------------------------- MODULE DocSessionProofs --------------------------
(* What holds of a tab for every set of documents, every retry limit and    *)
(* any number of sockets and requests outstanding.                          *)
EXTENDS DocSession, TLAPS

\* The part of the state that the sockets' life cycle is about.
ConnTypes ==
  /\ lastDocId \in Docs \cup {NoDoc}
  /\ connState \in ConnStates
  /\ attempts \in 0..MaxAttempts /\ timer \in BOOLEAN
  /\ ws \in Sockets \cup {NoSocket}
  /\ sock \in [Sockets -> [doc : Docs \cup {NoDoc}, phase : SocketPhases]]

\* Both properties.
Session == OneLiveSocket /\ ConnectedIsReal

-----------------------------------------------------------------------------
(* Closing the current socket, and opening another.                        *)

LEMMA ClosedTyped == ConnTypes =>
  Closed(sock, ws) \in [Sockets -> [doc : Docs \cup {NoDoc}, phase : SocketPhases]]
<1> SUFFICES ASSUME ConnTypes
             PROVE  Closed(sock, ws) \in [Sockets -> [doc : Docs \cup {NoDoc}, phase : SocketPhases]]
  OBVIOUS
<1>1. CASE ws = NoSocket
  BY <1>1 DEF Closed, ConnTypes
<1>2. CASE ws # NoSocket
  <2> DEFINE p == CASE sock[ws].phase = "connecting" -> "aborting"
                    [] sock[ws].phase = "open" -> "closing"
                    [] OTHER -> sock[ws].phase
  <2>1. ws \in Sockets /\ sock[ws] \in [doc : Docs \cup {NoDoc}, phase : SocketPhases]
    BY <1>2 DEF ConnTypes
  <2>2. p \in SocketPhases
    BY <2>1 DEF SocketPhases
  <2>3. Closed(sock, ws) = [sock EXCEPT ![ws].phase = p]
    BY <1>2 DEF Closed
  <2> HIDE DEF p
  <2> QED
    BY <2>1, <2>2, <2>3 DEF ConnTypes
<1> QED
  BY <1>1, <1>2

\* After close() no socket is live that was not live before, and the one that
\* was closed is not; an open one is closing.
LEMMA ClosedQuiet ==
  ASSUME ConnTypes, NEW s \in Sockets
  PROVE  /\ s # ws => Closed(sock, ws)[s] = sock[s]
         /\ Closed(sock, ws)[s].phase \notin {"connecting", "open"} \/ s # ws
         /\ sock[s].phase \in {"open", "closing"}
              => Closed(sock, ws)[s].phase \in {"open", "closing"}
<1>1. CASE ws = NoSocket
  BY <1>1 DEF Closed, ConnTypes, Sockets, NoSocket
<1>2. CASE ws # NoSocket
  <2>1. ws \in Sockets /\ sock[ws] \in [doc : Docs \cup {NoDoc}, phase : SocketPhases]
    BY <1>2 DEF ConnTypes
  <2> QED
    BY <1>2, <2>1 DEF Closed, ConnTypes
<1> QED
  BY <1>1, <1>2

LEMMA ConnectKeeps ==
  ASSUME ConnTypes, Session, NEW d \in Docs \cup {NoDoc}, Connect(d),
         UNCHANGED attempts, timer' \in BOOLEAN
  PROVE  ConnTypes' /\ Session'
<1>1. CASE UNCHANGED <<connState, ws, sock>>
  BY <1>1 DEF Connect, ConnTypes, Session, OneLiveSocket, ConnectedIsReal, Live
<1>2. CASE \E s \in FreeSockets :
             /\ connState' = "connecting" /\ ws' = s /\ lastDocId' = d
             /\ sock' = [Closed(sock, ws) EXCEPT ![s] = [doc |-> d, phase |-> "connecting"]]
  <2>1. PICK s \in FreeSockets :
             /\ connState' = "connecting" /\ ws' = s /\ lastDocId' = d
             /\ sock' = [Closed(sock, ws) EXCEPT ![s] = [doc |-> d, phase |-> "connecting"]]
    BY <1>2
  <2>2. s \in Sockets
    BY DEF FreeSockets
  <2>3. ConnTypes'
    BY <2>1, <2>2, ClosedTyped DEF ConnTypes, ConnStates, SocketPhases
  <2>4. OneLiveSocket'
    <3> SUFFICES ASSUME NEW q \in Sockets, q # s
                 PROVE  sock'[q].phase \notin {"connecting", "open"}
      BY <2>1 DEF OneLiveSocket, Live
    <3>1. sock'[q] = Closed(sock, ws)[q]
      BY <2>1, <2>2, ClosedTyped
    <3> QED
      BY <3>1, ClosedQuiet DEF Session, OneLiveSocket, Live
  <2> QED
    BY <2>1, <2>3, <2>4 DEF Session, ConnectedIsReal
<1> QED
  BY <1>1, <1>2 DEF Connect

LEMMA DocChangeKeeps ==
  ASSUME ConnTypes, Session, NEW d \in Docs, OnDocChange(d)
  PROVE  ConnTypes' /\ Session'
<1>0. UNCHANGED <<lastDocId, connState, ws, retryVars>>
  BY DEF OnDocChange, ResetDocument
<1>1. CASE UNCHANGED sock
  BY <1>0, <1>1
     DEF retryVars, ConnTypes, Session, OneLiveSocket, ConnectedIsReal, Live
<1>2. CASE sock' = Closed(sock, ws)
  <2>1. ConnTypes'
    BY <1>0, <1>2, ClosedTyped DEF retryVars, ConnTypes
  <2>2. OneLiveSocket'
    BY <1>0, <1>2, ClosedQuiet DEF Session, OneLiveSocket, Live
  <2>3. ConnectedIsReal'
    BY <1>0, <1>2, ClosedQuiet DEF Session, ConnectedIsReal
  <2> QED
    BY <2>1, <2>2, <2>3 DEF Session
<1> QED
  BY <1>1, <1>2 DEF OnDocChange, ResetDocument

-----------------------------------------------------------------------------

\* Session is preserved together with the types.
Inductive == ConnTypes /\ docId \in Docs \cup {NoDoc} /\ Session

LEMMA SessionStep == Inductive /\ [Next]_vars => Inductive'
<1> SUFFICES ASSUME ConnTypes, docId \in Docs \cup {NoDoc}, Session, [Next]_vars
             PROVE  ConnTypes' /\ docId' \in Docs \cup {NoDoc} /\ Session'
  BY DEF Inductive
<1> DEFINE Kept == ConnTypes' /\ docId' \in Docs \cup {NoDoc} /\ Session'
<1> USE DEF uiVars, retryVars, connVars
<1>1. ASSUME NEW s \in Sockets, SocketOpens(s) PROVE Kept
  <2>1. /\ sock[s].phase = "connecting" /\ sock' = [sock EXCEPT ![s].phase = "open"]
        /\ connState' = "connected" /\ attempts' = 0
        /\ UNCHANGED <<docId, lastDocId, ws, timer>>
    BY <1>1 DEF SocketOpens
  <2>2. ConnTypes'
    BY <2>1, SessionAssumption DEF ConnTypes, ConnStates, SocketPhases
  <2>3. OneLiveSocket'
    BY <2>1 DEF ConnTypes, Session, OneLiveSocket, Live
  <2>4. ConnectedIsReal'
    BY <2>1 DEF ConnTypes, ConnectedIsReal
  <2> QED
    BY <2>1, <2>2, <2>3, <2>4 DEF Session
<1>2. ASSUME NEW s \in Sockets, SocketEnds(s) PROVE Kept
  <2>1. /\ sock' = [sock EXCEPT ![s] = Done] /\ UNCHANGED <<docId, lastDocId, ws>>
        /\ \/ ScheduleReconnect
           \/ UNCHANGED retryVars
        /\ \/ connState' = "reconnecting"
           \/ connState' = connState /\ connState # "connected"
    BY <1>2 DEF SocketEnds
  <2>2. attempts' \in 0..MaxAttempts /\ timer' \in BOOLEAN
    <3>1. attempts \in 0..MaxAttempts /\ timer \in BOOLEAN /\ MaxAttempts \in Nat
      BY SessionAssumption DEF ConnTypes
    <3>2. \/ attempts < MaxAttempts /\ attempts' = attempts + 1 /\ timer' = TRUE
          \/ attempts' = attempts /\ timer' = timer
      BY <2>1, <3>1 DEF ScheduleReconnect
    <3>3. attempts' \in 0..MaxAttempts
      BY <3>1, <3>2
    <3>4. timer' \in BOOLEAN
      BY <3>1, <3>2
    <3> QED
      BY <3>3, <3>4
  <2>3. ConnTypes'
    BY <2>1, <2>2 DEF ConnTypes, ConnStates, SocketPhases, Done
  <2>4. OneLiveSocket'
    BY <2>1 DEF ConnTypes, Session, OneLiveSocket, Live, Done
  <2>5. ConnectedIsReal'
    BY <2>1 DEF ConnectedIsReal
  <2> QED
    BY <2>1, <2>3, <2>4, <2>5 DEF Session
<1>3. CASE TimerFires
  BY <1>3, ConnectKeeps DEF TimerFires, ConnTypes
<1>4. ASSUME NEW d \in Docs, BlobArrives(d) \/ BlobFails(d) PROVE Kept
  BY <1>4, ConnectKeeps DEF BlobArrives, BlobFails, ConnTypes
<1>5. ASSUME NEW d \in Docs, OnDocChange(d) PROVE Kept
  BY <1>5, DocChangeKeeps DEF OnDocChange, ResetDocument
<1>6. CASE UNCHANGED <<connVars, retryVars>> /\ (docId' = NoDoc \/ docId' = docId)
  BY <1>6 DEF ConnTypes, Session, OneLiveSocket, ConnectedIsReal, Live
<1> QED
  BY <1>1, <1>2, <1>3, <1>4, <1>5, <1>6
     DEF Next, User, Http, Net, PickDoc, ListArrives, Login, Logout, Edit,
         ReceiveUpdate, ReceiveSyncReq, SnapshotTimerFires, vars

LEMMA InductiveHolds == Spec => []Inductive
<1>1. Init => Inductive
  <2> SUFFICES ASSUME Init PROVE Inductive
    OBVIOUS
  <2>1. ConnTypes /\ docId \in Docs \cup {NoDoc}
    <3>1. Done \in [doc : Docs \cup {NoDoc}, phase : SocketPhases]
      BY DEF Done, SocketPhases
    <3>2. /\ sock = [s \in Sockets |-> Done] /\ connState = "disconnected"
          /\ attempts = 0 /\ timer = FALSE
          /\ ws = NoSocket /\ lastDocId = NoDoc /\ docId = NoDoc
      BY DEF Init
    <3> HIDE DEF Done
    <3>3. sock \in [Sockets -> [doc : Docs \cup {NoDoc}, phase : SocketPhases]]
      BY <3>1, <3>2
    <3>4. attempts \in 0..MaxAttempts
      BY <3>2, SessionAssumption
    <3> QED
      BY <3>2, <3>3, <3>4 DEF ConnTypes, ConnStates
  <2>2. Session
    BY DEF Init, Session, OneLiveSocket, ConnectedIsReal, Live, Done
  <2> QED
    BY <2>1, <2>2 DEF Inductive
<1> QED
  BY <1>1, SessionStep, PTL DEF Spec

\* However selections, responses and timers interleave, at most one socket is
\* live and it is the one the service holds.  (ws-sync.service.ts:90, 118-133)
THEOREM OneSocket == Spec => []OneLiveSocket
<1>1. Inductive => OneLiveSocket
  BY DEF Inductive, Session
<1> QED
  BY <1>1, InductiveHolds, PTL

\* "connected" is shown only while a socket is open or its close event is still to
\* come.  (ws-sync.service.ts:135-151)
THEOREM StatusHonest == Spec => []ConnectedIsReal
<1>1. Inductive => ConnectedIsReal
  BY DEF Inductive, Session
<1> QED
  BY <1>1, InductiveHolds, PTL

-----------------------------------------------------------------------------
(* The types of the rest.  They need that an open socket has a document, as *)
(* the server refuses the handshake without one.                            *)

OpenHasDoc == \A s \in Sockets : sock[s].phase = "open" => sock[s].doc \in Docs

RestTypes ==
  /\ {authed, listing, snapTimer} \subseteq BOOLEAN
  /\ gets \in [Docs -> 0..MaxGets]
  /\ ydoc \in SUBSET Docs
  /\ sentTo \in [Docs -> SUBSET Docs]
  /\ OpenHasDoc

LEMMA ClosedKeepsDocs ==
  ASSUME ConnTypes, OpenHasDoc, NEW s \in Sockets, Closed(sock, ws)[s].phase = "open"
  PROVE  Closed(sock, ws)[s].doc \in Docs
<1>1. CASE ws = NoSocket
  BY <1>1 DEF Closed, OpenHasDoc
<1>2. CASE ws # NoSocket /\ s # ws
  BY <1>2, ClosedQuiet DEF OpenHasDoc
<1>3. CASE ws # NoSocket /\ s = ws
  BY <1>3, ClosedQuiet
<1> QED
  BY <1>1, <1>2, <1>3

LEMMA ConnectKeepsDocs ==
  ASSUME ConnTypes, OpenHasDoc, NEW d, Connect(d)
  PROVE  OpenHasDoc'
<1>1. CASE UNCHANGED sock
  BY <1>1 DEF OpenHasDoc
<1>2. CASE \E s \in FreeSockets :
             sock' = [Closed(sock, ws) EXCEPT ![s] = [doc |-> d, phase |-> "connecting"]]
  BY <1>2, ClosedTyped, ClosedKeepsDocs DEF OpenHasDoc, FreeSockets
<1> QED
  BY <1>1, <1>2 DEF Connect

LEMMA SentTyped ==
  ASSUME RestTypes, NEW text \in SUBSET Docs
  PROVE  Sent(text) \in [Docs -> SUBSET Docs]
BY DEF RestTypes, Sent

LEMMA ServerTextTyped ==
  ASSUME RestTypes, NEW d \in Docs
  PROVE  ServerText(d) \in SUBSET Docs
BY DEF RestTypes, ServerText

LEMMA RestStep == Inductive /\ RestTypes /\ [Next]_vars => RestTypes'
<1> SUFFICES ASSUME Inductive, RestTypes, [Next]_vars PROVE RestTypes'
  OBVIOUS
<1> USE SessionAssumption DEF uiVars, retryVars, connVars, textVars
<1>0. ConnTypes /\ OpenHasDoc /\ docId \in Docs \cup {NoDoc}
  BY DEF Inductive, RestTypes
<1>1. ASSUME NEW s \in Sockets, SocketOpens(s) PROVE RestTypes'
  <2>1. OpenHasDoc'
    BY <1>0, <1>1 DEF SocketOpens, ConnTypes, OpenHasDoc
  <2> QED
    BY <1>1, <2>1 DEF SocketOpens, RestTypes
<1>2. ASSUME NEW s \in Sockets, SocketEnds(s) PROVE RestTypes'
  <2>1. sock' = [sock EXCEPT ![s] = Done] /\ UNCHANGED <<uiVars, gets, textVars>>
    BY <1>2 DEF SocketEnds
  <2>2. OpenHasDoc'
    BY <1>0, <2>1 DEF Done, ConnTypes, OpenHasDoc
  <2> QED
    BY <2>1, <2>2 DEF RestTypes
<1>3. ASSUME NEW s \in Sockets, ReceiveUpdate(s) \/ ReceiveSyncReq(s) PROVE RestTypes'
  <2>1. sock[s].doc \in Docs
    BY <1>0, <1>3 DEF ReceiveUpdate, ReceiveSyncReq, OpenHasDoc
  <2>2. ydoc' \in SUBSET Docs /\ sentTo' \in [Docs -> SUBSET Docs]
    BY <1>3, <2>1, SentTyped, ServerTextTyped DEF ReceiveUpdate, ReceiveSyncReq, RestTypes
  <2> QED
    BY <1>3, <2>2 DEF ReceiveUpdate, ReceiveSyncReq, RestTypes, OpenHasDoc
<1>4. CASE TimerFires
  BY <1>0, <1>4, ConnectKeepsDocs DEF TimerFires, RestTypes
<1>5. CASE SnapshotTimerFires
  BY <1>5, SentTyped DEF SnapshotTimerFires, RestTypes, OpenHasDoc
<1>6. ASSUME NEW d \in Docs, BlobArrives(d) \/ BlobFails(d) PROVE RestTypes'
  <2>1. OpenHasDoc'
    BY <1>0, <1>6, ConnectKeepsDocs DEF BlobArrives, BlobFails
  <2>2. gets' \in [Docs -> 0..MaxGets]
    BY <1>6 DEF BlobArrives, BlobFails, RestTypes
  <2> QED
    BY <1>6, <2>1, <2>2, ServerTextTyped DEF BlobArrives, BlobFails, RestTypes
<1>7. ASSUME NEW d \in Docs, OnDocChange(d), authed' \in BOOLEAN, listing' \in BOOLEAN
      PROVE  RestTypes'
  <2>1. OpenHasDoc'
    BY <1>0, <1>7, ClosedKeepsDocs DEF OnDocChange, ResetDocument, OpenHasDoc
  <2>2. gets' \in [Docs -> 0..MaxGets]
    BY <1>7 DEF OnDocChange, RestTypes
  <2>3. ydoc' \in SUBSET Docs
    BY <1>7 DEF OnDocChange, ResetDocument, RestTypes
  <2> QED
    BY <1>7, <2>1, <2>2, <2>3 DEF OnDocChange, RestTypes
<1>8. CASE Edit
  <2>1. PICK shown \in {ydoc, {}} :
          /\ ydoc' = shown \cup ({docId} \ {NoDoc})
          /\ sentTo' = Sent(shown \cup ({docId} \ {NoDoc}))
          /\ snapTimer' = TRUE
          /\ UNCHANGED <<uiVars, gets, connVars, retryVars>>
    BY <1>8 DEF Edit
  <2>2. shown \cup ({docId} \ {NoDoc}) \in SUBSET Docs
    BY <1>0 DEF RestTypes
  <2> QED
    BY <2>1, <2>2, SentTyped DEF RestTypes, OpenHasDoc
<1>9. CASE Login \/ Logout \/ UNCHANGED vars
  BY <1>9 DEF Login, Logout, vars, RestTypes, OpenHasDoc
<1>10. CASE ListArrives
  <2>1. CASE UNCHANGED <<docId, gets, connVars, retryVars, textVars>>
    BY <1>10, <2>1 DEF ListArrives, RestTypes, OpenHasDoc
  <2>2. CASE \E d \in Docs : OnDocChange(d)
    BY <1>7, <1>10, <2>2 DEF ListArrives, RestTypes
  <2> QED
    BY <1>10, <2>1, <2>2 DEF ListArrives
<1>11. ASSUME NEW d \in Docs, PickDoc(d) PROVE RestTypes'
  BY <1>7, <1>11 DEF PickDoc, RestTypes
<1> QED
  BY <1>1, <1>2, <1>3, <1>4, <1>5, <1>6, <1>8, <1>9, <1>10, <1>11
     DEF Next, User, Http, Net

\* Every variable keeps its type: the attempts stay in their bound, and text is only
\* ever sent to the room of a document.  (ws-sync.service.ts:137, 241-251)
THEOREM TypeCorrect == Spec => []TypeOK
<1>1. Init => RestTypes
  <2> SUFFICES ASSUME Init PROVE RestTypes
    OBVIOUS
  <2>1. gets \in [Docs -> 0..MaxGets]
    BY SessionAssumption DEF Init
  <2>2. OpenHasDoc
    BY DEF Init, OpenHasDoc, Done
  <2> QED
    BY <2>1, <2>2 DEF Init, RestTypes
<1>2. Inductive /\ RestTypes => TypeOK
  BY DEF Inductive, ConnTypes, RestTypes, TypeOK
<1>3. Spec => []RestTypes
  BY <1>1, RestStep, InductiveHolds, PTL DEF Spec
<1> QED
  BY <1>2, <1>3, InductiveHolds, PTL
=============================================================================
