------------------------------ MODULE Collab ------------------------------
(***************************************************************************)
(* Several browser tabs on one document: the load, edit, synchronise and   *)
(* snapshot protocol that ws-sync.service.ts and app.component.ts play     *)
(* with the hub and the documents table.                                   *)
(*                                                                         *)
(* What edits are, and what becomes of the text, is in SharedText.tla: this *)
(* module says which edits reach which tab.                                *)
(*                                                                         *)
(* The hub is that of Hub.tla in a coarser grain: one replica, a broadcast *)
(* in one step, and buffers of any length that may be full at any time.    *)
(* The copies that come back from Redis are left out, as they repeat what  *)
(* the room was sent.  A tab reconnects after two seconds; by then the     *)
(* handler of its old connection has returned.                             *)
(***************************************************************************)
EXTENDS SharedText, Sequences, FiniteSets

CONSTANT
  MaxEvents   \* bound: edits, logouts, broken connections, full buffers and failing UPDATEs,
              \*   taken together

ASSUME CollabAssumption == MaxEvents \in Nat

VARIABLES
  state,    \* state[t]: where tab t is
  blob,     \* blob[t]: the response to getBlob that is on its way
  snap,     \* snap[t]: snapshotTimer is set
  joined,   \* joined[t]: t's connection is in the room
  up, down, \* frames from and to tab t
  pend,     \* pend[t]: the snapshots that wait in saveQ and in t's save loop
  missed,   \* missed[t]: since t connected, its out buffer was too full for a frame
  lost,     \* lost[t]: the last snapshot of t's connection was dropped or could not be stored
  store,    \* documents.bytes
  events    \* what MaxEvents bounds, so far

tabVars == <<state, doc, blob, snap, blank>>
userVars == <<made, past, events>>
saveVars == <<pend, lost>>
hubVars == <<joined, up, down, missed, saveVars>>
vars == <<tabVars, hubVars, store, userVars>>

\* Frames carry edits that were made.
Frames == [type : {"update", "syncRes"}, text : SUBSET made]
            \cup [type : {"syncReq"}, text : {{}}]

Init ==
  /\ TextInit
  /\ state = [t \in Tabs |-> "new"]
  /\ blob = [t \in Tabs |-> {}]
  /\ snap = [t \in Tabs |-> FALSE]
  /\ joined = [t \in Tabs |-> FALSE]
  /\ up = [t \in Tabs |-> <<>>]
  /\ down = [t \in Tabs |-> <<>>]
  /\ pend = [t \in Tabs |-> <<>>]
  /\ missed = [t \in Tabs |-> FALSE]
  /\ lost = [t \in Tabs |-> FALSE]
  /\ store = {Base}
  /\ events = 0

-----------------------------------------------------------------------------
(* Opening the document.                                                   *)

\* The document is picked: a clean Y.Doc, and a request for the snapshot.
Open(t) ==
  /\ state[t] = "new"
  /\ state' = [state EXCEPT ![t] = "loading"]
  /\ UNCHANGED <<doc, blob, snap, blank, hubVars, store, userVars>>

\* The server reads the row.
ServeBlob(t) ==
  /\ state[t] = "loading"
  /\ state' = [state EXCEPT ![t] = "loaded"]
  /\ blob' = [blob EXCEPT ![t] = store]
  /\ UNCHANGED <<doc, snap, blank, hubVars, store, userVars>>

\* The tab applies edits that came from elsewhere: if they change anything, Yjs
\* reports an update and the snapshot timer starts.
Apply(t, text, shows) ==
  /\ Learn(t, text, shows)
  /\ snap' = [snap EXCEPT ![t] = @ \/ Changes(t, text)]

\* The response arrives; the tab shows the text there is, and connects.
BlobArrives(t) ==
  /\ state[t] = "loaded"
  /\ state' = [state EXCEPT ![t] = "connecting"]
  /\ Apply(t, blob[t], TRUE)
  /\ blob' = [blob EXCEPT ![t] = {}]
  /\ UNCHANGED <<hubVars, store, events>>

\* The request is refused or fails: "start fresh" and connect.
BlobFails(t) ==
  /\ state[t] \in {"loading", "loaded"}
  /\ state' = [state EXCEPT ![t] = "connecting"]
  /\ blob' = [blob EXCEPT ![t] = {}]
  /\ Empty(t)
  /\ UNCHANGED <<snap, hubVars, store, events>>

\* ServeWS has accepted the handshake and joins the room, before or after the
\* tab's onopen.
Join(t) ==
  /\ state[t] \in {"connecting", "on"}
  /\ ~joined[t]
  /\ joined' = [joined EXCEPT ![t] = TRUE]
  /\ UNCHANGED <<tabVars, up, down, missed, saveVars, store, userVars>>

\* send(): the frame is dropped unless the socket is open.
Sending(t, f) ==
  IF state[t] = "on" THEN [up EXCEPT ![t] = Append(@, f)] ELSE up

SyncReq == [type |-> "syncReq", text |-> {}]
SyncRes(text) == [type |-> "syncRes", text |-> text]
Update(text) == [type |-> "update", text |-> text]

\* Fault: onopen asks for nothing.
OpenedQuietly(t) ==
  /\ state[t] = "connecting"
  /\ state' = [state EXCEPT ![t] = "on"]
  /\ UNCHANGED <<doc, blob, snap, blank, hubVars, store, userVars>>

\* onopen: ask for the full state.
Opened(t) ==
  /\ state[t] = "connecting"
  /\ state' = [state EXCEPT ![t] = "on"]
  /\ up' = [up EXCEPT ![t] = Append(@, SyncReq)]
  /\ UNCHANGED <<doc, blob, snap, blank, joined, down, missed, saveVars, store, userVars>>

-----------------------------------------------------------------------------
(* The open document.                                                      *)

\* One more of the events that are bounded.
Counted == events' = events + 1 /\ events' <= MaxEvents

\* The user types, connected or not.
Edit(t) ==
  /\ state[t] \notin {"new", "left"}
  /\ Counted
  /\ \E e \in EditsOf(t) : Type(t, e) /\ up' = Sending(t, Update({e}))
  /\ snap' = [snap EXCEPT ![t] = TRUE]
  /\ UNCHANGED <<state, blob, joined, down, missed, saveVars, store>>

\* doLogout: the text area is emptied; the document and the connection stay.  (What
\* a logout does to a response still to come is in DocSession.)
Logout(t) ==
  /\ state[t] \in {"connecting", "on", "lost"}
  /\ Counted
  /\ Empty(t)
  /\ UNCHANGED <<state, blob, snap, hubVars, store>>

\* Fault: the tab snapshots what it wrote, not what it was sent.
ReceiveNoSnapshot(t) ==
  /\ state[t] = "on"
  /\ down[t] # <<>>
  /\ down' = [down EXCEPT ![t] = Tail(@)]
  /\ LET f == Head(down[t])
     IN  /\ up' = IF f.type = "syncReq" THEN Sending(t, SyncRes(doc[t])) ELSE up
         /\ Learn(t, f.text, FALSE)
  /\ UNCHANGED <<state, blob, snap, joined, missed, saveVars, store, events>>

\* Fault: the text area is not told of what others wrote.
ReceiveQuietly(t) ==
  /\ state[t] = "on"
  /\ down[t] # <<>>
  /\ down' = [down EXCEPT ![t] = Tail(@)]
  /\ LET f == Head(down[t])
     IN  /\ up' = IF f.type = "syncReq" THEN Sending(t, SyncRes(doc[t])) ELSE up
         /\ doc' = [doc EXCEPT ![t] = @ \cup f.text]
         /\ snap' = [snap EXCEPT ![t] = @ \/ Changes(t, f.text)]
  /\ UNCHANGED <<state, blob, blank, joined, missed, saveVars, store, userVars>>

\* onmessage.  A tab does not know its own request when it comes back, and
\* answers it.
Receive(t) ==
  /\ state[t] = "on"
  /\ down[t] # <<>>
  /\ down' = [down EXCEPT ![t] = Tail(@)]
  /\ LET f == Head(down[t])
     IN  \/ /\ f.type = "syncReq"
            /\ up' = Sending(t, SyncRes(doc[t]))
            /\ UNCHANGED <<textVars, snap>>
         \/ /\ f.type # "syncReq"
            /\ Apply(t, f.text, FALSE)
            /\ UNCHANGED up
  /\ UNCHANGED <<state, blob, joined, missed, saveVars, store, events>>

\* The snapshot timer fires.
SnapshotTimerFires(t) ==
  /\ snap[t]
  /\ snap' = [snap EXCEPT ![t] = FALSE]
  /\ up' = Sending(t, SyncRes(doc[t]))
  /\ UNCHANGED <<state, doc, blob, blank, joined, down, missed, saveVars, store, userVars>>

-----------------------------------------------------------------------------
(* The hub.                                                                *)

\* The frame reaches tab e, if e is in the room.  One that brings e nothing new
\* is left out, since Yjs ignores it and e only learns more until it arrives.
Reaches(e, f) == joined[e] /\ (f.type = "syncReq" \/ ~(f.text \subseteq doc[e]))

Delivered(f, es) == [e \in Tabs |-> IF e \in es THEN Append(down[e], f) ELSE down[e]]
Reached(f) == {e \in Tabs : Reaches(e, f)}

\* QueueSave: a snapshot joins the queue.
Queue(t, f) ==
  IF f.type = "syncRes"
    THEN /\ pend' = [pend EXCEPT ![t] = Append(@, f.text)]
         /\ lost' = [lost EXCEPT ![t] = FALSE]
    ELSE UNCHANGED saveVars

\* QueueSave when the queue is full: the newest snapshot is dropped.
Discard(t, f) ==
  /\ f.type = "syncRes" /\ pend[t] # <<>>
  /\ lost' = [lost EXCEPT ![t] = TRUE]
  /\ UNCHANGED pend

\* Fault: a frame is not sent back to the one it came from.
RelayToOthers(t) ==
  /\ joined[t] /\ up[t] # <<>>
  /\ LET f == Head(up[t])
     IN  down' = Delivered(f, Reached(f) \ {t}) /\ Queue(t, f)
  /\ up' = [up EXCEPT ![t] = Tail(@)]
  /\ UNCHANGED <<tabVars, joined, missed, store, userVars>>

\* Fault: a snapshot is not queued behind one that still has to be stored.
RelayKeepsFirst(t) ==
  /\ joined[t] /\ up[t] # <<>>
  /\ LET f == Head(up[t])
     IN  /\ down' = Delivered(f, Reached(f))
         /\ IF pend[t] = <<>> THEN Queue(t, f) ELSE UNCHANGED saveVars
  /\ up' = [up EXCEPT ![t] = Tail(@)]
  /\ UNCHANGED <<tabVars, joined, missed, store, userVars>>

\* One turn of the read loop: broadcast to the room, the sender included, and
\* queue a snapshot for saving.
Relay(t) ==
  /\ joined[t] /\ up[t] # <<>>
  /\ LET f == Head(up[t])
     IN  down' = Delivered(f, Reached(f)) /\ Queue(t, f)
  /\ up' = [up EXCEPT ![t] = Tail(@)]
  /\ UNCHANGED <<tabVars, joined, missed, store, userVars>>

\* The same turn when buffers are full: those of some clients, which are skipped, or
\* the queue for saving.
RelayFull(t) ==
  /\ joined[t] /\ up[t] # <<>>
  /\ Counted
  /\ LET f == Head(up[t])
     IN  \E full \in SUBSET Reached(f) :
           /\ down' = Delivered(f, Reached(f) \ full)
           /\ missed' = [e \in Tabs |-> missed[e] \/ e \in full]
           /\ \/ full # {} /\ Queue(t, f)
              \/ Discard(t, f)
  /\ up' = [up EXCEPT ![t] = Tail(@)]
  /\ UNCHANGED <<tabVars, joined, store, made, past>>

Rest(q, n) == SubSeq(q, n + 1, Len(q))

\* The save loop's UPDATE.  Of snapshots that follow each other closely only the last
\* is stored.
Save(t) ==
  /\ \E n \in 1..Len(pend[t]) :
       /\ store' = pend[t][n]
       /\ pend' = [pend EXCEPT ![t] = Rest(@, n)]
  /\ UNCHANGED <<tabVars, joined, up, down, missed, lost, userVars>>

\* The UPDATE fails: its error is ignored, and the snapshot forgotten.
SaveFails(t) ==
  /\ Counted
  /\ \E n \in 1..Len(pend[t]) :
       /\ pend' = [pend EXCEPT ![t] = Rest(@, n)]
       /\ lost' = [lost EXCEPT ![t] = @ \/ n = Len(pend[t])]
  /\ UNCHANGED <<tabVars, joined, up, down, missed, store, made, past>>

\* The hub's side of a connection that ended: nothing is left of it.
Cut(t) ==
  /\ joined' = [joined EXCEPT ![t] = FALSE]
  /\ up' = [up EXCEPT ![t] = <<>>]
  /\ down' = [down EXCEPT ![t] = <<>>]
  /\ pend' = [pend EXCEPT ![t] = <<>>]
  /\ missed' = [missed EXCEPT ![t] = FALSE]
  /\ lost' = [lost EXCEPT ![t] = FALSE]

\* A connection breaks and is noticed on both sides.
Drop(t) ==
  /\ state[t] = "on"
  /\ Counted
  /\ state' = [state EXCEPT ![t] = "lost"]
  /\ Cut(t)
  /\ UNCHANGED <<doc, blob, snap, blank, store, made, past>>

\* The reconnect timer fires: the document is kept, the snapshot not asked for.
Reconnect(t) ==
  /\ state[t] = "lost"
  /\ state' = [state EXCEPT ![t] = "connecting"]
  /\ UNCHANGED <<doc, blob, snap, blank, hubVars, store, userVars>>

\* The tab is closed, and with it goes its document.
Close(t) ==
  /\ state[t] \notin {"new", "left"}
  /\ state' = [state EXCEPT ![t] = "left"]
  /\ blob' = [blob EXCEPT ![t] = {}]
  /\ snap' = [snap EXCEPT ![t] = FALSE]
  /\ Cut(t)
  /\ UNCHANGED <<textVars, store, events>>

\* What happens by itself once a tab has opened the document.
Progress(t) ==
  \/ ServeBlob(t) \/ BlobArrives(t) \/ Join(t) \/ Opened(t)
  \/ Receive(t) \/ SnapshotTimerFires(t) \/ Relay(t) \/ Save(t) \/ Reconnect(t)

StayingNext ==
  \E t \in Tabs :
    Open(t) \/ Edit(t) \/ Logout(t) \/ Drop(t) \/ RelayFull(t) \/ SaveFails(t) \/ Progress(t)

Next == StayingNext \/ \E t \in Tabs : BlobFails(t) \/ Close(t)

Spec == Init /\ [][Next]_vars

\* Requests are answered, timers fire, handlers and save loops run: as long as something
\* can happen by itself in a tab or its handler, something does.
Fairness == \A t \in Tabs : WF_vars(Progress(t))

\* Connections break and come back, buffers fill up and UPDATEs fail, but every request
\* is answered and nobody closes the tab.
StayingSpec == Init /\ [][StayingNext]_vars /\ Fairness

-----------------------------------------------------------------------------

\* Every variable keeps its type.
TypeOK ==
  /\ TextTypeOK
  /\ state \in [Tabs -> {"new", "loading", "loaded", "connecting", "on", "lost", "left"}]
  /\ blob \in [Tabs -> SUBSET made]
  /\ snap \in [Tabs -> BOOLEAN]
  /\ joined \in [Tabs -> BOOLEAN]
  /\ up \in [Tabs -> Seq(Frames)]
  /\ down \in [Tabs -> Seq(Frames)]
  /\ pend \in [Tabs -> Seq(SUBSET made)]
  /\ missed \in [Tabs -> BOOLEAN]
  /\ lost \in [Tabs -> BOOLEAN]
  /\ store \in SUBSET made
  /\ events \in 0..MaxEvents

\* What the protocol does to the text is what SharedText allows, so what holds of
\* the text there holds here.
ImplementsText == TextSpec

\* Tabs that opened the document.
OpenTabs == {t \in Tabs : state[t] # "new"}

\* Nothing is on its way from or to t.
Idle(t) == up[t] = <<>> /\ down[t] = <<>>

\* Connected tabs with nothing on its way have the same text, whatever others are
\* doing and whoever left in between: no tab is ever left with a gap that no frame
\* or request will fill, unless its own buffer was too full since it connected.
\* (ws-sync.service.ts:140, 175-178, hub.go:60-73, room.go:33-40)
IdleTabsAgree ==
  \A u, v \in Tabs :
    state[u] = "on" /\ state[v] = "on" /\ Idle(u) /\ Idle(v) /\ ~missed[u] /\ ~missed[v]
      => doc[u] = doc[v]

\* When nobody has left and nothing is on its way, waits for a timer or is to be
\* stored, the row holds what the tabs show, and all that was typed is in it: no old
\* snapshot is the last to be stored, unless the last one of some tab was dropped or could
\* not be.  (ws-sync.service.ts:265-272, hub.go:75-97, conn.go:73)
QuietMeansSaved ==
  (\A t \in Tabs : /\ state[t] \in {"new", "on"} /\ Idle(t) /\ ~snap[t] /\ pend[t] = <<>>
                   /\ ~missed[t] /\ ~lost[t])
    => \A t \in OpenTabs : doc[t] = store /\ made \ {Base} \subseteq doc[t]

\* Tabs that stay end up with the same text, and it is all the text there is,
\* although edits made without a connection are never sent as such; but for frames
\* that a full buffer kept from a tab that did not reconnect since.
\* (ws-sync.service.ts:140, 175-178, 234)
TabsConverge ==
  <>[]((\A t \in Tabs : ~missed[t]) => \A t \in OpenTabs : state[t] = "on" /\ doc[t] = made)

\* The row ends up with all of it as well, although tabs overwrite each other's
\* snapshots and UPDATEs fail, if the last snapshot of no tab was lost.
\* (ws-sync.service.ts:68, 265-272, hub.go:92-97)
StoreCatchesUp ==
  <>[](OpenTabs # {} /\ (\A t \in Tabs : ~missed[t] /\ ~lost[t]) => store = made)

-----------------------------------------------------------------------------

\* hub.go:75 says that full snapshots are saved, ws-sync.service.ts:8 that a
\* tab which opens a document asks its peers for it: text that is stored stays
\* stored, whoever opens the document.
StoredTextSurvives == Base \in store
=============================================================================
