-------------------------------- MODULE Hub --------------------------------
(***************************************************************************)
(* The WebSocket backend: hub.go, room.go, conn.go and redis_bus.go of     *)
(* backend/internal/ws, with the UPDATE that store.SaveDoc issues.         *)
(*                                                                         *)
(* Every backend replica (an Instance) runs one Hub.  One Conn is one call *)
(* of ServeWS: its goroutine reads a frame, publishes it on Redis,         *)
(* broadcasts it in the room and queues it for saving; beside it run the   *)
(* connection's WriteLoop and its save loop.  One more goroutine per       *)
(* instance receives what Redis delivers.  A step of the model is what one *)
(* goroutine does between two points where another can interfere: a lock,  *)
(* a channel operation, a network or database call.                        *)
(*                                                                         *)
(* A definition whose comment starts with "Fault" is not part of the model: *)
(* it is a plausible bug that the properties are shown to catch.           *)
(*                                                                         *)
(* What a client puts on the wire is not modelled here: modules that       *)
(* extend this one append to inbox and set gone.                           *)
(***************************************************************************)
EXTENDS Naturals, Sequences, FiniteSets

CONSTANTS
  Instances,     \* backend replicas, each with its own Hub
  Docs,          \* values of the docId query parameter
  Conns,         \* connections: each is one call of ServeWS
  Home,          \* Home[c]: the replica the load balancer picked for c
  DocOf,         \* DocOf[c]: the docId c asked for
  StoredDocs,    \* docs that have a row in the documents table
  Bodies,        \* what follows the type byte of a frame
  NoBody,        \* no bytes: an empty payload, a nil slice, an empty row
  RoomIds,       \* identities of Room objects
  NoRoom,        \* a nil *Room
  NoFrame,       \* a goroutine that is not handling any frame
  OutCap,        \* capacity of Conn.out    (256 in the code)
  SaveCap,       \* capacity of Conn.saveQ  (64 in the code)
  MaxRetries     \* go-redis: how often a call is sent again  (3, the default)

FrameTypes == {"update", "syncReq", "syncRes", "awareness"}
Frames == [type : FrameTypes, body : Bodies \cup {NoBody}]
BusMessages == [doc : Docs, payload : Frames]

\* The goroutines that call Room.Broadcast: the ServeWS call of every
\* connection, and the bus subscriber of every instance.
Goroutines == Conns \cup Instances

ASSUME HubAssumption ==
  /\ Conns \cap Instances = {}
  /\ Home \in [Conns -> Instances]
  /\ DocOf \in [Conns -> Docs]
  /\ StoredDocs \subseteq Docs
  /\ NoBody \notin Bodies
  /\ NoFrame \notin Frames
  /\ RoomIds \subseteq Nat /\ NoRoom \notin RoomIds
  /\ OutCap \in Nat \ {0} /\ SaveCap \in Nat \ {0}
  /\ MaxRetries \in Nat

VARIABLES
  pc,          \* pc[c]: where the ServeWS call of c is
  rm,          \* rm[c]: the Room c.rm points to
  cur,         \* cur[g]: the frame goroutine g is handling
  todo,        \* todo[g]: clients g's Broadcast loop has still to offer cur[g]
  rooms,       \* rooms[i][d]: Hub.rooms of instance i
  members,     \* members[r]: Room.clients
  out,         \* out[c]: Conn.out
  saveQ,       \* saveQ[c]: Conn.saveQ
  latest,      \* latest[c]: the save loop's pending snapshot
  saving,      \* saving[c]: the snapshot of an UPDATE still under way
  inbox,       \* inbox[c]: frames the client has sent, not yet read
  wire,        \* wire[c]: frames written to the client, in order
  gone,        \* gone[c]: the client's end of the connection is closed
  subscribed,  \* subscribed[i]: Redis knows i's PSUBSCRIBE
  bus,         \* bus[i]: messages Redis has for instance i
  tries,       \* tries[c]: how often c's PUBLISH has been sent again
  unanswered,  \* unanswered[m], of every message m with a PUBLISH that got no
               \* answer: how many of these Redis has not run, and may yet
  store,       \* store[d]: documents.bytes
  version      \* version[d]: documents.version

handlerVars == <<pc, rm, cur, todo>>
roomVars    == <<rooms, members>>
saveVars    == <<saveQ, latest, saving>>
netVars     == <<inbox, wire, gone>>
busVars     == <<subscribed, bus, tries, unanswered>>
dbVars      == <<store, version>>
hubVars     == <<handlerVars, roomVars, out, saveVars, netVars, busVars, dbVars>>

\* In the read loop of ServeWS.
Looping == {"reading", "publishing", "broadcasting", "offering"}
\* Between Join and Leave.
Joined == Looping \cup {"leaving"}
\* The request context is alive: WriteLoop and the save loop run.
Running == Joined \cup {"closing"}
\* Every value of pc[c].
Phases == {"new", "joining", "closed"} \cup Running

\* hub.go:117: a snapshot frame with at least one byte after its type.
IsSnapshot(f) == f.type = "syncRes" /\ f.body # NoBody

\* A Broadcast loop holds r.mu for reading until it has offered its frame to
\* every client; Join and Leave need the lock for writing.
ReadLocked(r) == \E g \in Goroutines : todo[g] \cap members[r] # {}

HubInit ==
  /\ pc = [c \in Conns |-> "new"]
  /\ rm = [c \in Conns |-> NoRoom]
  /\ cur = [g \in Goroutines |-> NoFrame]
  /\ todo = [g \in Goroutines |-> {}]
  /\ rooms = [i \in Instances |-> [d \in Docs |-> NoRoom]]
  /\ members = [r \in RoomIds |-> {}]
  /\ out = [c \in Conns |-> <<>>]
  /\ saveQ = [c \in Conns |-> <<>>]
  /\ latest = [c \in Conns |-> NoBody]
  /\ saving = [c \in Conns |-> NoBody]
  /\ inbox = [c \in Conns |-> <<>>]
  /\ wire = [c \in Conns |-> <<>>]
  /\ gone = [c \in Conns |-> FALSE]
  /\ subscribed = [i \in Instances |-> FALSE]
  /\ bus = [i \in Instances |-> <<>>]
  /\ tries = [c \in Conns |-> 0]
  /\ unanswered = <<>>
  /\ store = [d \in Docs |-> NoBody]
  /\ version = [d \in Docs |-> 0]

-----------------------------------------------------------------------------
(* ServeWS: accept, room, join.                                            *)

FreeRooms ==
  {r \in RoomIds : \A i \in Instances, d \in Docs : rooms[i][d] # r}

\* Fault: a room is made for every connection.
GetRoomAlwaysNew(c) ==
  \E r \in FreeRooms :
    /\ \A q \in FreeRooms : r <= q
    /\ rooms' = [rooms EXCEPT ![Home[c]][DocOf[c]] = r]
    /\ members' = [members EXCEPT ![r] = {}]
    /\ rm' = [rm EXCEPT ![c] = r]

\* Fault: the room is looked up but never made.
GetRoomLookupOnly(c) ==
  /\ rm' = [rm EXCEPT ![c] = rooms[Home[c]][DocOf[c]]]
  /\ UNCHANGED roomVars

\* Hub.room: the room of the document, made under h.mu when there is none.
GetRoom(c) ==
  LET i == Home[c]
      d == DocOf[c]
  IN  \/ /\ rooms[i][d] # NoRoom
         /\ rm' = [rm EXCEPT ![c] = rooms[i][d]]
         /\ UNCHANGED roomVars
      \/ /\ rooms[i][d] = NoRoom
         /\ \E r \in FreeRooms :
              /\ \A q \in FreeRooms : r <= q
              /\ rooms' = [rooms EXCEPT ![i][d] = r]
              /\ members' = [members EXCEPT ![r] = {}]
              /\ rm' = [rm EXCEPT ![c] = r]

\* The upgrade succeeds and the handler looks its room up.
Accept(c) ==
  /\ pc[c] = "new"
  /\ GetRoom(c)
  /\ pc' = [pc EXCEPT ![c] = "joining"]
  /\ UNCHANGED <<cur, todo, out, saveVars, netVars, busVars, dbVars>>

\* Room.Join, then the writer and the save loop are started.
Join(c) ==
  /\ pc[c] = "joining"
  /\ ~ReadLocked(rm[c])
  /\ members' = [members EXCEPT ![rm[c]] = @ \cup {c}]
  /\ pc' = [pc EXCEPT ![c] = "reading"]
  /\ UNCHANGED <<rm, cur, todo, rooms, out, saveVars, netVars, busVars, dbVars>>

-----------------------------------------------------------------------------
(* ServeWS: the read loop.                                                 *)

\* c.Read returns the next frame.
ReadFrame(c) ==
  /\ pc[c] = "reading"
  /\ inbox[c] # <<>>
  /\ cur' = [cur EXCEPT ![c] = Head(inbox[c])]
  /\ inbox' = [inbox EXCEPT ![c] = Tail(@)]
  /\ pc' = [pc EXCEPT ![c] = "publishing"]
  /\ UNCHANGED <<rm, todo, roomVars, out, saveVars, wire, gone, busVars, dbVars>>

\* What c's handler has for the other replicas.
Message(c) == [doc |-> DocOf[c], payload |-> cur[c]]

\* Redis runs a PUBLISH: it hands the message to the instances subscribed at that
\* moment, the publisher's own among them.
Handed(m) ==
  [i \in Instances |-> IF subscribed[i] THEN Append(bus[i], m) ELSE bus[i]]

\* Fault: an instance listens to the document's channel and to the pattern, and
\* Redis hands it the message for each.
PublishHeardTwice(c) ==
  /\ pc[c] = "publishing"
  /\ pc' = [pc EXCEPT ![c] = "broadcasting"]
  /\ tries' = [tries EXCEPT ![c] = 0]
  /\ bus' = [i \in Instances |->
               IF subscribed[i] THEN bus[i] \o <<Message(c), Message(c)>> ELSE bus[i]]
  /\ UNCHANGED <<rm, cur, todo, roomVars, out, saveVars, netVars, subscribed,
                 unanswered, dbVars>>

\* Fault: the call is made by a goroutine of its own, and may be overtaken.
PublishOvertaken(c) ==
  /\ pc[c] = "publishing"
  /\ pc' = [pc EXCEPT ![c] = "broadcasting"]
  /\ tries' = [tries EXCEPT ![c] = 0]
  /\ bus' = [i \in Instances |->
               IF subscribed[i] THEN <<Message(c)>> \o bus[i] ELSE bus[i]]
  /\ UNCHANGED <<rm, cur, todo, roomVars, out, saveVars, netVars, subscribed,
                 unanswered, dbVars>>

\* RedisBus.Publish: Redis runs the PUBLISH and its answer arrives.
Publish(c) ==
  /\ pc[c] = "publishing"
  /\ pc' = [pc EXCEPT ![c] = "broadcasting"]
  /\ tries' = [tries EXCEPT ![c] = 0]
  /\ bus' = Handed(Message(c))
  /\ UNCHANGED <<rm, cur, todo, roomVars, out, saveVars, netVars, subscribed,
                 unanswered, dbVars>>

\* No answer arrives: the connection to Redis broke, or the time is over.
\* go-redis sends the call again, on another connection, or returns the error,
\* which ServeWS ignores.
Unanswered(c) ==
  /\ pc[c] = "publishing"
  /\ LET m == Message(c)
         before == IF m \in DOMAIN unanswered THEN unanswered[m] ELSE 0
     IN  unanswered' = [x \in DOMAIN unanswered \cup {m} |->
                          IF x = m THEN before + 1 ELSE unanswered[x]]
  /\ \/ /\ tries[c] < MaxRetries
        /\ tries' = [tries EXCEPT ![c] = @ + 1]
        /\ UNCHANGED pc
     \/ /\ tries' = [tries EXCEPT ![c] = 0]
        /\ pc' = [pc EXCEPT ![c] = "broadcasting"]
  /\ UNCHANGED <<rm, cur, todo, roomVars, out, saveVars, netVars, subscribed, bus, dbVars>>

\* Redis had such a PUBLISH all the same, and runs it: at once, so that only the
\* answer was lost, or when the caller has long gone on.  It need never happen.
ServeLate(m) ==
  /\ m \in DOMAIN unanswered
  /\ unanswered[m] > 0
  /\ unanswered' = [unanswered EXCEPT ![m] = @ - 1]
  /\ bus' = Handed(m)
  /\ UNCHANGED <<handlerVars, roomVars, out, saveVars, netVars, subscribed, tries, dbVars>>

\* Room.Broadcast takes the read lock and starts its loop over the clients.
StartBroadcast(c) ==
  /\ pc[c] = "broadcasting"
  /\ todo' = [todo EXCEPT ![c] = members[rm[c]]]
  /\ pc' = [pc EXCEPT ![c] = "offering"]
  /\ UNCHANGED <<rm, cur, roomVars, out, saveVars, netVars, busVars, dbVars>>

\* A non-blocking send on c.out: a full buffer skips the client.
Offered(q, f) == IF Len(q) < OutCap THEN Append(q, f) ELSE q

\* Fault: the send blocks while the buffer is full, and the loop happens to
\* come to the full ones first.
OfferBlocks(g, c) ==
  /\ c \in todo[g]
  /\ \A e \in todo[g] : Len(out[e]) < OutCap
  /\ out' = [out EXCEPT ![c] = Append(@, cur[g])]
  /\ todo' = [todo EXCEPT ![g] = @ \ {c}]
  /\ cur' = [cur EXCEPT ![g] =
               IF g \in Instances /\ todo[g] = {c} THEN NoFrame ELSE @]
  /\ UNCHANGED <<pc, rm, roomVars, saveVars, netVars, busVars, dbVars>>

\* One turn of the Broadcast loop of goroutine g, in any order of clients.
Offer(g, c) ==
  /\ c \in todo[g]
  /\ out' = [out EXCEPT ![c] = Offered(@, cur[g])]
  /\ todo' = [todo EXCEPT ![g] = @ \ {c}]
  /\ cur' = [cur EXCEPT ![g] =
               IF g \in Instances /\ todo[g] = {c} THEN NoFrame ELSE @]
  /\ UNCHANGED <<pc, rm, roomVars, saveVars, netVars, busVars, dbVars>>

\* Conn.QueueSave: a non-blocking send that drops the newest when full.
Queued(q, b) == IF Len(q) < SaveCap THEN Append(q, b) ELSE q

\* The end of one turn of the read loop.
QueueSave(c) ==
  /\ pc[c] = "offering"
  /\ todo[c] = {}
  /\ saveQ' = IF IsSnapshot(cur[c])
                THEN [saveQ EXCEPT ![c] = Queued(@, cur[c].body)]
                ELSE saveQ
  /\ cur' = [cur EXCEPT ![c] = NoFrame]
  /\ pc' = [pc EXCEPT ![c] = "reading"]
  /\ UNCHANGED <<rm, todo, roomVars, out, latest, saving, netVars, busVars, dbVars>>

-----------------------------------------------------------------------------
(* ServeWS: the way out.                                                   *)

\* c.Read fails: what the client sent has been read and its end is closed.
ReadFails(c) ==
  /\ pc[c] = "reading"
  /\ inbox[c] = <<>>
  /\ gone[c]
  /\ pc' = [pc EXCEPT ![c] = "leaving"]
  /\ UNCHANGED <<rm, cur, todo, roomVars, out, saveVars, netVars, busVars, dbVars>>

\* Fault: the connection stays in the room.
LeaveForgets(c) ==
  /\ pc[c] = "leaving"
  /\ ~ReadLocked(rm[c])
  /\ pc' = [pc EXCEPT ![c] = "closing"]
  /\ UNCHANGED <<rm, cur, todo, roomVars, out, saveVars, netVars, busVars, dbVars>>

\* Fault: Leave does not take the lock.
LeaveUnlocked(c) ==
  /\ pc[c] = "leaving"
  /\ members' = [members EXCEPT ![rm[c]] = @ \ {c}]
  /\ pc' = [pc EXCEPT ![c] = "closing"]
  /\ UNCHANGED <<rm, cur, todo, rooms, out, saveVars, netVars, busVars, dbVars>>

\* Room.Leave.
Leave(c) ==
  /\ pc[c] = "leaving"
  /\ ~ReadLocked(rm[c])
  /\ members' = [members EXCEPT ![rm[c]] = @ \ {c}]
  /\ pc' = [pc EXCEPT ![c] = "closing"]
  /\ UNCHANGED <<rm, cur, todo, rooms, out, saveVars, netVars, busVars, dbVars>>

\* Fault: the loops get a context of their own, which outlives the request's.
ReturnKeepsLoops(c) ==
  /\ pc[c] = "closing"
  /\ pc' = [pc EXCEPT ![c] = "closed"]
  /\ UNCHANGED <<rm, cur, todo, roomVars, out, saveVars, netVars, busVars, dbVars>>

\* ServeWS returns after Close; net/http cancels the request context, so both
\* loops end and whatever is queued, unsent or waiting for the timer is lost.
\* An UPDATE already sent to PostgreSQL is not recalled.
Return(c) ==
  /\ pc[c] = "closing"
  /\ pc' = [pc EXCEPT ![c] = "closed"]
  /\ out' = [out EXCEPT ![c] = <<>>]
  /\ saveQ' = [saveQ EXCEPT ![c] = <<>>]
  /\ latest' = [latest EXCEPT ![c] = NoBody]
  /\ UNCHANGED <<rm, cur, todo, roomVars, saving, netVars, busVars, dbVars>>

-----------------------------------------------------------------------------
(* The connection's own goroutines.                                        *)

\* WriteLoop writes the next frame; a write to a closed peer fails and the
\* error is ignored.
WriteLoop(c) ==
  /\ pc[c] \in Running
  /\ out[c] # <<>>
  /\ out' = [out EXCEPT ![c] = Tail(@)]
  /\ wire' = IF gone[c] THEN wire
             ELSE [wire EXCEPT ![c] = Append(@, Head(out[c]))]
  /\ UNCHANGED <<handlerVars, roomVars, saveVars, inbox, gone, busVars, dbVars>>

\* Fault: a snapshot that waits for the timer is not replaced by a newer one.
TakeSaveKeepsFirst(c) ==
  /\ pc[c] \in Running
  /\ saving[c] = NoBody
  /\ saveQ[c] # <<>>
  /\ latest' = [latest EXCEPT ![c] = IF @ = NoBody THEN Head(saveQ[c]) ELSE @]
  /\ saveQ' = [saveQ EXCEPT ![c] = Tail(@)]
  /\ UNCHANGED <<handlerVars, roomVars, out, saving, netVars, busVars, dbVars>>

\* The save loop takes a snapshot from the queue; it replaces the one that was
\* waiting, and the 250ms timer starts again.
TakeSave(c) ==
  /\ pc[c] \in Running
  /\ saving[c] = NoBody
  /\ saveQ[c] # <<>>
  /\ latest' = [latest EXCEPT ![c] = Head(saveQ[c])]
  /\ saveQ' = [saveQ EXCEPT ![c] = Tail(@)]
  /\ UNCHANGED <<handlerVars, roomVars, out, saving, netVars, busVars, dbVars>>

\* Fault: latest is not reset after the save.
SaveTickKeeps(c) ==
  /\ pc[c] \in Running
  /\ saving[c] = NoBody
  /\ latest[c] # NoBody
  /\ saving' = [saving EXCEPT ![c] = latest[c]]
  /\ UNCHANGED <<handlerVars, roomVars, out, saveQ, latest, netVars, busVars, dbVars>>

\* The timer fires with a snapshot waiting: SaveDoc sends its UPDATE and the
\* loop blocks until it returns, then forgets the snapshot.  (With none waiting
\* the tick only rearms the timer: a stuttering step.)
SaveTick(c) ==
  /\ pc[c] \in Running
  /\ saving[c] = NoBody
  /\ latest[c] # NoBody
  /\ saving' = [saving EXCEPT ![c] = latest[c]]
  /\ latest' = [latest EXCEPT ![c] = NoBody]
  /\ UNCHANGED <<handlerVars, roomVars, out, saveQ, netVars, busVars, dbVars>>

\* PostgreSQL runs the UPDATE, which matches no row for an unknown document.
SaveCommits(c) ==
  /\ saving[c] # NoBody
  /\ saving' = [saving EXCEPT ![c] = NoBody]
  /\ IF DocOf[c] \in StoredDocs
       THEN /\ store' = [store EXCEPT ![DocOf[c]] = saving[c]]
            /\ version' = [version EXCEPT ![DocOf[c]] = @ + 1]
       ELSE UNCHANGED dbVars
  /\ UNCHANGED <<handlerVars, roomVars, out, saveQ, latest, netVars, busVars>>

\* The UPDATE fails or is cancelled; the error is ignored, nothing retries.
SaveFails(c) ==
  /\ saving[c] # NoBody
  /\ saving' = [saving EXCEPT ![c] = NoBody]
  /\ UNCHANGED <<handlerVars, roomVars, out, saveQ, latest, netVars, busVars, dbVars>>

-----------------------------------------------------------------------------
(* The bus subscriber of an instance.                                      *)

\* Run's goroutine subscribes some time after the process is serving, and
\* again after its Redis connection was lost.
Subscribe(i) ==
  /\ ~subscribed[i]
  /\ subscribed' = [subscribed EXCEPT ![i] = TRUE]
  /\ UNCHANGED <<handlerVars, roomVars, out, saveVars, netVars, bus, tries, unanswered,
                 dbVars>>

\* The subscriber's Redis connection breaks: Redis forgets the subscription
\* and what it had not delivered.
LoseBus(i) ==
  /\ subscribed[i]
  /\ subscribed' = [subscribed EXCEPT ![i] = FALSE]
  /\ bus' = [bus EXCEPT ![i] = <<>>]
  /\ UNCHANGED <<handlerVars, roomVars, out, saveVars, netVars, tries, unanswered, dbVars>>

\* Fault: the message is broadcast in every room of the instance.
BusReceiveEverywhere(i) ==
  /\ todo[i] = {}
  /\ bus[i] # <<>>
  /\ bus' = [bus EXCEPT ![i] = Tail(@)]
  /\ LET clients == UNION {members[r] : r \in {rooms[i][d] : d \in Docs} \ {NoRoom}}
     IN  /\ todo' = [todo EXCEPT ![i] = clients]
         /\ cur' = [cur EXCEPT ![i] =
                      IF clients = {} THEN NoFrame ELSE Head(bus[i]).payload]
  /\ UNCHANGED <<pc, rm, roomVars, out, saveVars, netVars, subscribed, tries, unanswered,
                 dbVars>>

\* The callback of Hub.Run: look the room up and broadcast in it, if there is
\* one.  Rooms are never deleted, so the lookup and the read lock are one step.
BusReceive(i) ==
  /\ todo[i] = {}
  /\ bus[i] # <<>>
  /\ bus' = [bus EXCEPT ![i] = Tail(@)]
  /\ LET m == Head(bus[i])
         r == rooms[i][m.doc]
         clients == IF r = NoRoom THEN {} ELSE members[r]
     IN  /\ todo' = [todo EXCEPT ![i] = clients]
         /\ cur' = [cur EXCEPT ![i] =
                      IF clients = {} THEN NoFrame ELSE m.payload]
  /\ UNCHANGED <<pc, rm, roomVars, out, saveVars, netVars, subscribed, tries, unanswered,
                 dbVars>>

-----------------------------------------------------------------------------

\* The process of instance i ends: it crashed, or main returned after SIGTERM
\* without waiting for hijacked connections.  A new process starts with no
\* rooms and no subscription.  UPDATEs and PUBLISHes under way are not recalled.
Stop(i) ==
  LET here == {c \in Conns : Home[c] = i /\ pc[c] # "new"}
      Reset(f, v) == [c \in Conns |-> IF c \in here THEN v ELSE f[c]]
      GReset(f, v) == [g \in Goroutines |->
                         IF g \in here \cup {i} THEN v ELSE f[g]]
  IN  /\ pc' = Reset(pc, "closed")
      /\ rm' = Reset(rm, NoRoom)
      /\ cur' = GReset(cur, NoFrame)
      /\ todo' = GReset(todo, {})
      /\ rooms' = [rooms EXCEPT ![i] = [d \in Docs |-> NoRoom]]
      /\ members' = [r \in RoomIds |-> members[r] \ here]
      /\ out' = Reset(out, <<>>)
      /\ saveQ' = Reset(saveQ, <<>>)
      /\ latest' = Reset(latest, NoBody)
      /\ inbox' = Reset(inbox, <<>>)
      /\ subscribed' = [subscribed EXCEPT ![i] = FALSE]
      /\ bus' = [bus EXCEPT ![i] = <<>>]
      /\ tries' = Reset(tries, 0)
      /\ UNCHANGED <<saving, wire, gone, unanswered, dbVars>>

\* One turn of the goroutine that serves c, of its two loops, and the end of
\* its UPDATE.
ServeWS(c) ==
  \/ Accept(c) \/ Join(c)
  \/ ReadFrame(c) \/ Publish(c) \/ Unanswered(c) \/ StartBroadcast(c) \/ QueueSave(c)
  \/ \E d \in Conns : Offer(c, d)
  \/ ReadFails(c) \/ Leave(c) \/ Return(c)

SaveLoop(c) == TakeSave(c) \/ SaveTick(c) \/ SaveCommits(c) \/ SaveFails(c)

Subscriber(i) ==
  \/ Subscribe(i) \/ LoseBus(i) \/ BusReceive(i)
  \/ \E d \in Conns : Offer(i, d)

HubNext ==
  \/ \E c \in Conns : ServeWS(c) \/ WriteLoop(c) \/ SaveLoop(c)
  \/ \E i \in Instances : Subscriber(i) \/ Stop(i)
  \/ \E m \in DOMAIN unanswered : ServeLate(m)
=============================================================================
