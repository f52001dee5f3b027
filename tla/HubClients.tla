---------------------------- MODULE HubClients ----------------------------
(***************************************************************************)
(* The hub of Hub.tla with clients that send numbered frames and leave     *)
(* whenever they like.  The properties are about every interleaving of the *)
(* handlers, the broadcast loops, the writers, the save loops and Redis.   *)
(***************************************************************************)
EXTENDS Hub

CONSTANTS
  Quota,        \* bound: Quota[c] is how many frames client c may send
  Leavers,      \* bound: clients that may leave
  MaxUnanswered,\* bound: messages whose PUBLISH Redis may leave unanswered
  ClientTypes,  \* frame types the clients use
  Stuck         \* connections whose peer stops reading: the writer may block

ASSUME ClientsAssumption ==
  /\ Quota \in [Conns -> Nat]
  /\ MaxUnanswered \in Nat
  /\ ClientTypes \subseteq FrameTypes
  /\ \A c \in Conns : {c} \X (1..Quota[c]) \subseteq Bodies
  /\ Stuck \cup Leavers \subseteq Conns

VARIABLE sent   \* sent[c]: every frame client c has sent, in order

vars == <<hubVars, sent>>

Init == HubInit /\ sent = [c \in Conns |-> <<>>]

\* A browser sends its n-th frame.
ClientSend(c) ==
  /\ pc[c] \notin {"new", "closed"}
  /\ ~gone[c]
  /\ Len(sent[c]) < Quota[c]
  /\ \E t \in ClientTypes :
       LET f == [type |-> t, body |-> <<c, Len(sent[c]) + 1>>]
       IN  /\ inbox' = [inbox EXCEPT ![c] = Append(@, f)]
           /\ sent' = [sent EXCEPT ![c] = Append(@, f)]
  /\ UNCHANGED <<handlerVars, roomVars, out, saveVars, wire, gone, busVars, dbVars>>

\* The client closes, or its connection breaks: frames on the way to the
\* server may be lost, the last ones first.
ClientLeave(c) ==
  /\ c \in Leavers
  /\ pc[c] \notin {"new", "closed"}
  /\ ~gone[c]
  /\ gone' = [gone EXCEPT ![c] = TRUE]
  /\ \E n \in 0..Len(inbox[c]) :
       inbox' = [inbox EXCEPT ![c] = SubSeq(@, 1, n)]
  /\ UNCHANGED <<handlerVars, roomVars, out, saveVars, wire, busVars, dbVars, sent>>

Server == HubNext /\ Cardinality(DOMAIN unanswered') <= MaxUnanswered /\ UNCHANGED sent
Clients == \E c \in Conns : ClientSend(c) \/ ClientLeave(c)
Next == Server \/ Clients

\* The runtime schedules every goroutine that can run, and PostgreSQL and
\* Redis answer.  Nobody has to send, to leave, to fail or to be stopped, and a
\* writer whose peer does not read may block for ever.
Fairness ==
  /\ \A c \in Conns :
       /\ WF_vars(ServeWS(c) /\ UNCHANGED sent)
       /\ WF_vars(TakeSave(c) /\ UNCHANGED sent)
       /\ WF_vars(SaveTick(c) /\ UNCHANGED sent)
       /\ WF_vars((SaveCommits(c) \/ SaveFails(c)) /\ UNCHANGED sent)
  /\ \A c \in Conns \ Stuck : WF_vars(WriteLoop(c) /\ UNCHANGED sent)
  /\ \A i \in Instances :
       /\ WF_vars(Subscribe(i) /\ UNCHANGED sent)
       /\ WF_vars((BusReceive(i) \/ \E c \in Conns : Offer(i, c)) /\ UNCHANGED sent)

Spec == Init /\ [][Next]_vars

\* The servers stay up, and Redis and PostgreSQL answer every call, but clients
\* leave.
UpNext ==
  \/ /\ \/ \E c \in Conns : ServeWS(c) \/ WriteLoop(c) \/ TakeSave(c)
                              \/ SaveTick(c) \/ SaveCommits(c)
        \/ \E i \in Instances :
             Subscribe(i) \/ BusReceive(i) \/ \E c \in Conns : Offer(i, c)
     /\ UNCHANGED <<sent, unanswered>>
  \/ Clients

UpSpec == Init /\ [][UpNext]_vars /\ Fairness

-----------------------------------------------------------------------------
(* Type correctness.                                                       *)

\* Every variable keeps its type.
Types ==
  /\ pc \in [Conns -> Phases]
  /\ rm \in [Conns -> RoomIds \cup {NoRoom}]
  /\ cur \in [Goroutines -> Frames \cup {NoFrame}]
  /\ todo \in [Goroutines -> SUBSET Conns]
  /\ rooms \in [Instances -> [Docs -> RoomIds \cup {NoRoom}]]
  /\ members \in [RoomIds -> SUBSET Conns]
  /\ out \in [Conns -> Seq(Frames)]
  /\ saveQ \in [Conns -> Seq(Bodies)]
  /\ latest \in [Conns -> Bodies \cup {NoBody}]
  /\ saving \in [Conns -> Bodies \cup {NoBody}]
  /\ inbox \in [Conns -> Seq(Frames)]
  /\ wire \in [Conns -> Seq(Frames)]
  /\ gone \in [Conns -> BOOLEAN]
  /\ subscribed \in [Instances -> BOOLEAN]
  /\ bus \in [Instances -> Seq(BusMessages)]
  /\ tries \in [Conns -> 0..MaxRetries]
  /\ store \in [Docs -> Bodies \cup {NoBody}]
  /\ version \in [Docs -> Nat]
  /\ sent \in [Conns -> Seq(Frames)]

\* What may still be run late are messages.
LateTypes ==
  DOMAIN unanswered \subseteq BusMessages /\ unanswered \in [DOMAIN unanswered -> Nat]

\* A goroutine that has to offer a frame has one, and a connection that was
\* accepted has a room.
Equipped ==
  /\ \A g \in Goroutines : todo[g] # {} => cur[g] # NoFrame
  /\ \A c \in Conns : pc[c] \in {"publishing", "broadcasting", "offering"}
                        => cur[c] # NoFrame
  /\ \A c \in Conns : pc[c] \notin {"new", "closed"} => rm[c] # NoRoom

\* Type correctness of the whole, and the frames and rooms that must be there.
\* (hub.go:54-124)
TypeOK == Types /\ LateTypes /\ Equipped

-----------------------------------------------------------------------------
(* Safety.                                                                 *)

\* The bodies of frames whose PUBLISH was left without an answer at least once.
Unsure == {m.payload.body : m \in DOMAIN unanswered}

\* Two connections of one document on one replica always meet in one room,
\* the one the subscriber will find, however their handshakes interleave.
\* (hub.go:41-51)
OneRoomPerDoc ==
  \A c \in Conns : pc[c] \in Running \cup {"joining"} =>
    rm[c] = rooms[Home[c]][DocOf[c]]

\* A room holds exactly the connections whose handler is between Join and
\* Leave: no broadcast reaches a connection that was never joined, and none is
\* forgotten in the map when its client goes away.  (room.go:17-28, hub.go:122)
MembersAreJoined ==
  \A r \in RoomIds, c \in Conns : c \in members[r] <=> pc[c] \in Joined /\ rm[c] = r

\* The backend does what Relay promises: nothing crosses from one document to
\* another, nothing is made up, only snapshots reach the store.
R == INSTANCE Relay WITH got <- wire, kept <- store, edition <- version
ImplementsRelay == R!RelaySpec

\* Between replicas a frame arrives again, or after a later one of the same
\* client, only if a PUBLISH of it was left without an answer; whatever else
\* Redis, the rooms and the buffers drop or do late, no other frame is repeated
\* or overtaken.  (hub.go:29-36, 107-114, redis_bus.go:36-58)
RemoteInOrder ==
  \A c, e \in Conns : Home[c] # Home[e] =>
    \A j, k \in 1..Len(wire[c]), m, n \in 1..Quota[e] :
      (j < k /\ wire[c][j].body = <<e, m>> /\ wire[c][k].body = <<e, n>>)
        => m < n \/ <<e, n>> \in Unsure

\* On the sender's own replica a frame arrives at most twice, once from the
\* handler and once from the bus, and at most one copy of it comes after a later
\* frame: what precedes both copies, or is a third one, is older.  Only a frame
\* with an unanswered PUBLISH can do worse.  (hub.go:113-114)
LocalAtMostTwice ==
  \A c, e \in Conns :
    \A i, j, k \in 1..Len(wire[c]), m, n \in 1..Quota[e] :
      ( /\ i < j /\ wire[c][i].body = <<e, m>>
        /\ j < k /\ wire[c][j].body = <<e, n>> /\ wire[c][k].body = <<e, n>> )
        => m < n \/ <<e, n>> \in Unsure

\* Nothing is queued, pending or offered for a connection whose handler has
\* returned; what PostgreSQL was already sent may still be under way.
ClosedIsSilent ==
  \A c \in Conns : pc[c] = "closed" =>
    /\ out[c] = <<>> /\ saveQ[c] = <<>> /\ latest[c] = NoBody
    /\ \A g \in Goroutines : c \notin todo[g]

\* The store never goes back to an older snapshot of the connection that wrote
\* the current one, and never takes the same snapshot twice.  (hub.go:92-97)
SavesGoForward ==
  [][\A d \in Docs :
       (version'[d] # version[d] /\ store[d] # NoBody /\ store'[d][1] = store[d][1])
         => store[d][2] < store'[d][2]]_vars

-----------------------------------------------------------------------------
(* Liveness.                                                               *)

NeverFull(c) == Len(out[c]) < OutCap

\* A frame is on its way to c: a broadcast loop has still to offer it, or Redis
\* has it for c's replica, where c is a member of the room.
OnTheWay(f, c) ==
  \/ \E g \in Goroutines : c \in todo[g] /\ cur[g] = f
  \/ /\ pc[c] \in Joined
     /\ [doc |-> DocOf[c], payload |-> f] \in
          {bus[Home[c]][n] : n \in 1..Len(bus[Home[c]])}

\* A client whose buffer is never full gets every frame that was on its way,
\* even if the writers of other clients are stuck, unless it goes away itself.
\* (room.go:31-40)
SlowPeersDoNoHarm ==
  \A c \in Conns \ Stuck : [](NeverFull(c)) =>
    \A e \in Conns : \A n \in 1..Quota[e], t \in ClientTypes :
      LET f == [type |-> t, body |-> <<e, n>>]
      IN  OnTheWay(f, c) ~>
            \/ f \in {wire[c][k] : k \in 1..Len(wire[c])}
            \/ gone[c]

\* The handler of a client that went away always gets out of its loop and out
\* of its room, whoever else is stuck.  (hub.go:106-123)
HandlersReturn == \A c \in Conns : gone[c] ~> pc[c] = "closed"

\* The body of the last snapshot client c has sent.
LastSnapshot(c) ==
  LET own == SelectSeq(sent[c], IsSnapshot)
  IN  IF own = <<>> THEN NoBody ELSE own[Len(own)].body

\* While nothing fails, the row of a document ends up with the last snapshot of one
\* of its clients, never with one that its own sender has replaced, unless that
\* sender leaves: what is pending then is not saved.
\* (conn.go:70-73, hub.go:82-97)
LastSnapshotWins ==
  \A d \in StoredDocs :
    LET senders == {c \in Conns : DocOf[c] = d /\ Quota[c] > 0}
    IN  <>[]( \/ store[d] \in {LastSnapshot(c) : c \in senders} \ {NoBody}
              \/ \A c \in senders : LastSnapshot(c) = NoBody
              \/ \E c \in senders : gone[c])
=============================================================================
