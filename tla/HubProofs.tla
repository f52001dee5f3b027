----------------------------- MODULE HubProofs -----------------------------
(* What holds of the hub for every number of replicas, documents and        *)
(* connections, every buffer size and every amount of traffic: types,       *)
(* rooms and their members, silence after the end, and that the hub         *)
(* implements Relay.  HubOrderProofs has what holds of the order of frames  *)
(* and saves.                                                               *)
EXTENDS HubClients, SequenceTheorems, TLAPS

\* Redis hands a message to an instance, or does not.
LEMMA HandedTo ==
  ASSUME NEW m, NEW i \in Instances
  PROVE  Handed(m)[i] = bus[i] \/ Handed(m)[i] = Append(bus[i], m)
BY DEF Handed

LEMMA HandedTypes ==
  ASSUME NEW S, NEW m \in S, bus \in [Instances -> Seq(S)]
  PROVE  Handed(m) \in [Instances -> Seq(S)]
<1>1. \A i \in Instances : bus[i] \in Seq(S) /\ Append(bus[i], m) \in Seq(S)
  OBVIOUS
<1> QED
  BY <1>1 DEF Handed

LEMMA TypesStep == TypeOK /\ [Next]_vars => Types'
<1> SUFFICES ASSUME TypeOK, [Next]_vars PROVE Types'
  OBVIOUS
<1> USE HubAssumption, ClientsAssumption DEF TypeOK, Types, Equipped, Goroutines, handlerVars, roomVars, saveVars,
         netVars, busVars, dbVars
<1>1. ASSUME NEW c \in Conns, Accept(c), UNCHANGED sent PROVE Types'
  <2>1. pc' \in [Conns -> Phases]
    BY <1>1 DEF Accept, Phases
  <2>2. Home[c] \in Instances /\ DocOf[c] \in Docs
    OBVIOUS
  <2>3. /\ rm' \in [Conns -> RoomIds \cup {NoRoom}]
        /\ rooms' \in [Instances -> [Docs -> RoomIds \cup {NoRoom}]]
        /\ members' \in [RoomIds -> SUBSET Conns]
    <3>1. CASE rooms[Home[c]][DocOf[c]] # NoRoom
      <4>1. rm' = [rm EXCEPT ![c] = rooms[Home[c]][DocOf[c]]] /\ UNCHANGED roomVars
        BY <1>1, <3>1 DEF Accept, GetRoom
      <4>2. rooms[Home[c]][DocOf[c]] \in RoomIds \cup {NoRoom}
        BY <2>2
      <4> QED
        BY <4>1, <4>2
    <3>2. CASE rooms[Home[c]][DocOf[c]] = NoRoom
      <4>1. PICK r \in RoomIds : /\ rooms' = [rooms EXCEPT ![Home[c]][DocOf[c]] = r]
                                 /\ members' = [members EXCEPT ![r] = {}]
                                 /\ rm' = [rm EXCEPT ![c] = r]
        BY <1>1, <3>2 DEF Accept, GetRoom, FreeRooms
      <4>2. [rooms[Home[c]] EXCEPT ![DocOf[c]] = r] \in [Docs -> RoomIds \cup {NoRoom}]
        BY <2>2
      <4> QED
        BY <2>2, <4>1, <4>2
    <3> QED
      BY <3>1, <3>2
  <2> QED
    BY <1>1, <2>1, <2>3 DEF Accept
<1>2. ASSUME NEW c \in Conns, Join(c), UNCHANGED sent PROVE Types'
  <2>1. pc' \in [Conns -> Phases]
    BY <1>2 DEF Join, Phases, Running, Joined, Looping
  <2>2. members[rm[c]] \cup {c} \in SUBSET Conns
    BY <1>2 DEF Join
  <2>3. members' = [members EXCEPT ![rm[c]] = members[rm[c]] \cup {c}]
    BY <1>2 DEF Join
  <2>4. members' \in [RoomIds -> SUBSET Conns]
    BY <2>2, <2>3
  <2> QED
    BY <1>2, <2>1, <2>4 DEF Join
<1>3. ASSUME NEW c \in Conns, ReadFrame(c), UNCHANGED sent PROVE Types'
  BY <1>3 DEF ReadFrame, Phases, Running, Joined, Looping
<1>4. ASSUME NEW c \in Conns, Publish(c) \/ Unanswered(c), UNCHANGED sent PROVE Types'
  <2>1. pc' \in [Conns -> Phases]
    <3>1. pc' = pc \/ pc' = [pc EXCEPT ![c] = "broadcasting"]
      BY <1>4 DEF Publish, Unanswered
    <3> QED
      BY <3>1 DEF Phases, Running, Joined, Looping
  <2>2. Message(c) \in BusMessages
    BY <1>4 DEF Publish, Unanswered, Message, BusMessages
  <2>3. tries' \in [Conns -> 0..MaxRetries]
    <3>1. CASE tries' = [tries EXCEPT ![c] = 0]
      BY <3>1
    <3>2. CASE tries[c] < MaxRetries /\ tries' = [tries EXCEPT ![c] = @ + 1]
      BY <3>2
    <3> QED
      BY <1>4, <3>1, <3>2 DEF Publish, Unanswered
  <2>4. CASE Publish(c)
    <3>1. bus' \in [Instances -> Seq(BusMessages)]
      BY <2>2, <2>4, HandedTypes DEF Publish
    <3> QED
      BY <1>4, <2>1, <2>3, <2>4, <3>1 DEF Publish
  <2>5. CASE Unanswered(c)
    BY <1>4, <2>1, <2>3, <2>5 DEF Unanswered
  <2> QED
    BY <1>4, <2>4, <2>5
<1>4a. ASSUME NEW m \in BusMessages, ServeLate(m), UNCHANGED sent PROVE Types'
  <2>1. bus' \in [Instances -> Seq(BusMessages)]
    BY <1>4a, HandedTypes DEF ServeLate
  <2> QED
    BY <1>4a, <2>1 DEF ServeLate
<1>5. ASSUME NEW c \in Conns, StartBroadcast(c), UNCHANGED sent PROVE Types'
  BY <1>5 DEF StartBroadcast, Phases, Running, Joined, Looping
<1>6. ASSUME NEW c \in Conns, QueueSave(c), UNCHANGED sent PROVE Types'
  <2>1. pc' \in [Conns -> Phases]
    BY <1>6 DEF QueueSave, Phases, Running, Joined, Looping
  <2>2. IsSnapshot(cur[c]) => cur[c].body \in Bodies
    BY <1>6 DEF QueueSave, IsSnapshot, Frames
  <2>3. saveQ' \in [Conns -> Seq(Bodies)]
    BY <1>6, <2>2 DEF QueueSave, Queued
  <2> QED
    BY <1>6, <2>1, <2>3 DEF QueueSave
<1>7. ASSUME NEW g \in Goroutines, NEW c \in Conns, Offer(g, c), UNCHANGED sent PROVE Types'
  <2>1. cur[g] \in Frames
    BY <1>7 DEF Offer
  <2>2. out' \in [Conns -> Seq(Frames)]
    BY <1>7, <2>1 DEF Offer, Offered
  <2>3. todo' \in [Goroutines -> SUBSET Conns]
    BY <1>7 DEF Offer
  <2>4. cur' \in [Goroutines -> Frames \cup {NoFrame}]
    BY <1>7 DEF Offer
  <2> QED
    BY <1>7, <2>2, <2>3, <2>4 DEF Offer
<1>8. ASSUME NEW c \in Conns, ReadFails(c), UNCHANGED sent PROVE Types'
  BY <1>8 DEF ReadFails, Phases, Running, Joined, Looping
<1>9. ASSUME NEW c \in Conns, Leave(c), UNCHANGED sent PROVE Types'
  BY <1>9 DEF Leave, Phases, Running, Joined, Looping
<1>10. ASSUME NEW c \in Conns, Return(c), UNCHANGED sent PROVE Types'
  BY <1>10 DEF Return, Phases, Running, Joined, Looping
<1>11. ASSUME NEW c \in Conns, WriteLoop(c), UNCHANGED sent PROVE Types'
  <2>1. out' \in [Conns -> Seq(Frames)] /\ wire' \in [Conns -> Seq(Frames)]
    BY <1>11 DEF WriteLoop
  <2> QED
    BY <1>11, <2>1 DEF WriteLoop
<1>12. ASSUME NEW c \in Conns, SaveLoop(c), UNCHANGED sent PROVE Types'
  <2>1. CASE TakeSave(c)
    BY <1>12, <2>1 DEF TakeSave
  <2>2. CASE SaveTick(c)
    BY <1>12, <2>2 DEF SaveTick
  <2>3. CASE SaveCommits(c)
    <3>1. store' \in [Docs -> Bodies \cup {NoBody}] /\ version' \in [Docs -> Nat]
      <4>1. saving[c] \in Bodies /\ DocOf[c] \in Docs
        BY <2>3 DEF SaveCommits
      <4> QED
        <5>1. \/ /\ store' = [store EXCEPT ![DocOf[c]] = saving[c]]
                 /\ version' = [version EXCEPT ![DocOf[c]] = version[DocOf[c]] + 1]
              \/ store' = store /\ version' = version
          BY <2>3 DEF SaveCommits
        <5>2. store \in [Docs -> Bodies \cup {NoBody}] /\ version \in [Docs -> Nat]
          OBVIOUS
        <5> HIDE DEF TypeOK
        <5> QED
          BY <4>1, <5>1, <5>2
    <3>2. saving' \in [Conns -> Bodies \cup {NoBody}]
      BY <2>3 DEF SaveCommits
    <3> QED
      BY <1>12, <2>3, <3>1, <3>2 DEF SaveCommits
  <2>4. CASE SaveFails(c)
    BY <1>12, <2>4 DEF SaveFails
  <2> QED
    BY <1>12, <2>1, <2>2, <2>3, <2>4 DEF SaveLoop
<1>13. ASSUME NEW i \in Instances, Subscribe(i), UNCHANGED sent PROVE Types'
  BY <1>13 DEF Subscribe
<1>14. ASSUME NEW i \in Instances, LoseBus(i), UNCHANGED sent PROVE Types'
  BY <1>14 DEF LoseBus
<1>15. ASSUME NEW i \in Instances, BusReceive(i), UNCHANGED sent PROVE Types'
  <2> DEFINE m == Head(bus[i])
             r == rooms[i][m.doc]
             clients == IF r = NoRoom THEN {} ELSE members[r]
  <2>1. m \in BusMessages /\ bus' \in [Instances -> Seq(BusMessages)]
    BY <1>15 DEF BusReceive
  <2>2. m.payload \in Frames /\ m.doc \in Docs
    <3> HIDE DEF m
    <3> QED
      BY <2>1 DEF BusMessages
  <2>2a. clients \in SUBSET Conns
    <3>1. r \in RoomIds \cup {NoRoom}
      BY <2>2
    <3>2. \A q \in RoomIds : members[q] \in SUBSET Conns
      OBVIOUS
    <3> HIDE DEF TypeOK, r
    <3> QED
      BY <3>1, <3>2
  <2>3. /\ todo' = [todo EXCEPT ![i] = clients]
        /\ cur' = [cur EXCEPT ![i] = IF clients = {} THEN NoFrame ELSE m.payload]
    BY <1>15 DEF BusReceive
  <2> HIDE DEF m, r, clients
  <2>4. todo' \in [Goroutines -> SUBSET Conns] /\ cur' \in [Goroutines -> Frames \cup {NoFrame}]
    BY <2>2, <2>2a, <2>3
  <2> QED
    BY <1>15, <2>1, <2>4 DEF BusReceive
<1>16. ASSUME NEW i \in Instances, Stop(i), UNCHANGED sent PROVE Types'
  <2>1. tries' \in [Conns -> 0..MaxRetries]
    BY <1>16 DEF Stop
  <2> QED
    BY <1>16, <2>1 DEF Stop, Phases
<1>17. ASSUME NEW c \in Conns, ClientSend(c) PROVE Types'
  <2>1. PICK t \in ClientTypes :
          LET f == [type |-> t, body |-> <<c, Len(sent[c]) + 1>>]
          IN  /\ inbox' = [inbox EXCEPT ![c] = Append(@, f)]
              /\ sent' = [sent EXCEPT ![c] = Append(@, f)]
    BY <1>17 DEF ClientSend
  <2> DEFINE f == [type |-> t, body |-> <<c, Len(sent[c]) + 1>>]
  <2>2. Len(sent[c]) + 1 \in 1..Quota[c]
    BY <1>17 DEF ClientSend
  <2>3. f \in Frames
    BY <2>2 DEF Frames
  <2>4. /\ inbox' = [inbox EXCEPT ![c] = Append(@, f)]
        /\ sent' = [sent EXCEPT ![c] = Append(@, f)]
    BY <2>1
  <2> HIDE DEF f
  <2>5. inbox' \in [Conns -> Seq(Frames)] /\ sent' \in [Conns -> Seq(Frames)]
    BY <2>3, <2>4
  <2> QED
    BY <1>17, <2>5 DEF ClientSend
<1>18. ASSUME NEW c \in Conns, ClientLeave(c) PROVE Types'
  BY <1>18, SubSeqProperties DEF ClientLeave
<1>19. CASE UNCHANGED vars
  BY <1>19 DEF vars, hubVars
<1> QED
  BY <1>1, <1>2, <1>3, <1>4, <1>4a, <1>5, <1>6, <1>7, <1>8, <1>9, <1>10, <1>11, <1>12,
     <1>13, <1>14, <1>15, <1>16, <1>17, <1>18, <1>19
     DEF Next, Server, Clients, HubNext, ServeWS, Subscriber, LateTypes

LEMMA LateTypesStep == TypeOK /\ [Next]_vars => LateTypes'
<1> SUFFICES ASSUME TypeOK, [Next]_vars PROVE LateTypes'
  OBVIOUS
<1>0. LateTypes
  BY DEF TypeOK
<1>1. ASSUME NEW c \in Conns, Unanswered(c) PROVE LateTypes'
  <2> DEFINE m == Message(c)
             before == IF m \in DOMAIN unanswered THEN unanswered[m] ELSE 0
  <2>1. unanswered' = [x \in DOMAIN unanswered \cup {m} |->
                         IF x = m THEN before + 1 ELSE unanswered[x]]
    BY <1>1 DEF Unanswered
  <2>2. before \in Nat
    BY <1>0 DEF LateTypes
  <2>3. m \in BusMessages
    BY <1>1, HubAssumption DEF Unanswered, Message, BusMessages, TypeOK, Types, Equipped, Goroutines
  <2> HIDE DEF m, before
  <2>4. /\ DOMAIN unanswered' = DOMAIN unanswered \cup {m}
        /\ unanswered' \in [DOMAIN unanswered' -> Nat]
    BY <1>0, <2>1, <2>2 DEF LateTypes
  <2> QED
    BY <1>0, <2>3, <2>4 DEF LateTypes
<1>2. ASSUME NEW m, ServeLate(m) PROVE LateTypes'
  BY <1>0, <1>2 DEF LateTypes, ServeLate
<1>3. CASE UNCHANGED unanswered
  BY <1>0, <1>3 DEF LateTypes
<1> QED
  BY <1>1, <1>2, <1>3
     DEF Next, Server, Clients, HubNext, ServeWS, Subscriber, Accept, Join, ReadFrame,
         Publish, StartBroadcast, QueueSave, Offer, ReadFails, Leave, Return, WriteLoop,
         SaveLoop, TakeSave, SaveTick, SaveCommits, SaveFails, Subscribe, LoseBus,
         BusReceive, Stop, ClientSend, ClientLeave, vars, hubVars, busVars

\* A goroutine that has to offer a frame has one, and an accepted connection
\* has a room.
LEMMA EquippedStep == TypeOK /\ [Next]_vars => Equipped'
<1> SUFFICES ASSUME TypeOK, [Next]_vars PROVE Equipped'
  OBVIOUS
<1> USE HubAssumption DEF TypeOK, Equipped, Goroutines, handlerVars, roomVars
<1>0. Types
  OBVIOUS
<1>1. ASSUME NEW c \in Conns, Accept(c) PROVE Equipped'
  <2>1. rm'[c] # NoRoom /\ rm' = [rm EXCEPT ![c] = rm'[c]]
    BY <1>1, <1>0 DEF Accept, GetRoom, FreeRooms, Types
  <2> QED
    BY <1>1, <2>1, <1>0 DEF Accept, Types
<1>2. ASSUME NEW c \in Conns, Join(c) PROVE Equipped'
  BY <1>2, <1>0 DEF Join, Types
<1>3. ASSUME NEW c \in Conns, ReadFrame(c) PROVE Equipped'
  <2>1. Head(inbox[c]) # NoFrame
    BY <1>3, <1>0 DEF ReadFrame, Types
  <2> QED
    BY <1>3, <2>1, <1>0 DEF ReadFrame, Types
<1>4. ASSUME NEW c \in Conns, Publish(c) \/ Unanswered(c) PROVE Equipped'
  BY <1>4, <1>0 DEF Publish, Unanswered, Types
<1>5. ASSUME NEW c \in Conns, StartBroadcast(c) PROVE Equipped'
  BY <1>5, <1>0 DEF StartBroadcast, Types
<1>6. ASSUME NEW c \in Conns, QueueSave(c) PROVE Equipped'
  BY <1>6, <1>0 DEF QueueSave, Types
<1>7. ASSUME NEW g \in Goroutines, NEW c \in Conns, Offer(g, c) PROVE Equipped'
  <2>1. /\ todo' = [todo EXCEPT ![g] = @ \ {c}]
        /\ cur' = [cur EXCEPT ![g] = IF g \in Instances /\ todo[g] = {c} THEN NoFrame ELSE @]
        /\ UNCHANGED <<pc, rm>>
    BY <1>7 DEF Offer
  <2>2. todo \in [Goroutines -> SUBSET Conns] /\ cur \in [Goroutines -> Frames \cup {NoFrame}]
    BY <1>0 DEF Types
  <2>3. \A h \in Goroutines : todo'[h] # {} => cur'[h] # NoFrame
    BY <2>1, <2>2
  <2>4. \A d \in Conns : cur'[d] = cur[d]
    BY <2>1, <2>2
  <2> QED
    BY <2>1, <2>3, <2>4
<1>8. ASSUME NEW c \in Conns, ReadFails(c) \/ Leave(c) \/ Return(c) PROVE Equipped'
  BY <1>8, <1>0 DEF ReadFails, Leave, Return, Types
<1>9. ASSUME NEW i \in Instances, BusReceive(i) PROVE Equipped'
  <2>1. Head(bus[i]) \in BusMessages
    BY <1>9, <1>0 DEF BusReceive, Types
  <2>2. Head(bus[i]).payload # NoFrame
    BY <2>1 DEF BusMessages
  <2> QED
    BY <1>9, <2>2, <1>0 DEF BusReceive, Types
<1>10. ASSUME NEW i \in Instances, Stop(i) PROVE Equipped'
  <2> DEFINE here == {c \in Conns : Home[c] = i /\ pc[c] # "new"}
  <2>1. /\ todo' = [g \in Conns \cup Instances |-> IF g \in here \cup {i} THEN {} ELSE todo[g]]
        /\ cur' = [g \in Conns \cup Instances |-> IF g \in here \cup {i} THEN NoFrame ELSE cur[g]]
        /\ pc' = [c \in Conns |-> IF c \in here THEN "closed" ELSE pc[c]]
        /\ rm' = [c \in Conns |-> IF c \in here THEN NoRoom ELSE rm[c]]
    BY <1>10 DEF Stop
  <2> HIDE DEF here
  <2>2. \A g \in Goroutines : todo'[g] # {} => cur'[g] # NoFrame
    BY <2>1
  <2>3. \A c \in Conns : pc'[c] # "closed" =>
          pc'[c] = pc[c] /\ cur'[c] = cur[c] /\ rm'[c] = rm[c]
    BY <2>1
  <2> QED
    BY <2>2, <2>3
<1>11. CASE UNCHANGED handlerVars
  BY <1>11
<1> QED
  BY <1>1, <1>2, <1>3, <1>4, <1>5, <1>6, <1>7, <1>8, <1>9, <1>10, <1>11
     DEF Next, Server, Clients, HubNext, ServeWS, Subscriber, WriteLoop, SaveLoop,
         TakeSave, SaveTick, SaveCommits, SaveFails, Subscribe, LoseBus, ServeLate,
         ClientSend, ClientLeave, vars, hubVars

\* Every variable keeps its type, a goroutine that has to offer a frame has one,
\* and a connection that was accepted has a room.  (hub.go:54-124)
THEOREM TypeCorrect == Spec => []TypeOK
<1>1. Init => TypeOK
  BY HubAssumption DEF Init, HubInit, TypeOK, Types, LateTypes, Equipped, Phases
<1>2. TypeOK /\ [Next]_vars => TypeOK'
  BY TypesStep, LateTypesStep, EquippedStep DEF TypeOK
<1> QED
  BY <1>1, <1>2, PTL DEF Spec

-----------------------------------------------------------------------------

\* No Room object belongs to two documents, or to two replicas.
RoomsDistinct ==
  \A i, j \in Instances, d, e \in Docs :
    rooms[i][d] = rooms[j][e] /\ rooms[i][d] # NoRoom => i = j /\ d = e

\* What rm, rooms and members have to do with one another.
Rooms == OneRoomPerDoc /\ RoomsDistinct /\ MembersAreJoined

\* A step that only moves a handler along inside its loop disturbs no room.
LEMMA RoomsUndisturbed ==
  ASSUME Rooms, UNCHANGED <<rm, roomVars>>,
         \A c \in Conns : pc'[c] \in Joined <=> pc[c] \in Joined,
         \A c \in Conns : pc'[c] \in Running \cup {"joining"}
                              => pc[c] \in Running \cup {"joining"}
  PROVE  Rooms'
<1>1. OneRoomPerDoc'
  BY DEF Rooms, OneRoomPerDoc, roomVars
<1>2. RoomsDistinct'
  BY DEF Rooms, RoomsDistinct, roomVars
<1>3. MembersAreJoined'
  BY DEF Rooms, MembersAreJoined, roomVars
<1> QED
  BY <1>1, <1>2, <1>3 DEF Rooms

LEMMA RoomsStep == TypeOK /\ Rooms /\ [Next]_vars => Rooms'
<1> SUFFICES ASSUME TypeOK, Rooms, [Next]_vars PROVE Rooms'
  OBVIOUS
<1> USE HubAssumption DEF roomVars
<1> USE DEF Phases, Running, Joined, Looping
<1>0. /\ pc \in [Conns -> Phases]
      /\ rm \in [Conns -> RoomIds \cup {NoRoom}]
      /\ rooms \in [Instances -> [Docs -> RoomIds \cup {NoRoom}]]
      /\ members \in [RoomIds -> SUBSET Conns]
      /\ \A c \in Conns : pc[c] \notin {"new", "closed"} => rm[c] # NoRoom
  BY DEF TypeOK, Types, Equipped
<1>1. ASSUME NEW c \in Conns, Accept(c) PROVE Rooms'
  <2> DEFINE i == Home[c]
             d == DocOf[c]
  <2>1. i \in Instances /\ d \in Docs
    OBVIOUS
  <2>2. pc[c] = "new" /\ pc' = [pc EXCEPT ![c] = "joining"]
    BY <1>1 DEF Accept
  <2>3. CASE rooms[i][d] # NoRoom
    <3>1. rm' = [rm EXCEPT ![c] = rooms[i][d]] /\ UNCHANGED roomVars
      BY <1>1, <2>3 DEF Accept, GetRoom
    <3> QED
      BY <1>0, <2>2, <3>1 DEF Rooms, OneRoomPerDoc, RoomsDistinct, MembersAreJoined
  <2>4. CASE rooms[i][d] = NoRoom
    <3>1. PICK r \in FreeRooms : /\ rooms' = [rooms EXCEPT ![i][d] = r]
                                /\ members' = [members EXCEPT ![r] = {}]
                                /\ rm' = [rm EXCEPT ![c] = r]
      BY <1>1, <2>4 DEF Accept, GetRoom
    <3>2. r \in RoomIds /\ \A j \in Instances, e \in Docs : rooms[j][e] # r
      BY DEF FreeRooms
    <3>3. \A j \in Instances, e \in Docs :
            rooms'[j][e] = IF j = i /\ e = d THEN r ELSE rooms[j][e]
      BY <1>0, <2>1, <3>1
    <3>4. OneRoomPerDoc'
      BY <1>0, <2>1, <2>2, <2>4, <3>1, <3>3 DEF Rooms, OneRoomPerDoc
    <3>5. RoomsDistinct'
      BY <3>2, <3>3 DEF Rooms, RoomsDistinct
    <3>6. \A e \in Conns : pc[e] \in Joined => rm[e] # r /\ e # c
      BY <2>2, <3>2 DEF Rooms, OneRoomPerDoc
    <3>7. MembersAreJoined'
      BY <1>0, <2>2, <3>1, <3>2, <3>6 DEF Rooms, MembersAreJoined
    <3> QED
      BY <3>4, <3>5, <3>7 DEF Rooms
  <2> QED
    BY <2>3, <2>4
<1>2. ASSUME NEW c \in Conns, Join(c) PROVE Rooms'
  <2>1. rm[c] \in RoomIds
    BY <1>0, <1>2 DEF Join
  <2>2. MembersAreJoined'
    BY <1>0, <1>2, <2>1 DEF Join, Rooms, MembersAreJoined
  <2> QED
    BY <1>0, <1>2, <2>2 DEF Join, Rooms, OneRoomPerDoc, RoomsDistinct
<1>3. ASSUME NEW c \in Conns,
             \/ ReadFrame(c) \/ Publish(c) \/ Unanswered(c) \/ StartBroadcast(c)
             \/ QueueSave(c) \/ ReadFails(c)
      PROVE  Rooms'
  BY <1>0, <1>3, RoomsUndisturbed
     DEF ReadFrame, Publish, Unanswered, StartBroadcast, QueueSave, ReadFails
<1>4. ASSUME NEW c \in Conns, Leave(c) PROVE Rooms'
  <2>1. rm[c] \in RoomIds
    BY <1>0, <1>4 DEF Leave
  <2>2. MembersAreJoined'
    BY <1>0, <1>4, <2>1 DEF Leave, Rooms, MembersAreJoined
  <2> QED
    BY <1>0, <1>4, <2>2 DEF Leave, Rooms, OneRoomPerDoc, RoomsDistinct
<1>5. ASSUME NEW c \in Conns, Return(c) PROVE Rooms'
  BY <1>0, <1>5, RoomsUndisturbed DEF Return
<1>6. ASSUME NEW i \in Instances, Stop(i) PROVE Rooms'
  <2> DEFINE here == {c \in Conns : Home[c] = i /\ pc[c] # "new"}
  <2>1. /\ pc' = [c \in Conns |-> IF c \in here THEN "closed" ELSE pc[c]]
        /\ rm' = [c \in Conns |-> IF c \in here THEN NoRoom ELSE rm[c]]
        /\ rooms' = [rooms EXCEPT ![i] = [d \in Docs |-> NoRoom]]
        /\ members' = [r \in RoomIds |-> members[r] \ here]
    BY <1>6 DEF Stop
  <2>2. OneRoomPerDoc'
    BY <1>0, <2>1 DEF Rooms, OneRoomPerDoc
  <2>3. RoomsDistinct'
    BY <1>0, <2>1 DEF Rooms, RoomsDistinct
  <2>4. MembersAreJoined'
    BY <1>0, <2>1 DEF Rooms, MembersAreJoined
  <2> QED
    BY <2>2, <2>3, <2>4 DEF Rooms
<1>7. CASE UNCHANGED <<pc, rm, roomVars>>
  BY <1>7 DEF Rooms, OneRoomPerDoc, RoomsDistinct, MembersAreJoined
<1> QED
  BY <1>1, <1>2, <1>3, <1>4, <1>5, <1>6, <1>7
     DEF Next, Server, Clients, HubNext, ServeWS, Subscriber, WriteLoop, SaveLoop,
         TakeSave, SaveTick, SaveCommits, SaveFails, Subscribe, LoseBus, BusReceive,
         ServeLate, Offer, ClientSend, ClientLeave, vars, hubVars, handlerVars

LEMMA RoomsHold == Spec => []Rooms
<1>1. Init => Rooms
  BY HubAssumption
     DEF Init, HubInit, Rooms, OneRoomPerDoc, RoomsDistinct, MembersAreJoined,
         Running, Joined, Looping
<1>2. TypeOK /\ Rooms /\ [Next]_vars => Rooms'
  BY RoomsStep
<1> QED
  BY <1>1, <1>2, TypeCorrect, PTL DEF Spec

\* Connections of one document on one replica meet in one room.  (hub.go:41-51)
THEOREM RoomsKept == Spec => []OneRoomPerDoc
<1>1. Rooms => OneRoomPerDoc
  BY DEF Rooms
<1> QED
  BY <1>1, RoomsHold, PTL

\* A room holds exactly the connections between Join and Leave.  (room.go:17-28)
THEOREM MembersKept == Spec => []MembersAreJoined
<1>1. Rooms => MembersAreJoined
  BY DEF Rooms
<1> QED
  BY <1>1, RoomsHold, PTL

-----------------------------------------------------------------------------

\* The members of the room a document has on a replica are connections to that
\* document on that replica.
LEMMA RoomMembers ==
  ASSUME TypeOK, Rooms, NEW i \in Instances, NEW d \in Docs, rooms[i][d] # NoRoom,
         NEW c \in members[rooms[i][d]]
  PROVE  c \in Conns /\ pc[c] \in Joined /\ Home[c] = i /\ DocOf[c] = d
<1> USE HubAssumption DEF Running, Joined, Looping
<1>1. rooms[i][d] \in RoomIds
  BY DEF TypeOK, Types
<1>2. c \in Conns
  BY <1>1 DEF TypeOK, Types
<1>3. pc[c] \in Joined /\ rm[c] = rooms[i][d]
  BY <1>1, <1>2 DEF Rooms, MembersAreJoined
<1>4. rm[c] = rooms[Home[c]][DocOf[c]] /\ Home[c] \in Instances /\ DocOf[c] \in Docs
  BY <1>2, <1>3 DEF Rooms, OneRoomPerDoc
<1>5. rooms[Home[c]][DocOf[c]] = rooms[i][d] /\ rooms[Home[c]][DocOf[c]] # NoRoom
  BY <1>3, <1>4
<1>6. Home[c] = i /\ DocOf[c] = d
  BY <1>4, <1>5 DEF Rooms, RoomsDistinct
<1> QED
  BY <1>2, <1>3, <1>6

HomeOf(g) == IF g \in Conns THEN Home[g] ELSE g

\* A Broadcast loop is run by a handler that is inside it or by the subscriber,
\* and has only members of rooms of its own replica left to serve.
LoopsServeMembers ==
  \A g \in Goroutines : \A c \in todo[g] :
    /\ pc[c] \in Joined /\ Home[c] = HomeOf(g)
    /\ g \in Conns => pc[g] = "offering"

LEMMA LoopsStep == TypeOK /\ Rooms /\ LoopsServeMembers /\ [Next]_vars => LoopsServeMembers'
<1> SUFFICES ASSUME TypeOK, Rooms, LoopsServeMembers, [Next]_vars,
                    NEW g \in Goroutines, NEW e \in todo'[g]
             PROVE  /\ pc'[e] \in Joined /\ Home[e] = HomeOf(g)
                    /\ g \in Conns => pc'[g] = "offering"
  BY DEF LoopsServeMembers
<1> DEFINE Served == /\ pc'[e] \in Joined /\ Home[e] = HomeOf(g)
                     /\ g \in Conns => pc'[g] = "offering"
<1> USE HubAssumption DEF Goroutines, Phases, Running, Joined, Looping
<1>0. /\ pc \in [Conns -> Phases]
      /\ rm \in [Conns -> RoomIds \cup {NoRoom}]
      /\ todo \in [Goroutines -> SUBSET Conns]
      /\ rooms \in [Instances -> [Docs -> RoomIds \cup {NoRoom}]]
      /\ members \in [RoomIds -> SUBSET Conns]
      /\ \A c \in Conns : pc[c] \notin {"new", "closed"} => rm[c] # NoRoom
  BY DEF TypeOK, Types, Equipped
\* What the induction hypothesis says when e was in the loop before.
<1>a. ASSUME e \in todo[g]
      PROVE  /\ e \in Conns /\ pc[e] \in Joined /\ Home[e] = HomeOf(g)
             /\ g \in Conns => pc[g] = "offering"
  BY <1>0, <1>a DEF LoopsServeMembers
<1>1. ASSUME NEW c \in Conns, Accept(c) \/ Join(c) \/ Return(c) PROVE Served
  <2>1. todo' = todo /\ pc[c] \notin Joined /\ \A x \in Conns : x # c => pc'[x] = pc[x]
    BY <1>0, <1>1 DEF Accept, Join, Return
  <2> QED
    BY <1>a, <2>1
<1>2. ASSUME NEW c \in Conns, ReadFrame(c) \/ Publish(c) \/ Unanswered(c) \/ ReadFails(c)
      PROVE  Served
  <2>1. /\ todo' = todo /\ pc[c] # "offering" /\ pc'[c] \in Joined
        /\ \A x \in Conns : x # c => pc'[x] = pc[x]
    BY <1>0, <1>2 DEF ReadFrame, Publish, Unanswered, ReadFails
  <2> QED
    BY <1>a, <2>1
<1>3. ASSUME NEW c \in Conns, StartBroadcast(c) PROVE Served
  <2>1. /\ todo' = [todo EXCEPT ![c] = members[rm[c]]]
        /\ pc' = [pc EXCEPT ![c] = "offering"] /\ pc[c] = "broadcasting"
    BY <1>3 DEF StartBroadcast
  <2>2. CASE g = c
    <3>1. e \in members[rm[c]]
      BY <1>0, <2>1, <2>2
    <3>2. rm[c] = rooms[Home[c]][DocOf[c]] /\ rm[c] # NoRoom
      BY <1>0, <2>1 DEF Rooms, OneRoomPerDoc
    <3>3. e \in Conns /\ pc[e] \in Joined /\ Home[e] = Home[c]
      BY <2>1, <3>1, <3>2, RoomMembers
    <3> QED
      BY <1>0, <2>1, <2>2, <3>3 DEF HomeOf
  <2>3. CASE g # c
    BY <1>0, <1>a, <2>1, <2>3
  <2> QED
    BY <2>2, <2>3
<1>4. ASSUME NEW c \in Conns, QueueSave(c) PROVE Served
  <2>1. todo' = todo /\ pc[c] = "offering" /\ todo[c] = {} /\ pc' = [pc EXCEPT ![c] = "reading"]
    BY <1>4 DEF QueueSave
  <2> QED
    BY <1>0, <1>a, <2>1
<1>5. ASSUME NEW h \in Goroutines, NEW c \in Conns, Offer(h, c) PROVE Served
  <2>1. todo' = [todo EXCEPT ![h] = @ \ {c}] /\ UNCHANGED pc
    BY <1>5 DEF Offer, handlerVars
  <2> QED
    BY <1>0, <1>a, <2>1
<1>6. ASSUME NEW c \in Conns, Leave(c) PROVE Served
  <2>1. rm[c] \in RoomIds /\ c \in members[rm[c]]
    <3>1. rm[c] \in RoomIds /\ pc[c] \in Joined
      BY <1>0, <1>6 DEF Leave
    <3> QED
      BY <3>1 DEF Rooms, MembersAreJoined
  <2>2. c \notin todo[g] /\ pc[c] = "leaving" /\ todo' = todo
    BY <1>6, <2>1 DEF Leave, ReadLocked
  <2>3. \A x \in Conns : x # c => pc'[x] = pc[x]
    BY <1>0, <1>6 DEF Leave
  <2> QED
    BY <1>a, <2>2, <2>3
<1>7. ASSUME NEW i \in Instances, BusReceive(i) PROVE Served
  <2> DEFINE d == Head(bus[i]).doc
  <2>1. d \in Docs
    <3>1. Head(bus[i]) \in BusMessages
      BY <1>7 DEF BusReceive, TypeOK, Types
    <3> QED
      BY <3>1 DEF BusMessages
  <2>2. /\ UNCHANGED pc
        /\ \/ todo' = [todo EXCEPT ![i] = {}]
           \/ rooms[i][d] # NoRoom /\ todo' = [todo EXCEPT ![i] = members[rooms[i][d]]]
    BY <1>7 DEF BusReceive
  <2> HIDE DEF d
  <2>3. CASE g = i
    <3>1. rooms[i][d] # NoRoom /\ e \in members[rooms[i][d]]
      BY <1>0, <2>2, <2>3
    <3> QED
      BY <2>1, <2>2, <2>3, <3>1, RoomMembers DEF HomeOf
  <2>4. CASE g # i
    BY <1>0, <1>a, <2>2, <2>4
  <2> QED
    BY <2>3, <2>4
<1>8. ASSUME NEW i \in Instances, Stop(i) PROVE Served
  <2> DEFINE here == {c \in Conns : Home[c] = i /\ pc[c] # "new"}
  <2>1. /\ todo' = [h \in Conns \cup Instances |-> IF h \in here \cup {i} THEN {} ELSE todo[h]]
        /\ pc' = [c \in Conns |-> IF c \in here THEN "closed" ELSE pc[c]]
    BY <1>8 DEF Stop
  <2>2. e \in todo[g] /\ g \notin here /\ g # i
    BY <2>1
  <2>3. Home[e] # i
    BY <1>a, <2>2 DEF HomeOf
  <2> QED
    BY <1>a, <2>1, <2>2, <2>3
<1>9. CASE UNCHANGED <<pc, todo>>
  BY <1>9, <1>a
<1> QED
  BY <1>1, <1>2, <1>3, <1>4, <1>5, <1>6, <1>7, <1>8, <1>9
     DEF Next, Server, Clients, HubNext, ServeWS, Subscriber, WriteLoop, SaveLoop,
         TakeSave, SaveTick, SaveCommits, SaveFails, Subscribe, LoseBus, ServeLate,
         ClientSend, ClientLeave, vars, hubVars, handlerVars

LEMMA SilenceStep ==
  TypeOK /\ LoopsServeMembers /\ LoopsServeMembers' /\ ClosedIsSilent /\ [Next]_vars
    => ClosedIsSilent'
<1> SUFFICES ASSUME TypeOK, LoopsServeMembers, LoopsServeMembers', ClosedIsSilent, [Next]_vars,
                    NEW c \in Conns, pc'[c] = "closed"
             PROVE  /\ out'[c] = <<>> /\ saveQ'[c] = <<>> /\ latest'[c] = NoBody
                    /\ \A g \in Goroutines : c \notin todo'[g]
  BY DEF ClosedIsSilent
<1> DEFINE Quiet == out'[c] = <<>> /\ saveQ'[c] = <<>> /\ latest'[c] = NoBody
<1> USE DEF Goroutines, Running, Joined, Looping, handlerVars, saveVars
<1>0. /\ pc \in [Conns -> Phases] /\ latest \in [Conns -> Bodies \cup {NoBody}]
      /\ out \in [Conns -> Seq(Frames)] /\ saveQ \in [Conns -> Seq(Bodies)]
  BY DEF TypeOK, Types
<1>1. \A g \in Goroutines : c \notin todo'[g]
  BY DEF LoopsServeMembers
<1>2. ASSUME NEW e \in Conns, ServeWS(e) PROVE Quiet
  <2>1. ASSUME NEW d \in Conns, Offer(e, d) PROVE Quiet
    BY <1>0, <2>1 DEF Offer, ClosedIsSilent, LoopsServeMembers
  <2>2. CASE QueueSave(e)
    BY <1>0, <2>2 DEF QueueSave, ClosedIsSilent
  <2>3. CASE Return(e)
    BY <1>0, <2>3 DEF Return, ClosedIsSilent
  <2>4. CASE \/ Accept(e) \/ Join(e) \/ ReadFrame(e) \/ Publish(e) \/ Unanswered(e)
             \/ StartBroadcast(e) \/ ReadFails(e) \/ Leave(e)
    BY <1>0, <2>4 DEF Accept, Join, ReadFrame, Publish, Unanswered, StartBroadcast,
                      ReadFails, Leave, ClosedIsSilent
  <2> QED
    BY <1>2, <2>1, <2>2, <2>3, <2>4 DEF ServeWS
<1>3. ASSUME NEW e \in Conns, WriteLoop(e) PROVE Quiet
  BY <1>0, <1>3 DEF WriteLoop, ClosedIsSilent
<1>4. ASSUME NEW e \in Conns, SaveLoop(e) PROVE Quiet
  BY <1>0, <1>4 DEF SaveLoop, TakeSave, SaveTick, SaveCommits, SaveFails, ClosedIsSilent
<1>5. ASSUME NEW i \in Instances, Subscriber(i) PROVE Quiet
  <2>1. ASSUME NEW d \in Conns, Offer(i, d) PROVE Quiet
    BY <1>0, <2>1 DEF Offer, ClosedIsSilent, LoopsServeMembers
  <2>2. CASE Subscribe(i) \/ LoseBus(i) \/ BusReceive(i)
    BY <2>2 DEF Subscribe, LoseBus, BusReceive, ClosedIsSilent
  <2> QED
    BY <1>5, <2>1, <2>2 DEF Subscriber
<1>6. ASSUME NEW i \in Instances, Stop(i) PROVE Quiet
  BY <1>0, <1>6 DEF Stop, ClosedIsSilent
<1>7. ASSUME UNCHANGED <<pc, out, saveQ, latest>> PROVE Quiet
  BY <1>7 DEF ClosedIsSilent
<1> QED
  BY <1>1, <1>2, <1>3, <1>4, <1>5, <1>6, <1>7
     DEF Next, Server, Clients, HubNext, ServeLate, ClientSend, ClientLeave, vars, hubVars

\* Nothing is queued, pending or offered for a connection whose handler has
\* returned.  (hub.go:120-123, room.go:24-40)
THEOREM SilenceKept == Spec => []ClosedIsSilent
<1>1. Init => Rooms /\ LoopsServeMembers /\ ClosedIsSilent
  BY HubAssumption
     DEF Init, HubInit, Rooms, OneRoomPerDoc, RoomsDistinct, MembersAreJoined,
         LoopsServeMembers, ClosedIsSilent, Goroutines, Running, Joined, Looping
<1>2. TypeOK /\ Rooms /\ LoopsServeMembers /\ ClosedIsSilent /\ [Next]_vars
        => Rooms' /\ LoopsServeMembers' /\ ClosedIsSilent'
  BY RoomsStep, LoopsStep, SilenceStep
<1> QED
  BY <1>1, <1>2, TypeCorrect, PTL DEF Spec
-----------------------------------------------------------------------------
(* The hub implements Relay: whatever is delivered or stored for a document *)
(* was sent by one of its clients.                                          *)

\* What the clients of every document have sent, and the snapshots among it.
Said == [d \in Docs |-> R!SentFor(d)]
Snaps == [d \in Docs |-> {f.body : f \in {x \in Said[d] : IsSnapshot(x)}}]
Addressed == {m \in BusMessages : m.payload \in Said[m.doc]}

\* Every frame and every snapshot the hub holds is one that was sent for the
\* document it is held for: in the queues of a connection, in the broadcast
\* loops, in Redis, whose answer did or did not arrive.
ConnTraffic ==
  \A c \in Conns :
    /\ inbox[c] \in Seq(Said[DocOf[c]])
    /\ out[c] \in Seq(Said[DocOf[c]])
    /\ cur[c] \in Said[DocOf[c]] \cup {NoFrame}
    /\ saveQ[c] \in Seq(Snaps[DocOf[c]])
    /\ latest[c] \in Snaps[DocOf[c]] \cup {NoBody}
    /\ saving[c] \in Snaps[DocOf[c]] \cup {NoBody}
LoopTraffic ==
  \A g \in Goroutines : \A c \in todo[g] : cur[g] \in Said[DocOf[c]]
BusTraffic ==
  (\A i \in Instances : bus[i] \in Seq(Addressed)) /\ DOMAIN unanswered \subseteq Addressed
Traffic == ConnTraffic /\ LoopTraffic /\ BusTraffic

\* A step of the server sends nothing.
LEMMA SaidSame == UNCHANGED sent => Said' = Said /\ Snaps' = Snaps /\ Addressed' = Addressed
BY DEF Said, Snaps, Addressed, R!SentFor

LEMMA ConnTrafficStep ==
  ASSUME TypeOK, Traffic, HubNext, UNCHANGED sent PROVE ConnTraffic'
<1> SUFFICES ASSUME NEW c \in Conns
      PROVE /\ inbox'[c] \in Seq(Said[DocOf[c]])
            /\ out'[c] \in Seq(Said[DocOf[c]])
            /\ cur'[c] \in Said[DocOf[c]] \cup {NoFrame}
            /\ saveQ'[c] \in Seq(Snaps[DocOf[c]])
            /\ latest'[c] \in Snaps[DocOf[c]] \cup {NoBody}
            /\ saving'[c] \in Snaps[DocOf[c]] \cup {NoBody}
  BY SaidSame DEF ConnTraffic
<1> DEFINE S == Said[DocOf[c]]
           B == Snaps[DocOf[c]]
           Done == /\ inbox'[c] \in Seq(S) /\ out'[c] \in Seq(S)
                   /\ cur'[c] \in S \cup {NoFrame} /\ saveQ'[c] \in Seq(B)
                   /\ latest'[c] \in B \cup {NoBody} /\ saving'[c] \in B \cup {NoBody}
<1>1. /\ inbox[c] \in Seq(S) /\ out[c] \in Seq(S)
      /\ cur[c] \in S \cup {NoFrame} /\ saveQ[c] \in Seq(B)
      /\ latest[c] \in B \cup {NoBody} /\ saving[c] \in B \cup {NoBody}
  BY DEF Traffic, ConnTraffic
<1>2. /\ inbox \in [Conns -> Seq(Frames)] /\ out \in [Conns -> Seq(Frames)]
      /\ cur \in [Goroutines -> Frames \cup {NoFrame}] /\ saveQ \in [Conns -> Seq(Bodies)]
      /\ latest \in [Conns -> Bodies \cup {NoBody}] /\ saving \in [Conns -> Bodies \cup {NoBody}]
  BY DEF TypeOK, Types
<1>3. \A f : f \in S /\ IsSnapshot(f) => f.body \in B
  BY HubAssumption DEF Snaps
<1> HIDE DEF S, B
<1> USE DEF Goroutines, handlerVars, saveVars, netVars
<1>4. ASSUME NEW e \in Conns, ReadFrame(e) PROVE Done
  BY <1>1, <1>2, <1>4 DEF ReadFrame
<1>5. ASSUME NEW g \in Goroutines, NEW e \in Conns, Offer(g, e) PROVE Done
  <2>1. e = c => cur[g] \in S
    BY <1>5 DEF Offer, Traffic, LoopTraffic, S
  <2>2. Offered(out[c], cur[g]) \in Seq(S) \/ e # c
    BY <1>1, <2>1 DEF Offered
  <2> QED
    BY <1>1, <1>2, <1>5, <2>2 DEF Offer
<1>6. ASSUME NEW e \in Conns, QueueSave(e) PROVE Done
  <2>1. e = c => cur[c] \in S
    BY <1>1, <1>6 DEF QueueSave, TypeOK, Equipped
  <2>2. e = c /\ IsSnapshot(cur[c]) => Queued(saveQ[c], cur[c].body) \in Seq(B)
    BY <1>1, <1>3, <2>1 DEF Queued
  <2> QED
    BY <1>1, <1>2, <1>6, <2>2 DEF QueueSave
<1>7. ASSUME NEW e \in Conns, Return(e) PROVE Done
  BY <1>1, <1>2, <1>7 DEF Return
<1>8. ASSUME NEW e \in Conns, WriteLoop(e) PROVE Done
  BY <1>1, <1>2, <1>8 DEF WriteLoop
<1>9. ASSUME NEW e \in Conns, SaveLoop(e) PROVE Done
  <2>1. CASE TakeSave(e)
    <3>1. e = c => Head(saveQ[c]) \in B /\ Tail(saveQ[c]) \in Seq(B)
      BY <1>1, <2>1 DEF TakeSave
    <3> QED
      BY <1>1, <1>2, <2>1, <3>1 DEF TakeSave
  <2>2. CASE SaveTick(e)
    BY <1>1, <1>2, <2>2 DEF SaveTick
  <2>3. CASE SaveCommits(e) \/ SaveFails(e)
    BY <1>1, <1>2, <2>3 DEF SaveCommits, SaveFails
  <2> QED
    BY <1>9, <2>1, <2>2, <2>3 DEF SaveLoop
<1>10. ASSUME NEW i \in Instances, BusReceive(i) PROVE Done
  BY <1>1, <1>2, <1>10, HubAssumption DEF BusReceive
<1>11. ASSUME NEW i \in Instances, Stop(i) PROVE Done
  BY <1>1, <1>2, <1>11, HubAssumption DEF Stop
<1>12. ASSUME UNCHANGED <<inbox, out, cur, saveVars>> PROVE Done
  BY <1>1, <1>12
<1> QED
  BY <1>4, <1>5, <1>6, <1>7, <1>8, <1>9, <1>10, <1>11, <1>12
     DEF HubNext, ServeWS, Subscriber, Accept, Join, Publish, Unanswered, ServeLate,
         StartBroadcast, ReadFails, Leave, Subscribe, LoseBus, S, B

LEMMA LoopTrafficStep ==
  ASSUME TypeOK, Rooms, LoopsServeMembers, Traffic, HubNext, UNCHANGED sent
  PROVE  LoopTraffic'
<1> SUFFICES ASSUME NEW g \in Goroutines, NEW c \in todo'[g]
             PROVE  cur'[g] \in Said[DocOf[c]]
  BY SaidSame DEF LoopTraffic
<1> USE HubAssumption DEF Goroutines
<1>1. cur \in [Goroutines -> Frames \cup {NoFrame}] /\ todo \in [Goroutines -> SUBSET Conns]
  BY DEF TypeOK, Types
\* The loop was under way and holds the same frame.
<1>2. ASSUME c \in todo[g], cur'[g] = cur[g] PROVE cur'[g] \in Said[DocOf[c]]
  BY <1>2 DEF Traffic, LoopTraffic
<1>3. ASSUME NEW e \in Conns, ReadFrame(e) \/ QueueSave(e) PROVE cur'[g] \in Said[DocOf[c]]
  <2>1. e # g /\ todo' = todo
    BY <1>1, <1>3 DEF ReadFrame, QueueSave, LoopsServeMembers
  <2> QED
    BY <1>1, <1>2, <1>3, <2>1 DEF ReadFrame, QueueSave
<1>4. ASSUME NEW e \in Conns, StartBroadcast(e) PROVE cur'[g] \in Said[DocOf[c]]
  <2>1. /\ todo' = [todo EXCEPT ![e] = members[rm[e]]] /\ cur' = cur
        /\ pc[e] = "broadcasting"
    BY <1>4 DEF StartBroadcast
  <2>2. CASE g = e
    <3>1. c \in members[rm[e]]
      BY <1>1, <2>1, <2>2
    <3>2. rm[e] = rooms[Home[e]][DocOf[e]] /\ rm[e] # NoRoom
      BY <2>1 DEF Rooms, OneRoomPerDoc, TypeOK, Equipped, Running, Joined, Looping
    <3>3. DocOf[c] = DocOf[e]
      BY <3>1, <3>2, RoomMembers
    <3>4. cur[e] \in Said[DocOf[e]]
      BY <2>1 DEF Traffic, ConnTraffic, TypeOK, Equipped
    <3> QED
      BY <2>1, <2>2, <3>3, <3>4
  <2>3. CASE g # e
    BY <1>1, <1>2, <2>1, <2>3
  <2> QED
    BY <2>2, <2>3
<1>5. ASSUME NEW h \in Goroutines, NEW e \in Conns, Offer(h, e) PROVE cur'[g] \in Said[DocOf[c]]
  <2>1. /\ todo' = [todo EXCEPT ![h] = @ \ {e}]
        /\ cur' = [cur EXCEPT ![h] = IF h \in Instances /\ todo[h] = {e} THEN NoFrame ELSE @]
    BY <1>5 DEF Offer
  <2>2. c \in todo[g] /\ (g = h => todo[h] # {e})
    BY <1>1, <2>1
  <2> QED
    BY <1>1, <1>2, <2>1, <2>2
<1>6. ASSUME NEW i \in Instances, BusReceive(i) PROVE cur'[g] \in Said[DocOf[c]]
  <2> DEFINE m == Head(bus[i])
  <2>1. m \in Addressed
    BY <1>6 DEF BusReceive, Traffic, BusTraffic
  <2>2. m.doc \in Docs /\ m.payload \in Said[m.doc]
    <3> HIDE DEF m
    <3> QED
      BY <2>1 DEF Addressed, BusMessages
  <2>3. \/ todo' = [todo EXCEPT ![i] = {}] /\ cur' = [cur EXCEPT ![i] = NoFrame]
        \/ /\ rooms[i][m.doc] # NoRoom
           /\ todo' = [todo EXCEPT ![i] = members[rooms[i][m.doc]]]
           /\ \/ members[rooms[i][m.doc]] = {}
              \/ cur' = [cur EXCEPT ![i] = m.payload]
           /\ \A h \in Goroutines : h # i => cur'[h] = cur[h]
    BY <1>1, <1>6 DEF BusReceive
  <2> HIDE DEF m
  <2>4. CASE g = i
    <3>1. /\ rooms[i][m.doc] # NoRoom /\ c \in members[rooms[i][m.doc]]
          /\ cur'[g] = m.payload
      BY <1>1, <2>3, <2>4
    <3>2. DocOf[c] = m.doc
      BY <2>2, <3>1, RoomMembers
    <3> QED
      BY <2>2, <3>1, <3>2
  <2>5. CASE g # i
    BY <1>1, <1>2, <2>3, <2>5
  <2> QED
    BY <2>4, <2>5
<1>7. ASSUME NEW i \in Instances, Stop(i) PROVE cur'[g] \in Said[DocOf[c]]
  <2> DEFINE here == {e \in Conns : Home[e] = i /\ pc[e] # "new"}
  <2>1. /\ todo' = [h \in Conns \cup Instances |-> IF h \in here \cup {i} THEN {} ELSE todo[h]]
        /\ cur' = [h \in Conns \cup Instances |-> IF h \in here \cup {i} THEN NoFrame ELSE cur[h]]
    BY <1>7 DEF Stop
  <2> HIDE DEF here
  <2>2. c \in todo[g] /\ cur'[g] = cur[g]
    BY <2>1
  <2> QED
    BY <1>2, <2>2
<1>8. ASSUME UNCHANGED <<cur, todo>> PROVE cur'[g] \in Said[DocOf[c]]
  BY <1>2, <1>8
<1> QED
  BY <1>3, <1>4, <1>5, <1>6, <1>7, <1>8
     DEF HubNext, ServeWS, Subscriber, Accept, Join, Publish, Unanswered, ServeLate,
         ReadFails, Leave, Return, WriteLoop, SaveLoop, TakeSave, SaveTick, SaveCommits, SaveFails,
         Subscribe, LoseBus, handlerVars

LEMMA BusTrafficStep ==
  ASSUME TypeOK, Traffic, HubNext, UNCHANGED sent PROVE BusTraffic'
<1>a. /\ bus \in [Instances -> Seq(BusMessages)]
      /\ \A i \in Instances : bus[i] \in Seq(Addressed)
      /\ DOMAIN unanswered \subseteq Addressed
  BY DEF TypeOK, Types, Traffic, BusTraffic
<1>b. ASSUME NEW c \in Conns, Publish(c) \/ Unanswered(c) PROVE Message(c) \in Addressed
  <2>1. cur[c] \in Said[DocOf[c]] /\ cur[c] \in Frames
    BY <1>b DEF Publish, Unanswered, TypeOK, Types, Equipped, Traffic, ConnTraffic, Goroutines
  <2> QED
    BY <2>1, HubAssumption DEF Message, Addressed, BusMessages
<1>c. DOMAIN unanswered' \subseteq Addressed
  <2>1. ASSUME NEW c \in Conns, Unanswered(c) PROVE DOMAIN unanswered' \subseteq Addressed
    <3>1. DOMAIN unanswered' = DOMAIN unanswered \cup {Message(c)}
      BY <2>1 DEF Unanswered
    <3> QED
      BY <1>a, <1>b, <2>1, <3>1
  <2>2. ASSUME NEW m, ServeLate(m) PROVE DOMAIN unanswered' = DOMAIN unanswered
    BY <2>2 DEF ServeLate
  <2>3. CASE UNCHANGED unanswered
    BY <1>a, <2>3
  <2> QED
    BY <1>a, <2>1, <2>2, <2>3
       DEF HubNext, ServeWS, Subscriber, Accept, Join, ReadFrame, Publish, StartBroadcast,
           QueueSave, Offer, ReadFails, Leave, Return, WriteLoop, SaveLoop, TakeSave,
           SaveTick, SaveCommits, SaveFails, Subscribe, LoseBus, BusReceive, Stop, busVars
<1> SUFFICES ASSUME NEW i \in Instances PROVE bus'[i] \in Seq(Addressed)
  BY <1>c, SaidSame DEF BusTraffic
<1>1. bus \in [Instances -> Seq(BusMessages)] /\ bus[i] \in Seq(Addressed)
  BY <1>a
<1>2. ASSUME NEW m \in Addressed, bus' = Handed(m) PROVE bus'[i] \in Seq(Addressed)
  <2>1. bus[i] \in Seq(Addressed) /\ Append(bus[i], m) \in Seq(Addressed)
    BY <1>1
  <2>2. bus'[i] = bus[i] \/ bus'[i] = Append(bus[i], m)
    BY <1>2, HandedTo
  <2> QED
    BY <2>1, <2>2
<1>3. ASSUME NEW j \in Instances, BusReceive(j) PROVE bus'[i] \in Seq(Addressed)
  <2>1. bus' = [bus EXCEPT ![j] = Tail(@)] /\ bus[j] # <<>>
    BY <1>3 DEF BusReceive
  <2> QED
    BY <1>1, <2>1
<1>4. ASSUME NEW j \in Instances, LoseBus(j) \/ Stop(j) PROVE bus'[i] \in Seq(Addressed)
  <2>1. bus' = [bus EXCEPT ![j] = <<>>]
    BY <1>4 DEF LoseBus, Stop
  <2> QED
    BY <1>1, <2>1
<1>5. ASSUME UNCHANGED bus PROVE bus'[i] \in Seq(Addressed)
  BY <1>1, <1>5
<1>6. ASSUME NEW c \in Conns, Publish(c) PROVE bus'[i] \in Seq(Addressed)
  BY <1>2, <1>6, <1>b DEF Publish
<1>7. ASSUME NEW m \in DOMAIN unanswered, ServeLate(m) PROVE bus'[i] \in Seq(Addressed)
  BY <1>2, <1>7, <1>a DEF ServeLate
<1> QED
  BY <1>3, <1>4, <1>5, <1>6, <1>7
     DEF HubNext, ServeWS, Subscriber, Accept, Join, ReadFrame, Unanswered, StartBroadcast,
         QueueSave, Offer, ReadFails, Leave, Return, WriteLoop, SaveLoop, TakeSave, SaveTick,
         SaveCommits, SaveFails, Subscribe, busVars

-----------------------------------------------------------------------------

\* What a client sends can only add to what has been said, and goes into its own
\* queue; leaving shortens that queue.
LEMMA ClientTraffic ==
  ASSUME TypeOK, Traffic, Clients PROVE Traffic'
<1>1. PICK c \in Conns : ClientSend(c) \/ ClientLeave(c)
  BY DEF Clients
<1>2. /\ inbox \in [Conns -> Seq(Frames)] /\ sent \in [Conns -> Seq(Frames)]
      /\ DocOf \in [Conns -> Docs]
  BY HubAssumption DEF TypeOK, Types
<1>3. UNCHANGED <<handlerVars, out, saveVars, busVars>>
  BY <1>1 DEF ClientSend, ClientLeave
<1>4. \A d \in Docs : Said[d] \subseteq Said'[d]
  <2>1. \A x \in Conns : \A n \in 1..Len(sent[x]) :
          n \in 1..Len(sent'[x]) /\ sent'[x][n] = sent[x][n]
    <3>1. CASE UNCHANGED sent
      BY <3>1
    <3>2. CASE ClientSend(c)
      <4>1. PICK f : sent' = [sent EXCEPT ![c] = Append(@, f)]
        BY <3>2 DEF ClientSend
      <4> QED
        BY <1>2, <4>1
    <3> QED
      BY <1>1, <3>1, <3>2 DEF ClientLeave
  <2>2. ASSUME NEW d \in Docs, NEW f \in R!SentFor(d) PROVE f \in R!SentFor(d)'
    <3>1. PICK x \in Conns : DocOf[x] = d /\ \E n \in 1..Len(sent[x]) : f = sent[x][n]
      BY <2>2 DEF R!SentFor
    <3>2. PICK n \in 1..Len(sent[x]) : f = sent[x][n]
      BY <3>1
    <3>3. n \in 1..Len(sent'[x]) /\ f = sent'[x][n]
      BY <2>1, <3>1, <3>2
    <3> QED
      BY <3>1, <3>3 DEF R!SentFor
  <2> QED
    BY <2>2 DEF Said
<1>5. \A d \in Docs : Snaps[d] \subseteq Snaps'[d]
  BY <1>4 DEF Snaps
<1>6. Addressed \subseteq Addressed'
  BY <1>4 DEF Addressed, BusMessages
<1>7. \A x \in Conns : inbox'[x] \in Seq(Said'[DocOf[x]])
  <2> SUFFICES ASSUME NEW x \in Conns PROVE inbox'[x] \in Seq(Said'[DocOf[x]])
    OBVIOUS
  <2>1. inbox[x] \in Seq(Said'[DocOf[x]])
    <3>1. DocOf[x] \in Docs /\ inbox[x] \in Seq(Said[DocOf[x]])
      BY <1>2 DEF Traffic, ConnTraffic
    <3>2. Said[DocOf[x]] \subseteq Said'[DocOf[x]]
      BY <1>4, <3>1
    <3> QED
      BY <3>1, <3>2, SeqMonotonic
  <2>2. CASE ClientSend(c)
    <3>1. PICK f : /\ inbox' = [inbox EXCEPT ![c] = Append(@, f)]
                   /\ sent' = [sent EXCEPT ![c] = Append(@, f)]
      BY <2>2 DEF ClientSend
    <3>2. sent'[c] = Append(sent[c], f) /\ sent[c] \in Seq(Frames)
      BY <1>2, <3>1
    <3>3. Len(sent'[c]) \in 1..Len(sent'[c]) /\ sent'[c][Len(sent'[c])] = f
      BY <3>2
    <3>4. f \in R!SentFor(DocOf[c])'
      BY <3>3 DEF R!SentFor
    <3>5. f \in Said'[DocOf[c]]
      BY <1>2, <3>4 DEF Said
    <3>6. CASE x = c
      <4>1. inbox'[x] = Append(inbox[x], f)
        BY <1>2, <3>1, <3>6
      <4> DEFINE S == Said'[DocOf[x]]
      <4>2. inbox[x] \in Seq(S) /\ f \in S
        BY <2>1, <3>5, <3>6
      <4> HIDE DEF S
      <4>3. inbox'[x] \in Seq(S)
        BY <4>1, <4>2
      <4> QED
        BY <4>3 DEF S
    <3>7. CASE x # c
      BY <1>2, <2>1, <3>1, <3>7
    <3> QED
      BY <3>6, <3>7
  <2>3. CASE ClientLeave(c)
    <3>1. PICK n \in 0..Len(inbox[c]) : inbox' = [inbox EXCEPT ![c] = SubSeq(@, 1, n)]
      BY <2>3 DEF ClientLeave
    <3>2. CASE x = c
      <4>1. SubSeq(inbox[c], 1, n) \in Seq(Said'[DocOf[c]])
        <5> DEFINE S == Said'[DocOf[c]]
                   s == inbox[c]
        <5>1. s \in Seq(S) /\ n \in 0..Len(s) /\ Len(s) \in Nat
          BY <2>1, <3>2
        <5> HIDE DEF S, s
        <5>2. \A k \in 1..n : s[k] \in S
          BY <5>1, ElementOfSeq
        <5>3. SubSeq(s, 1, n) \in Seq(S)
          BY <5>1, <5>2, SubSeqProperties
        <5> QED
          BY <5>3 DEF S, s
      <4> QED
        BY <1>2, <3>1, <3>2, <4>1
    <3> QED
      BY <1>2, <2>1, <3>1, <3>2
  <2> QED
    BY <1>1, <2>2, <2>3
<1>8. ConnTraffic'
  <2> SUFFICES ASSUME NEW x \in Conns
        PROVE /\ out[x] \in Seq(Said'[DocOf[x]])
              /\ cur[x] \in Said'[DocOf[x]] \cup {NoFrame}
              /\ saveQ[x] \in Seq(Snaps'[DocOf[x]])
              /\ latest[x] \in Snaps'[DocOf[x]] \cup {NoBody}
              /\ saving[x] \in Snaps'[DocOf[x]] \cup {NoBody}
    BY <1>3, <1>7 DEF ConnTraffic, handlerVars, saveVars
  <2>1. Said[DocOf[x]] \subseteq Said'[DocOf[x]] /\ Snaps[DocOf[x]] \subseteq Snaps'[DocOf[x]]
    BY <1>2, <1>4, <1>5
  <2> QED
    BY <2>1 DEF Traffic, ConnTraffic
<1>9. LoopTraffic'
  BY <1>2, <1>3, <1>4 DEF Traffic, LoopTraffic, handlerVars, TypeOK, Types
<1>10. BusTraffic'
  BY <1>3, <1>6 DEF Traffic, BusTraffic, busVars
<1> QED
  BY <1>8, <1>9, <1>10 DEF Traffic

LEMMA TrafficStep ==
  TypeOK /\ Rooms /\ LoopsServeMembers /\ Traffic /\ [Next]_vars => Traffic'
<1> SUFFICES ASSUME TypeOK, Rooms, LoopsServeMembers, Traffic, [Next]_vars PROVE Traffic'
  OBVIOUS
<1>1. CASE Server
  BY <1>1, ConnTrafficStep, LoopTrafficStep, BusTrafficStep DEF Server, Traffic
<1>2. CASE Clients
  BY <1>2, ClientTraffic
<1>3. CASE UNCHANGED vars
  <2>1. Said' = Said /\ Snaps' = Snaps /\ Addressed' = Addressed
    BY <1>3, SaidSame DEF vars
  <2> QED
    BY <1>3, <2>1
       DEF vars, hubVars, handlerVars, saveVars, netVars, busVars,
           Traffic, ConnTraffic, LoopTraffic, BusTraffic
<1> QED
  BY <1>1, <1>2, <1>3 DEF Next

LEMMA StepRelays == TypeOK /\ Traffic /\ [Next]_vars => [R!Next]_(R!relayVars)
<1> SUFFICES ASSUME TypeOK, Traffic, [Next]_vars PROVE [R!Next]_(R!relayVars)
  OBVIOUS
<1> USE HubAssumption DEF handlerVars, saveVars, netVars, busVars, dbVars
<1>1. ASSUME NEW c \in Conns, ClientSend(c) PROVE R!Next
  <2>1. \E f \in Frames : sent' = [sent EXCEPT ![c] = Append(@, f)]
    <3>1. PICK t \in ClientTypes :
            LET f == [type |-> t, body |-> <<c, Len(sent[c]) + 1>>]
            IN  sent' = [sent EXCEPT ![c] = Append(@, f)]
      BY <1>1 DEF ClientSend
    <3>2. Len(sent[c]) + 1 \in 1..Quota[c]
      <4>1. Len(sent[c]) \in Nat /\ Quota[c] \in Nat /\ Len(sent[c]) < Quota[c]
        <5>1. sent[c] \in Seq(Frames)
          BY DEF TypeOK, Types
        <5> QED
          BY <1>1, <5>1, ClientsAssumption DEF ClientSend
      <4> QED
        BY <4>1
    <3>3. [type |-> t, body |-> <<c, Len(sent[c]) + 1>>] \in Frames
      BY <3>2, ClientsAssumption DEF Frames
    <3> QED
      BY <3>1, <3>3
  <2>2. UNCHANGED <<wire, store, version>>
    BY <1>1 DEF ClientSend
  <2> QED
    BY <2>1, <2>2 DEF R!Next, R!Send
<1>2. ASSUME NEW c \in Conns, WriteLoop(c), UNCHANGED sent PROVE [R!Next]_(R!relayVars)
  <2>1. CASE gone[c]
    BY <1>2, <2>1 DEF WriteLoop, R!relayVars
  <2>2. CASE ~gone[c]
    <3>1. Head(out[c]) \in R!SentFor(DocOf[c])
      <4>1. out[c] \in Seq(Said[DocOf[c]]) /\ out[c] # <<>>
        BY <1>2 DEF WriteLoop, Traffic, ConnTraffic
      <4>2. Said[DocOf[c]] = R!SentFor(DocOf[c])
        BY DEF Said
      <4> QED
        BY <4>1, <4>2
    <3>2. wire' = [wire EXCEPT ![c] = Append(@, Head(out[c]))] /\ UNCHANGED <<store, version>>
      BY <1>2, <2>2 DEF WriteLoop
    <3> QED
      BY <1>2, <3>1, <3>2 DEF R!Next, R!Deliver
  <2> QED
    BY <2>1, <2>2
<1>3. ASSUME NEW c \in Conns, SaveCommits(c), UNCHANGED sent PROVE [R!Next]_(R!relayVars)
  <2>1. CASE DocOf[c] \notin StoredDocs
    BY <1>3, <2>1 DEF SaveCommits, R!relayVars
  <2>2. CASE DocOf[c] \in StoredDocs
    <3>1. PICK f \in Said[DocOf[c]] : IsSnapshot(f) /\ f.body = saving[c]
      BY <1>3 DEF SaveCommits, Traffic, ConnTraffic, Snaps
    <3>2. f \in R!SentFor(DocOf[c])
      BY <3>1 DEF Said
    <3>3. /\ store' = [store EXCEPT ![DocOf[c]] = f.body]
          /\ version' = [version EXCEPT ![DocOf[c]] = @ + 1] /\ UNCHANGED wire
      BY <1>3, <2>2, <3>1 DEF SaveCommits
    <3> QED
      BY <1>3, <2>2, <3>1, <3>2, <3>3 DEF R!Next, R!Keep, IsSnapshot
  <2> QED
    BY <2>1, <2>2
<1>4. CASE UNCHANGED <<sent, wire, store, version>>
  BY <1>4 DEF R!relayVars
<1> QED
  BY <1>1, <1>2, <1>3, <1>4
     DEF Next, Server, Clients, HubNext, ServeWS, Subscriber, SaveLoop, Accept, Join,
         ReadFrame, Publish, Unanswered, ServeLate, StartBroadcast, Offer, QueueSave,
         ReadFails, Leave, Return, TakeSave, SaveTick, SaveFails, Subscribe, LoseBus, BusReceive, Stop,
         ClientLeave, vars, hubVars

\* The backend does what Relay promises: whatever a client receives was sent by
\* a client of its document, and only snapshots sent for a document that has a
\* row are stored in it.  (hub.go:29-36, 54-124, postgres.go:84-88)
THEOREM HubRelays == Spec => ImplementsRelay
<1>1. Init => Rooms /\ LoopsServeMembers /\ Traffic
  <2> SUFFICES ASSUME Init PROVE Rooms /\ LoopsServeMembers /\ Traffic
    OBVIOUS
  <2>1. Rooms /\ LoopsServeMembers
    BY HubAssumption
       DEF Init, HubInit, Rooms, OneRoomPerDoc, RoomsDistinct, MembersAreJoined,
           LoopsServeMembers, Goroutines, Running, Joined, Looping
  <2>2. Traffic
    BY DEF Init, HubInit, Traffic, ConnTraffic, LoopTraffic, BusTraffic, Goroutines
  <2> QED
    BY <2>1, <2>2
<1>2. Init => R!Init
  BY DEF Init, HubInit, R!Init
<1>3. TypeOK /\ Rooms /\ LoopsServeMembers /\ Traffic /\ [Next]_vars
        => Rooms' /\ LoopsServeMembers' /\ Traffic'
  BY RoomsStep, LoopsStep, TrafficStep
<1>4. TypeOK /\ Traffic /\ [Next]_vars => [R!Next]_(R!relayVars)
  BY StepRelays
<1> QED
  BY <1>1, <1>2, <1>3, <1>4, TypeCorrect, PTL DEF Spec, ImplementsRelay, R!RelaySpec
=============================================================================
