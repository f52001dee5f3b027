--------------------------- MODULE HubOrderProofs ---------------------------
(* In which order frames and snapshots come out of the hub, for every       *)
(* number of replicas, documents and connections and every buffer size.     *)
(*                                                                          *)
(* The bodies a client sends are numbered.  What a client has sent and the  *)
(* hub still has for one purpose - to be saved, or to come to a connection  *)
(* on one of two ways - lies at one of six stages, the last of which is the *)
(* client's own queue; a step moves a body on by one stage, or drops it.    *)
(* So the numbers at a stage stay below those at the stages behind it, and  *)
(* what arrives at the first stage arrives in order.                        *)
EXTENDS HubProofs

\* The numbers of the bodies of client e in a sequence of bodies, and the number
\* of one body.
Numbers(e, s) == {n \in 1..Quota[e] : \E k \in 1..Len(s) : s[k] = <<e, n>>}
Number(e, b) == {n \in 1..Quota[e] : b = <<e, n>>}

Below(S, T) == \A m \in S, n \in T : m < n

\* Client e's bodies come in the order of their numbers, but for those with a
\* number in U, which may come late.
InOrder(e, s, U) ==
  \A j, k \in 1..Len(s), m, n \in 1..Quota[e] :
    j < k /\ s[j] = <<e, m>> /\ s[k] = <<e, n>> => m < n \/ n \in U

\* Six stages, the oldest bodies first; those in U may lag behind.
Stages == 1..6
Ordered(line, U) == \A j, k \in Stages : j < k => Below(line[j], line[k] \ U)

Bytes == Bodies \cup {NoBody}

\* The bodies of frames, and of the messages Redis holds.
BodyOf == [f \in Frames |-> f.body]
PayloadBodyOf == [m \in BusMessages |-> m.payload.body]
Mapped(h, s) == [k \in 1..Len(s) |-> h[s[k]]]

\* Frames and messages carry bodies.
LEMMA BodyTypes == BodyOf \in [Frames -> Bytes] /\ PayloadBodyOf \in [BusMessages -> Bytes]
BY DEF BodyOf, PayloadBodyOf, Frames, BusMessages, Bytes

\* Mapping goes with appending, with the head and with the tail.
LEMMA MappedSeq ==
  ASSUME NEW S, NEW h, h \in [S -> Bytes], NEW s \in Seq(S)
  PROVE  /\ Mapped(h, s) \in Seq(Bytes)
         /\ \A x \in S : Mapped(h, Append(s, x)) = Append(Mapped(h, s), h[x])
         /\ s # <<>> => /\ Mapped(h, s) # <<>>
                        /\ Head(Mapped(h, s)) = h[Head(s)]
                        /\ Mapped(h, Tail(s)) = Tail(Mapped(h, s))
<1> DEFINE t == Mapped(h, s)
<1>1. /\ t \in Seq(Bytes) /\ Len(t) = Len(s) /\ Len(s) \in Nat
      /\ \A k \in 1..Len(s) : t[k] = h[s[k]]
  BY DEF Mapped
<1>2. ASSUME NEW x \in S PROVE Mapped(h, Append(s, x)) = Append(t, h[x])
  <2> DEFINE u == Append(s, x)
             v == Append(t, h[x])
  <2>1. /\ Len(u) = Len(s) + 1 /\ u[Len(s) + 1] = x
        /\ \A k \in 1..Len(s) : u[k] = s[k]
    OBVIOUS
  <2>2. /\ v \in Seq(Bytes) /\ Len(v) = Len(s) + 1 /\ v[Len(s) + 1] = h[x]
        /\ \A k \in 1..Len(s) : v[k] = h[s[k]]
    BY <1>1
  <2> HIDE DEF u, v
  <2>3. v = [k \in 1..Len(s) + 1 |-> v[k]]
    BY <2>2
  <2>4. \A k \in 1..Len(s) + 1 : v[k] = h[u[k]]
    BY <1>1, <2>1, <2>2
  <2>5. Mapped(h, u) = v
    BY <2>1, <2>3, <2>4 DEF Mapped
  <2> QED
    BY <2>5 DEF u, v
<1>3. ASSUME s # <<>>
      PROVE  t # <<>> /\ Head(t) = h[Head(s)] /\ Mapped(h, Tail(s)) = Tail(t)
  <2>1. Len(s) \in Nat \ {0}
    BY <1>3, EmptySeq
  <2>2. t # <<>> /\ Head(t) = h[Head(s)]
    BY <1>1, <1>3, <2>1
  <2>3. Len(Tail(s)) = Len(s) - 1 /\ \A k \in 1..Len(s) - 1 : Tail(s)[k] = s[k + 1]
    BY <1>3, <2>1
  <2>4. Mapped(h, Tail(s)) = Tail(t)
    BY <1>1, <2>1, <2>2, <2>3 DEF Mapped
  <2> QED
    BY <2>2, <2>4
<1> QED
  BY <1>1, <1>2, <1>3

\* The same, of a queue of frames.
LEMMA QueuedBodies ==
  ASSUME NEW s \in Seq(Frames)
  PROVE  /\ Mapped(BodyOf, s) \in Seq(Bytes)
         /\ \A f \in Frames : Mapped(BodyOf, Append(s, f)) = Append(Mapped(BodyOf, s), f.body)
         /\ s # <<>> => /\ Mapped(BodyOf, s) # <<>>
                        /\ Head(Mapped(BodyOf, s)) = Head(s).body
                        /\ Mapped(BodyOf, Tail(s)) = Tail(Mapped(BodyOf, s))
<1>1. \A f \in Frames : BodyOf[f] = f.body
  BY DEF BodyOf
<1>2. s # <<>> => Head(s) \in Frames
  OBVIOUS
<1> QED
  BY <1>1, <1>2, BodyTypes, MappedSeq

\* The same, of the messages Redis has for a replica.
LEMMA BusBodies ==
  ASSUME NEW s \in Seq(BusMessages)
  PROVE  /\ Mapped(PayloadBodyOf, s) \in Seq(Bytes)
         /\ \A m \in BusMessages : Mapped(PayloadBodyOf, Append(s, m))
                                    = Append(Mapped(PayloadBodyOf, s), m.payload.body)
         /\ s # <<>> => /\ Mapped(PayloadBodyOf, s) # <<>>
                        /\ Head(Mapped(PayloadBodyOf, s)) = Head(s).payload.body
                        /\ Mapped(PayloadBodyOf, Tail(s)) = Tail(Mapped(PayloadBodyOf, s))
<1>1. \A m \in BusMessages : PayloadBodyOf[m] = m.payload.body
  BY DEF PayloadBodyOf
<1>2. s # <<>> => Head(s) \in BusMessages
  OBVIOUS
<1> QED
  BY <1>1, <1>2, BodyTypes, MappedSeq

\* A body at the end comes in order if it is newer than what is there.
LEMMA AppendInOrder ==
  ASSUME NEW S, NEW s \in Seq(S), NEW b \in S, NEW e, NEW U, InOrder(e, s, U),
         Below(Numbers(e, s), Number(e, b) \ U)
  PROVE  /\ InOrder(e, Append(s, b), U)
         /\ Numbers(e, Append(s, b)) \subseteq Numbers(e, s) \cup Number(e, b)
<1>1. /\ Len(Append(s, b)) = Len(s) + 1 /\ Len(s) \in Nat
      /\ \A k \in 1..Len(s) : Append(s, b)[k] = s[k]
      /\ Append(s, b)[Len(s) + 1] = b
  OBVIOUS
<1> DEFINE t == Append(s, b)
<1> HIDE DEF t
<1>2. InOrder(e, t, U)
  <2> SUFFICES ASSUME NEW j \in 1..Len(t), NEW k \in 1..Len(t), NEW m \in 1..Quota[e], NEW n \in 1..Quota[e],
                      j < k, t[j] = <<e, m>>, t[k] = <<e, n>>
               PROVE  m < n \/ n \in U
    BY DEF InOrder
  <2>1. j \in 1..Len(s) /\ s[j] = <<e, m>>
    BY <1>1 DEF t
  <2>2. CASE k \in 1..Len(s)
    BY <1>1, <2>1, <2>2 DEF t, InOrder
  <2>3. CASE k = Len(s) + 1
    <3>1. m \in Numbers(e, s) /\ n \in Number(e, b)
      BY <1>1, <2>1, <2>3 DEF t, Numbers, Number
    <3> QED
      BY <3>1 DEF Below
  <2> QED
    BY <1>1, <2>2, <2>3 DEF t
<1>3. Numbers(e, t) \subseteq Numbers(e, s) \cup Number(e, b)
  <2> SUFFICES ASSUME NEW n \in 1..Quota[e], NEW k \in 1..Len(t), t[k] = <<e, n>>
               PROVE  n \in Numbers(e, s) \cup Number(e, b)
    BY DEF Numbers
  <2>1. CASE k \in 1..Len(s)
    BY <1>1, <2>1 DEF t, Numbers
  <2>2. CASE k = Len(s) + 1
    BY <1>1, <2>2 DEF t, Number
  <2> QED
    BY <1>1, <2>1, <2>2 DEF t
<1> QED
  BY <1>2, <1>3 DEF t

\* The first body is older than the rest.
LEMMA TailInOrder ==
  ASSUME NEW S, NEW s \in Seq(S), s # <<>>, NEW e, NEW U, InOrder(e, s, U)
  PROVE  /\ InOrder(e, Tail(s), U)
         /\ Numbers(e, Tail(s)) \subseteq Numbers(e, s)
         /\ Number(e, Head(s)) \subseteq Numbers(e, s)
         /\ Below(Number(e, Head(s)), Numbers(e, Tail(s)) \ U)
<1>1. /\ Len(s) \in Nat \ {0} /\ Len(Tail(s)) = Len(s) - 1
      /\ \A k \in 1..Len(s) - 1 : Tail(s)[k] = s[k + 1]
      /\ Head(s) = s[1]
  BY EmptySeq
<1> DEFINE t == Tail(s)
           h == Head(s)
<1> HIDE DEF t, h
<1>2. \A k \in 1..Len(t) : k + 1 \in 1..Len(s) /\ t[k] = s[k + 1] /\ 1 < k + 1
  BY <1>1 DEF t
<1>2a. 1 \in 1..Len(s) /\ h = s[1]
  BY <1>1 DEF h
<1>3. InOrder(e, t, U)
  <2> SUFFICES ASSUME NEW j \in 1..Len(t), NEW k \in 1..Len(t), NEW m \in 1..Quota[e], NEW n \in 1..Quota[e],
                      j < k, t[j] = <<e, m>>, t[k] = <<e, n>>
               PROVE  m < n \/ n \in U
    BY DEF InOrder
  <2>1. j + 1 < k + 1
    BY <1>1 DEF t
  <2> QED
    BY <1>2, <2>1 DEF InOrder
<1>4. Numbers(e, t) \subseteq Numbers(e, s)
  BY <1>2 DEF Numbers
<1>5. Number(e, h) \subseteq Numbers(e, s)
  BY <1>2a DEF Number, Numbers
<1>6. Below(Number(e, h), Numbers(e, t) \ U)
  <2> SUFFICES ASSUME NEW m \in 1..Quota[e], NEW n \in 1..Quota[e], h = <<e, m>>, n \notin U,
                      NEW k \in 1..Len(t), t[k] = <<e, n>>
               PROVE  m < n
    BY DEF Below, Number, Numbers
  <2> QED
    BY <1>2, <1>2a DEF InOrder
<1> QED
  BY <1>3, <1>4, <1>5, <1>6 DEF t, h

\* What a client that leaves has lost are the last frames.
LEMMA PrefixInOrder ==
  ASSUME NEW s \in Seq(Frames), NEW n \in 0..Len(s), NEW e, NEW U,
         InOrder(e, Mapped(BodyOf, s), U)
  PROVE  /\ InOrder(e, Mapped(BodyOf, SubSeq(s, 1, n)), U)
         /\ Numbers(e, Mapped(BodyOf, SubSeq(s, 1, n))) \subseteq Numbers(e, Mapped(BodyOf, s))
<1> DEFINE p == Mapped(BodyOf, SubSeq(s, 1, n))
           q == Mapped(BodyOf, s)
<1>1. Len(s) \in Nat /\ Len(SubSeq(s, 1, n)) = n /\ \A k \in 1..n : SubSeq(s, 1, n)[k] = s[k]
  BY SubSeqProperties
<1>2. Len(q) = Len(s) /\ \A k \in 1..Len(s) : q[k] = BodyOf[s[k]]
  BY <1>1 DEF Mapped
<1>3. Len(p) = n /\ \A k \in 1..n : p[k] = BodyOf[s[k]]
  BY <1>1 DEF Mapped
<1>4. \A k \in 1..Len(p) : k \in 1..Len(q) /\ p[k] = q[k]
  BY <1>1, <1>2, <1>3
<1> HIDE DEF p, q
<1>5. InOrder(e, p, U)
  BY <1>4 DEF InOrder, q
<1>6. Numbers(e, p) \subseteq Numbers(e, q)
  BY <1>4 DEF Numbers
<1> QED
  BY <1>5, <1>6 DEF p, q

\* A step that moves a body from stage k + 1 to stage k, or drops bodies; it may
\* let more of them lag behind.
LEMMA MoveOn ==
  ASSUME NEW old, NEW new, NEW U, NEW V, U \subseteq V, NEW k \in Stages, Ordered(old, U),
         \A j \in Stages : j # k => new[j] \subseteq old[j],
         k = 6 => new[k] \subseteq old[k],
         k # 6 => new[k] \subseteq old[k] \cup old[k + 1] /\ Below(new[k], new[k + 1] \ V)
  PROVE  Ordered(new, V)
<1> SUFFICES ASSUME NEW i \in Stages, NEW j \in Stages, i < j, NEW m \in new[i],
                    NEW n \in new[j], n \notin V
             PROVE  m < n
  BY DEF Ordered, Below
<1>0. n \notin U
  OBVIOUS
<1>1. CASE i # k /\ j # k
  BY <1>0, <1>1 DEF Ordered, Below
<1>2. CASE i = k
  <2>1. k # 6 /\ k + 1 \in Stages
    BY <1>2 DEF Stages
  <2>2. CASE j = k + 1
    BY <1>2, <2>1, <2>2 DEF Below
  <2>3. CASE j # k + 1
    <3>1. n \in old[j] /\ k < j /\ k + 1 < j
      BY <1>2, <2>3 DEF Stages
    <3>2. m \in old[k] \/ m \in old[k + 1]
      BY <1>2, <2>1
    <3> QED
      BY <1>0, <2>1, <3>1, <3>2 DEF Ordered, Below
  <2> QED
    BY <2>2, <2>3
<1>3. CASE j = k
  <2>1. m \in old[i] /\ (k # 6 => k + 1 \in Stages /\ i < k + 1)
    BY <1>3 DEF Stages
  <2> QED
    BY <1>0, <1>3, <2>1 DEF Ordered, Below
<1> QED
  BY <1>1, <1>2, <1>3

\* The same, where nothing lags behind.
LEMMA MoveOnStrict ==
  ASSUME NEW old, NEW new, NEW k \in Stages, Ordered(old, {}),
         \A j \in Stages : j # k => new[j] \subseteq old[j],
         k # 6, new[k] \subseteq old[k] \cup old[k + 1], Below(new[k], new[k + 1] \ {})
  PROVE  Ordered(new, {})
<1> DEFINE V == {}
<1>1. V \subseteq V /\ Ordered(old, V) /\ Below(new[k], new[k + 1] \ V)
  OBVIOUS
<1> HIDE DEF V
<1>2. Ordered(new, V)
  BY <1>1, MoveOn
<1> QED
  BY <1>2 DEF V

\* Bodies are only dropped.
LEMMA DropOnly ==
  ASSUME NEW old, NEW new, NEW U, NEW V, U \subseteq V, Ordered(old, U),
         \A j \in Stages : new[j] \subseteq old[j]
  PROVE  Ordered(new, V)
BY DEF Ordered, Below

\* A new body joins the last stage.
LEMMA JoinLast ==
  ASSUME NEW old, NEW new, NEW U, NEW n \in Nat, Ordered(old, U),
         \A j \in Stages : Below(old[j], {n}),
         \A j \in Stages : j # 6 => new[j] \subseteq old[j],
         new[6] \subseteq old[6] \cup {n}
  PROVE  Ordered(new, U)
<1> SUFFICES ASSUME NEW i \in Stages, NEW j \in Stages, i < j, NEW m \in new[i],
                    NEW p \in new[j], p \notin U
             PROVE  m < p
  BY DEF Ordered, Below
<1>1. i # 6 /\ m \in old[i]
  BY DEF Stages
<1>2. CASE p \in old[j]
  BY <1>1, <1>2 DEF Ordered, Below
<1>3. CASE p = n
  BY <1>1, <1>3 DEF Below
<1> QED
  BY <1>2, <1>3

-----------------------------------------------------------------------------
(* Saves.                                                                  *)

Owned(c) == {c} \X (1..Quota[c])
OwnFrames(c) == {f \in Frames : f.body \in Owned(c)}

\* What a connection handles for its client came from its client.
Mine(c) ==
  /\ inbox[c] \in Seq(OwnFrames(c))
  /\ cur[c] \in OwnFrames(c) \cup {NoFrame}
  /\ saveQ[c] \in Seq(Owned(c))
  /\ latest[c] \in Owned(c) \cup {NoBody}
  /\ saving[c] \in Owned(c) \cup {NoBody}
RowsAreSent == \A d \in Docs : store[d] = NoBody \/ \E c \in Conns : store[d] \in Owned(c)
AllMine == (\A c \in Conns : Mine(c)) /\ RowsAreSent

\* A handler and a save loop never get hold of what another client sent.
LEMMA MineStep == TypeOK /\ AllMine /\ [Next]_vars => AllMine'
<1> SUFFICES ASSUME TypeOK, AllMine, [Next]_vars PROVE AllMine'
  OBVIOUS
<1>a. /\ inbox \in [Conns -> Seq(Frames)] /\ sent \in [Conns -> Seq(Frames)]
      /\ cur \in [Goroutines -> Frames \cup {NoFrame}]
      /\ saveQ \in [Conns -> Seq(Bodies)]
      /\ latest \in [Conns -> Bodies \cup {NoBody}]
      /\ saving \in [Conns -> Bodies \cup {NoBody}]
      /\ store \in [Docs -> Bodies \cup {NoBody}]
  BY DEF TypeOK, Types
<1>1. ASSUME NEW c \in Conns PROVE Mine(c)'
  <2> DEFINE F == OwnFrames(c)
             B == Owned(c)
             Done == /\ inbox'[c] \in Seq(F) /\ cur'[c] \in F \cup {NoFrame}
                     /\ saveQ'[c] \in Seq(B) /\ latest'[c] \in B \cup {NoBody}
                     /\ saving'[c] \in B \cup {NoBody}
  <2>1. /\ inbox[c] \in Seq(F) /\ cur[c] \in F \cup {NoFrame}
        /\ saveQ[c] \in Seq(B) /\ latest[c] \in B \cup {NoBody}
        /\ saving[c] \in B \cup {NoBody}
    BY DEF AllMine, Mine
  <2>2. \A f \in F : f.body \in B
    BY DEF OwnFrames
  <2>3. F' = F /\ B' = B
    BY DEF OwnFrames, Owned
  <2> USE HubAssumption DEF Goroutines, handlerVars, saveVars, netVars
  <2>4. ASSUME NEW t \in ClientTypes, Len(sent[c]) < Quota[c]
        PROVE  [type |-> t, body |-> <<c, Len(sent[c]) + 1>>] \in F
    <3>1. Len(sent[c]) \in Nat /\ Quota[c] \in Nat
      BY <1>a, ClientsAssumption
    <3>2. <<c, Len(sent[c]) + 1>> \in B
      BY <2>4, <3>1 DEF Owned
    <3>3. B \subseteq Bodies /\ t \in FrameTypes
      BY ClientsAssumption DEF Owned
    <3> QED
      BY <3>2, <3>3 DEF OwnFrames, Frames
  <2> HIDE DEF F, B
  <2>5. ASSUME NEW e \in Conns, ReadFrame(e) PROVE Done
    BY <1>a, <2>1, <2>5 DEF ReadFrame
  <2>6. ASSUME NEW g \in Goroutines, NEW e \in Conns, Offer(g, e) PROVE Done
    BY <1>a, <2>1, <2>6 DEF Offer
  <2>7. ASSUME NEW e \in Conns, QueueSave(e) PROVE Done
    <3>1. e = c => cur[c] \in F
      BY <2>1, <2>7 DEF QueueSave, TypeOK, Equipped
    <3>2. e = c => Queued(saveQ[c], cur[c].body) \in Seq(B)
      BY <2>1, <2>2, <3>1 DEF Queued
    <3> QED
      BY <1>a, <2>1, <2>7, <3>2 DEF QueueSave
  <2>8. ASSUME NEW e \in Conns, Return(e) PROVE Done
    BY <1>a, <2>1, <2>8 DEF Return
  <2>9. ASSUME NEW e \in Conns, SaveLoop(e) PROVE Done
    <3>1. CASE TakeSave(e)
      <4>1. e = c => Head(saveQ[c]) \in B /\ Tail(saveQ[c]) \in Seq(B)
        BY <2>1, <3>1 DEF TakeSave
      <4> QED
        BY <1>a, <2>1, <3>1, <4>1 DEF TakeSave
    <3>2. CASE SaveTick(e)
      BY <1>a, <2>1, <3>2 DEF SaveTick
    <3>3. CASE SaveCommits(e) \/ SaveFails(e)
      BY <1>a, <2>1, <3>3 DEF SaveCommits, SaveFails
    <3> QED
      BY <2>9, <3>1, <3>2, <3>3 DEF SaveLoop
  <2>10. ASSUME NEW i \in Instances, BusReceive(i) PROVE Done
    BY <1>a, <2>1, <2>10 DEF BusReceive
  <2>11. ASSUME NEW i \in Instances, Stop(i) PROVE Done
    BY <1>a, <2>1, <2>11 DEF Stop
  <2>12. ASSUME NEW e \in Conns, ClientSend(e) PROVE Done
    <3>1. PICK t \in ClientTypes :
            inbox' = [inbox EXCEPT ![e] = Append(@, [type |-> t, body |-> <<e, Len(sent[e]) + 1>>])]
      BY <2>12 DEF ClientSend
    <3>2. Len(sent[e]) < Quota[e] /\ UNCHANGED <<handlerVars, saveVars>>
      BY <2>12 DEF ClientSend
    <3> QED
      BY <1>a, <2>1, <2>4, <3>1, <3>2
  <2>13. ASSUME NEW e \in Conns, ClientLeave(e) PROVE Done
    <3>1. PICK n \in 0..Len(inbox[e]) : inbox' = [inbox EXCEPT ![e] = SubSeq(@, 1, n)]
      BY <2>13 DEF ClientLeave
    <3>2. UNCHANGED <<handlerVars, saveVars>>
      BY <2>13 DEF ClientLeave
    <3>3. inbox'[c] \in Seq(F)
      BY <1>a, <2>1, <3>1, SubSeqProperties
    <3> QED
      BY <2>1, <3>2, <3>3
  <2>14. ASSUME UNCHANGED <<inbox, cur, saveVars>> PROVE Done
    BY <2>1, <2>14
  <2>15. Done
    BY <2>5, <2>6, <2>7, <2>8, <2>9, <2>10, <2>11, <2>12, <2>13, <2>14
       DEF Next, Server, Clients, HubNext, ServeWS, Subscriber, Accept, Join, Publish,
           Unanswered, ServeLate, StartBroadcast, ReadFails, Leave, WriteLoop, Subscribe,
           LoseBus, vars, hubVars
  <2> QED
    BY <2>3, <2>15 DEF Mine, F, B
<1>2. RowsAreSent'
  <2>1. ASSUME NEW c \in Conns, SaveCommits(c) PROVE RowsAreSent'
    <3>1. saving[c] \in Owned(c)
      BY <2>1 DEF SaveCommits, AllMine, Mine
    <3>2. store' = [store EXCEPT ![DocOf[c]] = saving[c]] \/ store' = store
      BY <2>1 DEF SaveCommits, dbVars
    <3> QED
      BY <1>a, <3>1, <3>2 DEF AllMine, RowsAreSent, Owned
  <2>2. CASE UNCHANGED store
    BY <2>2 DEF AllMine, RowsAreSent, Owned
  <2> QED
    BY <2>1, <2>2
       DEF Next, Server, Clients, HubNext, ServeWS, Subscriber, SaveLoop, Accept, Join,
           ReadFrame, Publish, Unanswered, ServeLate, StartBroadcast, Offer, QueueSave,
           ReadFails, Leave, Return, WriteLoop, TakeSave, SaveTick, SaveFails, Subscribe, LoseBus, BusReceive, Stop,
           ClientSend, ClientLeave, vars, hubVars, dbVars
<1> QED
  BY <1>1, <1>2 DEF AllMine

\* The handler of c has a frame in hand.
InHand == {"publishing", "broadcasting", "offering"}

\* From the client's queue to the row of its document.
SaveLine(c) ==
  << Number(c, store[DocOf[c]]), Number(c, saving[c]), Number(c, latest[c]),
     Numbers(c, saveQ[c]),
     IF pc[c] \in InHand THEN Number(c, cur[c].body) ELSE {},
     Numbers(c, Mapped(BodyOf, inbox[c])) >>

SavesInOrder(c) ==
  /\ InOrder(c, saveQ[c], {}) /\ InOrder(c, Mapped(BodyOf, inbox[c]), {})
  /\ Ordered(SaveLine(c), {})
  /\ \A j \in Stages : SaveLine(c)[j] \subseteq 1..Len(sent[c])

\* No step lets an older snapshot overtake a newer one on the way to the row.
LEMMA SavesInOrderStep ==
  ASSUME TypeOK, AllMine, [Next]_vars, NEW c \in Conns, SavesInOrder(c)
  PROVE  SavesInOrder(c)'
<1> DEFINE old == SaveLine(c)
           new == SaveLine(c)'
           s == Mapped(BodyOf, inbox[c])
           t == Mapped(BodyOf, inbox'[c])
           N == Len(sent[c])
           Done == /\ InOrder(c, saveQ'[c], {}) /\ InOrder(c, t, {}) /\ Ordered(new, {})
                   /\ \A j \in Stages : new[j] \subseteq 1..Len(sent'[c])
<1> SUFFICES Done
  <2>1. BodyOf' = BodyOf
    BY DEF BodyOf
  <2> QED
    BY <2>1 DEF SavesInOrder, InOrder, Mapped
<1>a. /\ inbox \in [Conns -> Seq(Frames)] /\ sent \in [Conns -> Seq(Frames)]
      /\ cur \in [Goroutines -> Frames \cup {NoFrame}]
      /\ saveQ \in [Conns -> Seq(Bodies)]
      /\ latest \in [Conns -> Bodies \cup {NoBody}]
      /\ saving \in [Conns -> Bodies \cup {NoBody}]
      /\ store \in [Docs -> Bodies \cup {NoBody}]
      /\ pc \in [Conns -> Phases]
  BY DEF TypeOK, Types
<1>b. /\ Mine(c) /\ \A n \in 1..Quota[c] : NoBody # <<c, n>>
      /\ \A n \in 1..Quota[c] : <<c, n>> \in Bodies
  BY HubAssumption, ClientsAssumption DEF AllMine
<1>c. /\ InOrder(c, saveQ[c], {}) /\ InOrder(c, s, {}) /\ Ordered(old, {})
      /\ \A j \in Stages : old[j] \subseteq 1..N
  BY DEF SavesInOrder
\* What the stages are.
<1>d. /\ old[1] = Number(c, store[DocOf[c]]) /\ old[2] = Number(c, saving[c])
      /\ old[3] = Number(c, latest[c]) /\ old[4] = Numbers(c, saveQ[c])
      /\ old[5] = IF pc[c] \in InHand THEN Number(c, cur[c].body) ELSE {}
      /\ old[6] = Numbers(c, s)
      /\ new[1] = Number(c, store'[DocOf[c]]) /\ new[2] = Number(c, saving'[c])
      /\ new[3] = Number(c, latest'[c]) /\ new[4] = Numbers(c, saveQ'[c])
      /\ new[5] = IF pc'[c] \in InHand THEN Number(c, cur'[c].body) ELSE {}
      /\ new[6] = Numbers(c, t)
  <2>1. BodyOf' = BodyOf
    BY DEF BodyOf
  <2> QED
    BY <2>1 DEF SaveLine, Number, Numbers, InHand, Mapped
<1>e. Stages = {1, 2, 3, 4, 5, 6}
  BY DEF Stages
<1>f. N \in Nat /\ Number(c, NoBody) = {} /\ Numbers(c, <<>>) = {}
  BY <1>a, <1>b DEF Number, Numbers
<1> HIDE DEF old, new, s, t, N
<1> USE HubAssumption DEF Goroutines, handlerVars, saveVars, netVars, dbVars
\* Steps that leave the client's queue alone, and take nothing up.
<1>1. ASSUME sent'[c] = sent[c], inbox'[c] = inbox[c], InOrder(c, saveQ'[c], {}),
             \A j \in Stages : new[j] \subseteq old[j]
      PROVE  Done
  <2>1. t = s
    BY <1>1 DEF s, t
  <2> QED
    BY <1>1, <1>c, <2>1, DropOnly DEF N
\* Steps that concern others, or the rest of the handler.
<1>2. ASSUME sent'[c] = sent[c], inbox'[c] = inbox[c], saveQ'[c] = saveQ[c],
             latest'[c] \in {latest[c], NoBody}, saving'[c] \in {saving[c], NoBody},
             store'[DocOf[c]] = store[DocOf[c]] \/ Number(c, store'[DocOf[c]]) = {},
             pc'[c] \in InHand => pc[c] \in InHand /\ cur'[c] = cur[c]
      PROVE  Done
  <2>1. t = s
    BY <1>2 DEF s, t
  <2>2. /\ new[1] \subseteq old[1] /\ new[2] \subseteq old[2] /\ new[3] \subseteq old[3]
        /\ new[4] \subseteq old[4] /\ new[5] \subseteq old[5] /\ new[6] \subseteq old[6]
    BY <1>2, <1>d, <1>f, <2>1
  <2> QED
    BY <1>1, <1>2, <1>c, <1>e, <2>2
<1>3. ASSUME NEW e \in Conns, e # c,
             \/ ClientSend(e) \/ ClientLeave(e)
             \/ /\ ServeWS(e) \/ TakeSave(e) \/ SaveTick(e) \/ SaveFails(e)
                /\ UNCHANGED sent
      PROVE  Done
  <2>1. ASSUME NEW d \in Conns, Offer(e, d), UNCHANGED sent PROVE Done
    BY <1>2, <1>3, <1>a, <2>1 DEF Offer
  <2>2. CASE ClientSend(e) \/ ClientLeave(e)
    BY <1>2, <1>3, <1>a, <2>2 DEF ClientSend, ClientLeave
  <2>3. CASE /\ \/ Accept(e) \/ Join(e) \/ ReadFrame(e) \/ Publish(e) \/ Unanswered(e)
               \/ StartBroadcast(e)
            /\ UNCHANGED sent
    BY <1>2, <1>3, <1>a, <2>3 DEF Accept, Join, ReadFrame, Publish, Unanswered, StartBroadcast
  <2>4. CASE (QueueSave(e) \/ ReadFails(e) \/ Leave(e) \/ Return(e)) /\ UNCHANGED sent
    BY <1>2, <1>3, <1>a, <2>4 DEF QueueSave, ReadFails, Leave, Return
  <2>5. CASE (TakeSave(e) \/ SaveTick(e) \/ SaveFails(e)) /\ UNCHANGED sent
    BY <1>2, <1>3, <1>a, <2>5 DEF TakeSave, SaveTick, SaveFails
  <2> QED
    BY <1>3, <2>1, <2>2, <2>3, <2>4, <2>5 DEF ServeWS
<1>4. CASE ReadFrame(c) /\ UNCHANGED sent
  <2>1. /\ inbox[c] # <<>> /\ inbox[c] \in Seq(Frames) /\ Head(inbox[c]) \in Frames
        /\ inbox'[c] = Tail(inbox[c]) /\ cur'[c] = Head(inbox[c])
        /\ pc[c] = "reading" /\ pc'[c] = "publishing" /\ sent'[c] = sent[c]
        /\ UNCHANGED <<saveVars, dbVars>>
    BY <1>4, <1>a DEF ReadFrame
  <2>2. /\ s \in Seq(Bytes) /\ s # <<>> /\ t = Tail(s) /\ Head(s) = cur'[c].body
    BY <2>1, QueuedBodies DEF s, t
  <2>3. /\ InOrder(c, t, {}) /\ Numbers(c, t) \subseteq Numbers(c, s)
        /\ Number(c, Head(s)) \subseteq Numbers(c, s) /\ Below(Number(c, Head(s)), Numbers(c, t) \ {})
    BY <1>c, <2>2, TailInOrder
  <2>4. /\ new[1] = old[1] /\ new[2] = old[2] /\ new[3] = old[3] /\ new[4] = old[4]
        /\ new[5] \subseteq old[6] /\ new[6] \subseteq old[6] /\ Below(new[5], new[6] \ {})
    BY <1>d, <2>1, <2>2, <2>3 DEF InHand
  <2>5. Ordered(new, {})
    <3>1. \A j \in Stages : j # 5 => new[j] \subseteq old[j]
      BY <1>e, <2>4
    <3>2. 5 \in Stages /\ 5 + 1 = 6 /\ new[5] \subseteq old[5] \cup old[6]
      BY <1>e, <2>4
    <3> QED
      BY <1>c, <2>4, <3>1, <3>2, MoveOnStrict
  <2> QED
    BY <1>c, <1>e, <2>1, <2>3, <2>4, <2>5 DEF N
<1>5. CASE QueueSave(c) /\ UNCHANGED sent
  <2>1. /\ pc[c] = "offering" /\ pc'[c] = "reading" /\ sent'[c] = sent[c] /\ t = s
        /\ latest' = latest /\ saving' = saving /\ store' = store
        /\ saveQ'[c] \in {saveQ[c], Append(saveQ[c], cur[c].body)}
        /\ saveQ'[c] # saveQ[c] => cur[c].body \in Bodies
    <3>1. IsSnapshot(cur[c]) => cur[c].body \in Bodies
      BY <1>5, <1>a DEF QueueSave, IsSnapshot, Frames, TypeOK, Equipped
    <3> QED
      BY <1>5, <1>a, <3>1 DEF QueueSave, Queued, s, t
  <2>2. Below(old[4], old[5] \ {}) /\ old[5] = Number(c, cur[c].body) /\ saveQ[c] \in Seq(Bodies)
    BY <1>a, <1>c, <1>d, <1>e, <2>1 DEF Ordered, InHand
  <2>3. InOrder(c, saveQ'[c], {}) /\ new[4] \subseteq old[4] \cup old[5]
    <3>1. CASE saveQ'[c] = saveQ[c]
      BY <1>c, <1>d, <3>1
    <3>2. CASE saveQ'[c] = Append(saveQ[c], cur[c].body) /\ cur[c].body \in Bodies
      <4> DEFINE p == cur[c].body
      <4>1. p \in Bodies /\ saveQ'[c] = Append(saveQ[c], p) /\ old[5] = Number(c, p)
        BY <2>2, <3>2
      <4> HIDE DEF p
      <4>2. Below(Numbers(c, saveQ[c]), Number(c, p) \ {}) /\ InOrder(c, saveQ[c], {})
        BY <1>c, <1>d, <2>2, <4>1
      <4>3. /\ InOrder(c, Append(saveQ[c], p), {})
            /\ Numbers(c, Append(saveQ[c], p)) \subseteq Numbers(c, saveQ[c]) \cup Number(c, p)
        BY <2>2, <4>1, <4>2, AppendInOrder
      <4> QED
        BY <1>d, <4>1, <4>3
    <3> QED
      BY <2>1, <3>1, <3>2
  <2>4. /\ new[1] = old[1] /\ new[2] = old[2] /\ new[3] = old[3] /\ new[5] = {} /\ new[6] = old[6]
    BY <1>d, <2>1 DEF InHand
  <2>5. Ordered(new, {})
    <3>1. \A j \in Stages : j # 4 => new[j] \subseteq old[j]
      BY <1>e, <2>4
    <3>2. 4 \in Stages /\ 4 + 1 = 5 /\ Below(new[4], new[5] \ {})
      BY <1>e, <2>4 DEF Below
    <3> QED
      BY <1>c, <2>3, <3>1, <3>2, MoveOnStrict
  <2> QED
    BY <1>c, <1>e, <2>1, <2>3, <2>4, <2>5 DEF N
<1>6. CASE TakeSave(c) /\ UNCHANGED sent
  <2>1. /\ saveQ[c] # <<>> /\ saveQ[c] \in Seq(Bodies) /\ saving[c] = NoBody
        /\ latest'[c] = Head(saveQ[c]) /\ saveQ'[c] = Tail(saveQ[c]) /\ t = s
        /\ UNCHANGED <<pc, cur, saving, store, sent>>
    BY <1>6, <1>a DEF TakeSave, s, t
  <2>2. /\ InOrder(c, saveQ'[c], {}) /\ new[4] \subseteq old[4]
        /\ new[3] \subseteq old[4] /\ Below(new[3], new[4] \ {})
    <3>1. /\ InOrder(c, Tail(saveQ[c]), {})
          /\ Numbers(c, Tail(saveQ[c])) \subseteq Numbers(c, saveQ[c])
          /\ Number(c, Head(saveQ[c])) \subseteq Numbers(c, saveQ[c])
          /\ Below(Number(c, Head(saveQ[c])), Numbers(c, Tail(saveQ[c])) \ {})
      BY <1>c, <2>1, TailInOrder
    <3> QED
      BY <1>d, <2>1, <3>1
  <2>3. new[1] = old[1] /\ new[2] = old[2] /\ new[5] = old[5] /\ new[6] = old[6]
    BY <1>d, <2>1
  <2>4. Ordered(new, {})
    <3>1. \A j \in Stages : j # 3 => new[j] \subseteq old[j]
      BY <1>e, <2>2, <2>3
    <3>2. 3 \in Stages /\ 3 + 1 = 4 /\ new[3] \subseteq old[3] \cup old[4]
      BY <1>e, <2>2
    <3> QED
      BY <1>c, <2>2, <3>1, <3>2, MoveOnStrict
  <2> QED
    BY <1>c, <1>e, <2>1, <2>2, <2>3, <2>4 DEF N
<1>7. CASE SaveTick(c) /\ UNCHANGED sent
  <2>1. /\ saving'[c] = latest[c] /\ latest'[c] = NoBody /\ t = s
        /\ UNCHANGED <<pc, cur, saveQ, store, sent>>
    BY <1>7, <1>a DEF SaveTick, s, t
  <2>2. /\ new[1] = old[1] /\ new[2] = old[3] /\ new[3] = {} /\ new[4] = old[4]
        /\ new[5] = old[5] /\ new[6] = old[6]
    BY <1>d, <1>f, <2>1
  <2>3. Ordered(new, {})
    <3>1. \A j \in Stages : j # 2 => new[j] \subseteq old[j]
      BY <1>e, <2>2
    <3>2. 2 \in Stages /\ 2 + 1 = 3 /\ new[2] \subseteq old[2] \cup old[3] /\ Below(new[2], new[3] \ {})
      BY <1>e, <2>2 DEF Below
    <3> QED
      BY <1>c, <3>1, <3>2, MoveOnStrict
  <2> QED
    BY <1>c, <1>e, <2>1, <2>2, <2>3 DEF N
<1>8. ASSUME NEW e \in Conns, SaveCommits(e), UNCHANGED sent PROVE Done
  <2>1. /\ saving' = [saving EXCEPT ![e] = NoBody] /\ saving[e] # NoBody /\ t = s
        /\ store' = store \/ store' = [store EXCEPT ![DocOf[e]] = saving[e]]
        /\ UNCHANGED <<pc, cur, saveQ, latest, sent>>
    BY <1>8 DEF SaveCommits, s, t
  <2>2. CASE e = c
    <3>1. /\ new[1] \subseteq old[1] \cup old[2] /\ new[2] = {} /\ new[3] = old[3]
          /\ new[4] = old[4] /\ new[5] = old[5] /\ new[6] = old[6]
      BY <1>a, <1>d, <1>f, <2>1, <2>2
    <3>2. Ordered(new, {})
      <4>1. \A j \in Stages : j # 1 => new[j] \subseteq old[j]
        BY <1>e, <3>1
      <4>2. /\ 1 \in Stages /\ 1 # 6 /\ 1 + 1 = 2 /\ new[1] \subseteq old[1] \cup old[1 + 1]
            /\ Below(new[1], new[1 + 1] \ {})
        BY <1>e, <3>1 DEF Below
      <4> QED
        BY <1>c, <4>1, <4>2, MoveOnStrict
    <3> QED
      BY <1>c, <1>e, <2>1, <3>1, <3>2 DEF N
  <2>3. CASE e # c
    <3>1. Number(c, saving[e]) = {}
      <4>1. saving[e] \in Owned(e)
        BY <2>1 DEF AllMine, Mine
      <4>2. PICK n \in 1..Quota[e] : saving[e] = <<e, n>>
        BY <4>1 DEF Owned
      <4> QED
        BY <2>3, <4>2 DEF Number
    <3>2. store'[DocOf[c]] = store[DocOf[c]] \/ store'[DocOf[c]] = saving[e]
      BY <1>a, <2>1
    <3> QED
      BY <1>2, <1>8, <1>a, <2>1, <2>3, <3>1, <3>2 DEF SaveCommits
  <2> QED
    BY <2>2, <2>3
<1>9. CASE (SaveFails(c) \/ Return(c)) /\ UNCHANGED sent
  <2>1. InOrder(c, saveQ'[c], {}) /\ Numbers(c, saveQ'[c]) \subseteq Numbers(c, saveQ[c])
    <3>1. InOrder(c, <<>>, {})
      BY DEF InOrder
    <3>2. CASE SaveFails(c)
      BY <1>c, <3>2 DEF SaveFails
    <3>3. CASE Return(c)
      BY <1>a, <1>f, <3>1, <3>3 DEF Return
    <3> QED
      BY <1>9, <3>2, <3>3
  <2>2. /\ pc'[c] \in InHand => pc[c] \in InHand
        /\ latest'[c] \in {latest[c], NoBody} /\ saving'[c] \in {saving[c], NoBody}
        /\ UNCHANGED <<cur, inbox, store, sent>>
    BY <1>9, <1>a DEF SaveFails, Return, InHand
  <2>3. /\ new[1] \subseteq old[1] /\ new[2] \subseteq old[2] /\ new[3] \subseteq old[3]
        /\ new[4] \subseteq old[4] /\ new[5] \subseteq old[5] /\ new[6] \subseteq old[6]
    BY <1>d, <1>f, <2>1, <2>2 DEF s, t
  <2> QED
    BY <1>1, <1>e, <2>1, <2>2, <2>3
<1>10. CASE /\ \/ Accept(c) \/ Join(c) \/ Publish(c) \/ Unanswered(c) \/ StartBroadcast(c)
               \/ ReadFails(c) \/ Leave(c)
            /\ UNCHANGED sent
  BY <1>2, <1>10, <1>a
     DEF Accept, Join, Publish, Unanswered, StartBroadcast, ReadFails, Leave, InHand
<1>10a. ASSUME NEW m, ServeLate(m), UNCHANGED sent PROVE Done
  BY <1>2, <1>10a DEF ServeLate
<1>11. ASSUME NEW g \in Goroutines, NEW e \in Conns, Offer(g, e), UNCHANGED sent PROVE Done
  <2>1. g = c => cur'[c] = cur[c]
    BY <1>11, <1>a DEF Offer
  <2>2. g # c => cur'[c] = cur[c]
    BY <1>11, <1>a DEF Offer
  <2> QED
    BY <1>2, <1>11, <2>1, <2>2 DEF Offer
<1>12. ASSUME NEW e \in Conns, WriteLoop(e), UNCHANGED sent PROVE Done
  BY <1>2, <1>12 DEF WriteLoop
<1>13. ASSUME NEW i \in Instances, Subscribe(i) \/ LoseBus(i) \/ BusReceive(i), UNCHANGED sent PROVE Done
  BY <1>2, <1>13, <1>a DEF Subscribe, LoseBus, BusReceive
<1>14. ASSUME NEW i \in Instances, Stop(i), UNCHANGED sent PROVE Done
  <2>1. \/ /\ pc'[c] = pc[c] /\ cur'[c] = cur[c] /\ saveQ'[c] = saveQ[c]
           /\ latest'[c] = latest[c] /\ inbox'[c] = inbox[c]
        \/ /\ pc'[c] = "closed" /\ saveQ'[c] = <<>> /\ latest'[c] = NoBody
           /\ inbox'[c] = <<>>
    <3> DEFINE here == {d \in Conns : Home[d] = i /\ pc[d] # "new"}
    <3>1. c \in here \/ c \notin here \cup {i}
      OBVIOUS
    <3> HIDE DEF here
    <3> QED
      BY <1>14, <3>1 DEF Stop, here
  <2>2. UNCHANGED <<saving, store, sent>>
    BY <1>14 DEF Stop
  <2>3. CASE inbox'[c] = <<>> /\ saveQ'[c] = <<>> /\ latest'[c] = NoBody /\ pc'[c] = "closed"
    <3>1. t = <<>> /\ InOrder(c, <<>>, {})
      BY <2>3 DEF t, Mapped, InOrder
    <3>2. /\ new[1] = old[1] /\ new[2] = old[2] /\ new[3] = {} /\ new[4] = {} /\ new[5] = {}
          /\ new[6] = {}
      BY <1>d, <1>f, <2>2, <2>3, <3>1 DEF InHand
    <3>3. \A j \in Stages : new[j] \subseteq old[j]
      BY <1>e, <3>2
    <3> QED
      BY <1>c, <2>2, <2>3, <3>1, <3>3, DropOnly DEF N
  <2> QED
    BY <1>2, <2>1, <2>2, <2>3
<1>15. CASE ClientSend(c)
  <2>1. PICK y \in ClientTypes :
          LET f == [type |-> y, body |-> <<c, Len(sent[c]) + 1>>]
          IN  /\ inbox' = [inbox EXCEPT ![c] = Append(@, f)]
              /\ sent' = [sent EXCEPT ![c] = Append(@, f)]
    BY <1>15 DEF ClientSend
  <2> DEFINE f == [type |-> y, body |-> <<c, N + 1>>]
  <2>2. N + 1 \in 1..Quota[c] /\ f \in Frames
    <3>1. N < Quota[c] /\ Quota[c] \in Nat
      BY <1>15, ClientsAssumption DEF ClientSend, N
    <3>2. y \in FrameTypes /\ N + 1 \in 1..Quota[c]
      BY <1>f, <3>1, ClientsAssumption
    <3>3. <<c, N + 1>> \in Bodies
      BY <1>b, <3>2
    <3> QED
      BY <3>2, <3>3 DEF Frames
  <2>3. /\ inbox'[c] = Append(inbox[c], f) /\ sent'[c] = Append(sent[c], f)
        /\ f.body = <<c, N + 1>>
    BY <1>a, <2>1 DEF N
  <2> HIDE DEF f
  <2>4. /\ s \in Seq(Bytes) /\ t = Append(s, <<c, N + 1>>) /\ <<c, N + 1>> \in Bytes
    <3>1. inbox[c] \in Seq(Frames) /\ <<c, N + 1>> \in Bodies
      BY <1>a, <1>b, <2>2
    <3> QED
      BY <2>2, <2>3, <3>1, QueuedBodies DEF s, t, Bytes
  <2>5. Number(c, <<c, N + 1>>) = {N + 1}
    BY <2>2 DEF Number
  <2>6. \A j \in Stages : Below(old[j], {N + 1})
    BY <1>c, <1>f DEF Below
  <2>7. InOrder(c, t, {}) /\ new[6] \subseteq old[6] \cup {N + 1}
    <3> DEFINE b == <<c, N + 1>>
    <3>1. b \in Bytes /\ t = Append(s, b) /\ Number(c, b) = {N + 1}
      BY <2>4, <2>5
    <3> HIDE DEF b
    <3>2. Below(Numbers(c, s), Number(c, b) \ {})
      BY <1>d, <1>e, <2>6, <3>1
    <3>3. s \in Seq(Bytes) /\ InOrder(c, s, {})
      BY <1>c, <2>4
    <3>4. /\ InOrder(c, Append(s, b), {})
          /\ Numbers(c, Append(s, b)) \subseteq Numbers(c, s) \cup Number(c, b)
      BY <3>1, <3>2, <3>3, AppendInOrder
    <3> QED
      BY <1>d, <3>1, <3>4
  <2>8. /\ new[1] = old[1] /\ new[2] = old[2] /\ new[3] = old[3] /\ new[4] = old[4]
        /\ new[5] = old[5] /\ saveQ' = saveQ
    BY <1>15, <1>d DEF ClientSend
  <2>9. Ordered(new, {})
    <3>1. N + 1 \in Nat /\ \A j \in Stages : j # 6 => new[j] \subseteq old[j]
      BY <1>e, <1>f, <2>8
    <3> QED
      BY <1>c, <2>6, <2>7, <3>1, JoinLast
  <2>10. \A j \in Stages : new[j] \subseteq 1..Len(sent'[c])
    <3>1. Len(sent'[c]) = N + 1
      BY <1>a, <2>2, <2>3 DEF N
    <3> QED
      BY <1>c, <1>e, <1>f, <2>7, <2>8, <3>1
  <2> QED
    BY <1>c, <2>7, <2>8, <2>9, <2>10
<1>16. CASE ClientLeave(c)
  <2>1. PICK n \in 0..Len(inbox[c]) : inbox'[c] = SubSeq(inbox[c], 1, n)
    BY <1>16, <1>a DEF ClientLeave
  <2>2. UNCHANGED <<handlerVars, saveVars, store, sent>>
    BY <1>16 DEF ClientLeave
  <2>3. InOrder(c, t, {}) /\ Numbers(c, t) \subseteq Numbers(c, s)
    BY <1>a, <1>c, <2>1, PrefixInOrder DEF s, t
  <2>5. /\ new[1] = old[1] /\ new[2] = old[2] /\ new[3] = old[3] /\ new[4] = old[4]
        /\ new[5] = old[5] /\ new[6] \subseteq old[6] /\ saveQ' = saveQ
    BY <1>d, <2>2, <2>3
  <2>6. \A j \in Stages : new[j] \subseteq old[j]
    BY <1>e, <2>5
  <2> QED
    BY <1>c, <2>2, <2>3, <2>5, <2>6, DropOnly DEF N
<1>17. CASE UNCHANGED vars
  BY <1>2, <1>17 DEF vars, hubVars
<1> QED
  BY <1>3, <1>4, <1>5, <1>6, <1>7, <1>8, <1>9, <1>10, <1>10a, <1>11, <1>12, <1>13,
     <1>14, <1>15, <1>16, <1>17
     DEF Next, Server, Clients, HubNext, ServeWS, SaveLoop, Subscriber

SaveOrder == \A c \in Conns : SavesInOrder(c)

\* At first every stage is empty.
LEMMA SaveOrderInit == Init => AllMine /\ SaveOrder
<1> SUFFICES ASSUME Init PROVE AllMine /\ SaveOrder
  OBVIOUS
<1>1. AllMine
  BY DEF Init, HubInit, AllMine, Mine, RowsAreSent, Goroutines
<1>2. ASSUME NEW c \in Conns PROVE SavesInOrder(c)
  <2>1. \A n \in 1..Quota[c] : NoBody # <<c, n>>
    BY HubAssumption, ClientsAssumption
  <2>2. Number(c, NoBody) = {} /\ Numbers(c, <<>>) = {} /\ InOrder(c, <<>>, {})
    BY <2>1 DEF Number, Numbers, InOrder
  <2>3. /\ saveQ[c] = <<>> /\ Mapped(BodyOf, inbox[c]) = <<>> /\ pc[c] \notin InHand
        /\ store[DocOf[c]] = NoBody /\ saving[c] = NoBody /\ latest[c] = NoBody
    BY HubAssumption DEF Init, HubInit, Mapped, InHand
  <2>4. \A j \in Stages : SaveLine(c)[j] = {}
    BY <2>2, <2>3 DEF SaveLine, Stages
  <2> QED
    BY <2>2, <2>3, <2>4 DEF SavesInOrder, Ordered, Below
<1> QED
  BY <1>1, <1>2 DEF SaveOrder

\* The row of a document never goes back to an older snapshot of the connection
\* that wrote the current one.  (hub.go:92-97)
THEOREM SavesKept == Spec => SavesGoForward
<1>1. TypeOK /\ AllMine /\ SaveOrder /\ [Next]_vars => AllMine' /\ SaveOrder'
  BY MineStep, SavesInOrderStep DEF SaveOrder
<1> DEFINE Forward ==
      \A d \in Docs : (version'[d] # version[d] /\ store[d] # NoBody /\ store'[d][1] = store[d][1])
                        => store[d][2] < store'[d][2]
<1>2. TypeOK /\ AllMine /\ SaveOrder /\ [Next]_vars => Forward
  <2> SUFFICES ASSUME TypeOK, AllMine, SaveOrder, [Next]_vars, NEW d \in Docs,
                      version'[d] # version[d], store[d] # NoBody, store'[d][1] = store[d][1]
               PROVE  store[d][2] < store'[d][2]
    OBVIOUS
  <2>1. PICK c \in Conns : SaveCommits(c)
    BY DEF Next, Server, Clients, HubNext, ServeWS, Subscriber, SaveLoop, Accept, Join,
           ReadFrame, Publish, Unanswered, ServeLate, StartBroadcast, Offer, QueueSave,
           ReadFails, Leave, Return, WriteLoop, TakeSave, SaveTick, SaveFails, Subscribe, LoseBus, BusReceive, Stop,
           ClientSend, ClientLeave, vars, hubVars, dbVars
  <2>2. /\ saving[c] # NoBody
        /\ \/ UNCHANGED dbVars
           \/ /\ store' = [store EXCEPT ![DocOf[c]] = saving[c]]
              /\ version' = [version EXCEPT ![DocOf[c]] = @ + 1]
    BY <2>1 DEF SaveCommits
  <2>3. store \in [Docs -> Bodies \cup {NoBody}] /\ version \in [Docs -> Nat]
    BY DEF TypeOK, Types
  <2>4. DocOf[c] = d /\ store'[d] = saving[c]
    BY <2>2, <2>3 DEF dbVars
  <2>5. PICK n \in 1..Quota[c] : saving[c] = <<c, n>>
    <3>1. saving[c] \in Owned(c)
      BY <2>2 DEF AllMine, Mine
    <3> QED
      BY <3>1 DEF Owned
  <2>6. PICK e \in Conns : store[d] \in Owned(e)
    BY DEF AllMine, RowsAreSent
  <2>7. PICK m \in 1..Quota[e] : store[d] = <<e, m>>
    BY <2>6 DEF Owned
  <2>8. e = c
    BY <2>4, <2>5, <2>7
  <2>9. m \in SaveLine(c)[1] /\ n \in SaveLine(c)[2]
    BY <2>4, <2>5, <2>7, <2>8 DEF SaveLine, Number
  <2>10. m < n
    BY <2>9 DEF SaveOrder, SavesInOrder, Ordered, Below, Stages
  <2> QED
    BY <2>4, <2>5, <2>7, <2>10
<1> QED
  BY <1>1, <1>2, SaveOrderInit, TypeCorrect, PTL DEF Spec, SavesGoForward

-----------------------------------------------------------------------------
(* Frames.                                                                 *)
(*                                                                         *)
(* A frame of e has two ways to c.  One is the bus of c's replica; the     *)
(* other, on e's own replica, is the loop of e's handler.  Each keeps the   *)
(* order of the frames, and each carries a frame once.  Only where the two *)
(* ways meet, in c's buffer, can frames change their order or be repeated. *)
(* Except that a frame whose PUBLISH got no answer may come once more over  *)
(* the bus, at any time: it has been sent before what waits behind Redis,   *)
(* but may itself come after anything.                                      *)

\* The numbers of e's frames with an unanswered PUBLISH.
Late(e) == {n \in 1..Quota[e] : <<e, n>> \in Unsure}

\* What still waits to come to c by the bus, and from e's own handler.
BusLine(c, e) ==
  << {}, {},
     IF c \in todo[Home[c]] THEN Number(e, cur[Home[c]].body) ELSE {},
     Numbers(e, Mapped(PayloadBodyOf, bus[Home[c]])) \cup Late(e),
     IF pc[e] = "publishing" THEN Number(e, cur[e].body) ELSE {},
     Numbers(e, Mapped(BodyOf, inbox[e])) >>
OwnLine(c, e) ==
  << {}, {}, {},
     IF c \in todo[e] THEN Number(e, cur[e].body) ELSE {},
     IF pc[e] \in {"publishing", "broadcasting"} THEN Number(e, cur[e].body) ELSE {},
     Numbers(e, Mapped(BodyOf, inbox[e])) >>

\* The numbers that are somewhere in a line.
Waiting(line) == UNION {line[j] : j \in Stages}

\* A line in order, of what a client has sent in N frames, but for those in U.
Lined(line, N, U) == Ordered(line, U) /\ \A j \in Stages : line[j] \subseteq 1..N

BusInOrder(c, e) ==
  /\ InOrder(e, Mapped(PayloadBodyOf, bus[Home[c]]), Late(e))
  /\ InOrder(e, Mapped(BodyOf, inbox[e]), {})
  /\ Lined(BusLine(c, e), Len(sent[e]), Late(e))
OwnInOrder(c, e) == Lined(OwnLine(c, e), Len(sent[e]), Late(e))

\* A line after a step that drops bodies, moves one on, or takes in a new one.
LEMMA LineDrops ==
  ASSUME NEW old, NEW new, NEW N, NEW U, NEW V, U \subseteq V, Lined(old, N, U),
         \A j \in Stages : new[j] \subseteq old[j]
  PROVE  Lined(new, N, V) /\ Waiting(new) \subseteq Waiting(old)
<1>1. Lined(new, N, V)
  BY DropOnly DEF Lined
<1>2. Waiting(new) \subseteq Waiting(old)
  BY DEF Waiting
<1> QED
  BY <1>1, <1>2

LEMMA LineMoves ==
  ASSUME NEW old, NEW new, NEW N, NEW U, NEW V, U \subseteq V, NEW k \in 1..5,
         Lined(old, N, U),
         \A j \in Stages : j # k => new[j] \subseteq old[j],
         new[k] \subseteq old[k] \cup old[k + 1], Below(new[k], new[k + 1] \ V)
  PROVE  Lined(new, N, V) /\ Waiting(new) \subseteq Waiting(old)
<1>1. k \in Stages /\ k + 1 \in Stages /\ k # 6
  BY DEF Stages
<1>2. Ordered(new, V)
  BY <1>1, MoveOn DEF Lined
<1>3. Lined(new, N, V)
  BY <1>1, <1>2 DEF Lined
<1>4. \A j \in Stages : new[j] \subseteq old[j] \cup old[k + 1]
  BY <1>1
<1>5. Waiting(new) \subseteq Waiting(old)
  BY <1>1, <1>4 DEF Waiting
<1> QED
  BY <1>3, <1>5

LEMMA LineJoins ==
  ASSUME NEW old, NEW new, NEW N \in Nat, NEW U, Lined(old, N, U),
         \A j \in Stages : j # 6 => new[j] \subseteq old[j],
         new[6] \subseteq old[6] \cup {N + 1}
  PROVE  Lined(new, N + 1, U) /\ Waiting(new) \subseteq Waiting(old) \cup {N + 1}
<1>1. \A j \in Stages : Below(old[j], {N + 1})
  BY DEF Below, Lined
<1>2. Ordered(new, U)
  <2>1. N + 1 \in Nat /\ Ordered(old, U)
    BY DEF Lined
  <2> QED
    BY <1>1, <2>1, JoinLast
<1>3. \A j \in Stages : new[j] \subseteq old[j] \cup {N + 1}
  OBVIOUS
<1>4. Lined(new, N + 1, U)
  BY <1>2, <1>3 DEF Lined
<1>5. Waiting(new) \subseteq Waiting(old) \cup {N + 1}
  BY <1>3 DEF Waiting
<1> QED
  BY <1>4, <1>5

\* Which frames may come late: one more when a PUBLISH gets no answer, and no
\* other step changes that, though one may bring such a frame.
LEMMA LateSame == ASSUME NEW e, unanswered' = unanswered PROVE Late(e)' = Late(e)
BY DEF Late, Unsure

LEMMA LateUnanswered ==
  ASSUME NEW e, NEW x, Unanswered(x)
  PROVE  Late(e)' = Late(e) \cup Number(e, cur[x].body)
<1>1. DOMAIN unanswered' = DOMAIN unanswered \cup {Message(x)}
  BY DEF Unanswered
<1>2. Message(x).payload.body = cur[x].body
  BY DEF Message
<1>3. Unsure' = Unsure \cup {cur[x].body}
  BY <1>1, <1>2 DEF Unsure
<1> QED
  BY <1>3 DEF Late, Number

LEMMA LateServed ==
  ASSUME NEW e, NEW m, ServeLate(m)
  PROVE  Late(e)' = Late(e) /\ Number(e, m.payload.body) \subseteq Late(e)
<1>1. DOMAIN unanswered' = DOMAIN unanswered /\ m \in DOMAIN unanswered
  BY DEF ServeLate
<1>2. Unsure' = Unsure /\ m.payload.body \in Unsure
  BY <1>1 DEF Unsure
<1> QED
  BY <1>2 DEF Late, Number

LEMMA LateGrows ==
  ASSUME [Next]_vars, NEW e PROVE Late(e) \subseteq Late(e)'
<1>1. ASSUME NEW x, Unanswered(x) PROVE Late(e) \subseteq Late(e)'
  BY <1>1, LateUnanswered
<1>2. ASSUME NEW m, ServeLate(m) PROVE Late(e) \subseteq Late(e)'
  BY <1>2, LateServed
<1>3. CASE unanswered' = unanswered
  BY <1>3, LateSame
<1> QED
  BY <1>1, <1>2, <1>3
     DEF Next, Server, Clients, HubNext, ServeWS, Subscriber, Accept, Join, ReadFrame,
         Publish, StartBroadcast, QueueSave, Offer, ReadFails, Leave, Return, WriteLoop,
         SaveLoop, TakeSave, SaveTick, SaveCommits, SaveFails, Subscribe, LoseBus,
         BusReceive, Stop, ClientSend, ClientLeave, vars, hubVars, busVars

\* The client's queue, when its client sends a frame ...
LEMMA SendStep ==
  ASSUME TypeOK, NEW e \in Conns, ClientSend(e),
         InOrder(e, Mapped(BodyOf, inbox[e]), {}),
         Numbers(e, Mapped(BodyOf, inbox[e])) \subseteq 1..Len(sent[e])
  PROVE  /\ InOrder(e, Mapped(BodyOf, inbox'[e]), {})
         /\ Numbers(e, Mapped(BodyOf, inbox'[e]))
              \subseteq Numbers(e, Mapped(BodyOf, inbox[e])) \cup {Len(sent[e]) + 1}
         /\ Len(sent'[e]) = Len(sent[e]) + 1
         /\ Len(sent[e]) \in Nat
         /\ UNCHANGED <<pc, cur, todo, out, wire, bus, unanswered>>
<1> DEFINE N == Len(sent[e])
           p == <<e, N + 1>>
           q == Mapped(BodyOf, inbox[e])
<1>1. /\ inbox \in [Conns -> Seq(Frames)] /\ sent \in [Conns -> Seq(Frames)]
      /\ N \in Nat /\ q \in Seq(Bytes)
  BY QueuedBodies DEF TypeOK, Types
<1>2. PICK y \in ClientTypes :
        LET f == [type |-> y, body |-> p]
        IN  /\ inbox' = [inbox EXCEPT ![e] = Append(@, f)]
            /\ sent' = [sent EXCEPT ![e] = Append(@, f)]
  BY DEF ClientSend
<1> DEFINE f == [type |-> y, body |-> p]
<1>3. N + 1 \in 1..Quota[e] /\ f \in Frames /\ p \in Bytes
  <2>1. N < Quota[e] /\ Quota[e] \in Nat
    BY ClientsAssumption DEF ClientSend
  <2>2. y \in FrameTypes /\ N + 1 \in 1..Quota[e]
    BY <1>1, <2>1, ClientsAssumption
  <2>3. p \in Bodies
    BY <2>2, ClientsAssumption
  <2> QED
    BY <2>2, <2>3 DEF Frames, Bytes
<1>4. /\ inbox'[e] = Append(inbox[e], f) /\ sent'[e] = Append(sent[e], f) /\ f.body = p
      /\ UNCHANGED <<pc, cur, todo, out, wire, bus, unanswered>>
  BY <1>1, <1>2 DEF ClientSend, handlerVars, busVars
<1>5. Number(e, p) = {N + 1} /\ Len(sent'[e]) = N + 1
  BY <1>1, <1>3, <1>4 DEF Number
<1> HIDE DEF f, p
<1>6. Mapped(BodyOf, inbox'[e]) = Append(q, p)
  BY <1>1, <1>3, <1>4, QueuedBodies
<1>7. Below(Numbers(e, q), Number(e, p) \ {})
  BY <1>1, <1>5 DEF Below
<1> HIDE DEF q
<1>8. /\ InOrder(e, Append(q, p), {})
      /\ Numbers(e, Append(q, p)) \subseteq Numbers(e, q) \cup Number(e, p)
  BY <1>1, <1>3, <1>7, AppendInOrder DEF q
<1> QED
  BY <1>1, <1>4, <1>5, <1>6, <1>8 DEF q

\* ... when its handler takes one from it ...
LEMMA ReadStep ==
  ASSUME TypeOK, NEW e \in Conns, ReadFrame(e), InOrder(e, Mapped(BodyOf, inbox[e]), {})
  PROVE  /\ InOrder(e, Mapped(BodyOf, inbox'[e]), {})
         /\ Numbers(e, Mapped(BodyOf, inbox'[e])) \subseteq Numbers(e, Mapped(BodyOf, inbox[e]))
         /\ Number(e, cur'[e].body) \subseteq Numbers(e, Mapped(BodyOf, inbox[e]))
         /\ Below(Number(e, cur'[e].body), Numbers(e, Mapped(BodyOf, inbox'[e])) \ {})
         /\ pc[e] = "reading" /\ pc'[e] = "publishing"
         /\ cur' = [cur EXCEPT ![e] = cur'[e]]
         /\ UNCHANGED <<todo, out, wire, bus, unanswered>>
<1> DEFINE q == Mapped(BodyOf, inbox[e])
<1>1. /\ inbox[e] \in Seq(Frames) /\ inbox[e] # <<>> /\ inbox'[e] = Tail(inbox[e])
      /\ cur'[e] = Head(inbox[e])
      /\ pc[e] = "reading" /\ pc'[e] = "publishing"
      /\ cur' = [cur EXCEPT ![e] = cur'[e]]
      /\ UNCHANGED <<todo, out, wire, bus, unanswered>>
  BY DEF ReadFrame, TypeOK, Types, busVars, Goroutines
<1>2. q \in Seq(Bytes) /\ q # <<>> /\ Mapped(BodyOf, inbox'[e]) = Tail(q) /\ Head(q) = cur'[e].body
  BY <1>1, QueuedBodies
<1> HIDE DEF q
<1>3. /\ InOrder(e, Tail(q), {}) /\ Numbers(e, Tail(q)) \subseteq Numbers(e, q)
      /\ Number(e, Head(q)) \subseteq Numbers(e, q)
      /\ Below(Number(e, Head(q)), Numbers(e, Tail(q)) \ {})
  BY <1>2, TailInOrder DEF q
<1> QED
  BY <1>1, <1>2, <1>3 DEF q

\* ... and when the client goes away.
LEMMA LeaveStep ==
  ASSUME TypeOK, NEW e \in Conns, ClientLeave(e), InOrder(e, Mapped(BodyOf, inbox[e]), {})
  PROVE  /\ InOrder(e, Mapped(BodyOf, inbox'[e]), {})
         /\ Numbers(e, Mapped(BodyOf, inbox'[e])) \subseteq Numbers(e, Mapped(BodyOf, inbox[e]))
         /\ UNCHANGED <<pc, cur, todo, out, wire, bus, unanswered, sent>>
<1>1. inbox \in [Conns -> Seq(Frames)]
  BY DEF TypeOK, Types
<1>2. PICK n \in 0..Len(inbox[e]) : inbox'[e] = SubSeq(inbox[e], 1, n)
  BY <1>1 DEF ClientLeave
<1>3. UNCHANGED <<pc, cur, todo, out, wire, bus, unanswered, sent>>
  BY DEF ClientLeave, handlerVars, busVars
<1> QED
  BY <1>1, <1>2, <1>3, PrefixInOrder

\* What another client's handler has in hand is no frame of e.
LEMMA OthersCarryNone ==
  ASSUME AllMine, NEW e \in Conns, NEW x \in Conns, x # e, cur[x] # NoFrame
  PROVE  Number(e, cur[x].body) = {}
<1>1. cur[x].body \in Owned(x)
  BY DEF AllMine, Mine, OwnFrames
<1>2. PICK n \in 1..Quota[x] : cur[x].body = <<x, n>>
  BY <1>1 DEF Owned
<1> QED
  BY <1>2 DEF Number

\* Empty queues.
LEMMA EmptyQueues ==
  ASSUME NEW e
  PROVE  /\ Numbers(e, <<>>) = {} /\ \A U : InOrder(e, <<>>, U)
         /\ Mapped(BodyOf, <<>>) = <<>> /\ Mapped(PayloadBodyOf, <<>>) = <<>>
BY DEF Numbers, InOrder, Mapped

\* On the way over the bus no frame overtakes another, and none is new that was
\* not sent just now.
LEMMA BusLineStep ==
  ASSUME TypeOK, AllMine, [Next]_vars, NEW c \in Conns, NEW e \in Conns, BusInOrder(c, e)
  PROVE  /\ BusInOrder(c, e)'
         /\ \A n \in Waiting(BusLine(c, e)') : n \in Waiting(BusLine(c, e)) \/ n > Len(sent[e])
<1> DEFINE i == Home[c]
           old == BusLine(c, e)
           new == BusLine(c, e)'
           b == Mapped(PayloadBodyOf, bus[i])
           q == Mapped(BodyOf, inbox[e])
           bb == Mapped(PayloadBodyOf, bus'[i])
           qq == Mapped(BodyOf, inbox'[e])
           N == Len(sent[e])
           U == Late(e)
           V == Late(e)'
           Done == /\ InOrder(e, bb, V) /\ InOrder(e, qq, {}) /\ Lined(new, Len(sent'[e]), V)
                   /\ \A n \in Waiting(new) : n \in Waiting(old) \/ n > N
<1>0. BodyOf' = BodyOf /\ PayloadBodyOf' = PayloadBodyOf
  BY DEF BodyOf, PayloadBodyOf, BusMessages, Frames
<1> SUFFICES Done
  BY <1>0 DEF BusInOrder, InOrder, Mapped, Lined, Ordered, Below, Stages
<1>a. /\ inbox \in [Conns -> Seq(Frames)] /\ sent \in [Conns -> Seq(Frames)]
      /\ cur \in [Goroutines -> Frames \cup {NoFrame}]
      /\ todo \in [Goroutines -> SUBSET Conns]
      /\ bus \in [Instances -> Seq(BusMessages)]
      /\ pc \in [Conns -> Phases]
  BY DEF TypeOK, Types
<1>b. /\ i \in Instances /\ i \in Goroutines /\ i \notin Conns
      /\ \A x \in Conns : x \in Goroutines /\ x \notin Instances /\ x # i
  BY HubAssumption DEF Goroutines
<1>c. InOrder(e, b, U) /\ InOrder(e, q, {}) /\ Lined(old, N, U)
  BY DEF BusInOrder
\* What the stages are.
<1>d. /\ old[1] = {} /\ old[2] = {}
      /\ old[3] = IF c \in todo[i] THEN Number(e, cur[i].body) ELSE {}
      /\ old[4] = Numbers(e, b) \cup U
      /\ old[5] = IF pc[e] = "publishing" THEN Number(e, cur[e].body) ELSE {}
      /\ old[6] = Numbers(e, q)
      /\ new[1] = {} /\ new[2] = {}
      /\ new[3] = IF c \in todo'[i] THEN Number(e, cur'[i].body) ELSE {}
      /\ new[4] = Numbers(e, bb) \cup V
      /\ new[5] = IF pc'[e] = "publishing" THEN Number(e, cur'[e].body) ELSE {}
      /\ new[6] = Numbers(e, qq)
  BY <1>0 DEF BusLine, Number, Numbers, Mapped
<1>e. Stages = {1, 2, 3, 4, 5, 6} /\ N \in Nat
  BY <1>a DEF Stages
<1>f. /\ Numbers(e, <<>>) = {} /\ InOrder(e, <<>>, U) /\ InOrder(e, <<>>, {})
      /\ Mapped(BodyOf, <<>>) = <<>> /\ Mapped(PayloadBodyOf, <<>>) = <<>>
  BY EmptyQueues
<1>h. b \in Seq(Bytes) /\ bus[i] \in Seq(BusMessages)
  BY <1>a, <1>b, BusBodies
<1>s. unanswered' = unanswered => V = U
  BY LateSame
<1> HIDE DEF i, old, new, b, q, bb, qq, N, U, V
<1> USE DEF handlerVars, saveVars, netVars, busVars
\* Steps that concern others, or empty a queue.
<1>2. ASSUME sent'[e] = sent[e], unanswered' = unanswered, inbox'[e] = inbox[e] \/ inbox'[e] = <<>>,
             bus'[i] = bus[i] \/ bus'[i] = <<>>,
             c \in todo'[i] => c \in todo[i] /\ cur'[i] = cur[i],
             pc'[e] = "publishing" => pc[e] = "publishing" /\ cur'[e] = cur[e]
      PROVE  Done
  <2>1. (bb = b \/ bb = <<>>) /\ (qq = q \/ qq = <<>>) /\ V = U
    BY <1>2, <1>f, <1>s DEF b, q, bb, qq
  <2>2. \A j \in Stages : new[j] \subseteq old[j]
    <3>1. new[3] \subseteq old[3] /\ new[5] \subseteq old[5]
      BY <1>2, <1>d
    <3>2. new[4] \subseteq old[4] /\ new[6] \subseteq old[6]
      BY <1>d, <1>f, <2>1
    <3> QED
      BY <1>d, <1>e, <3>1, <3>2
  <2>3. InOrder(e, bb, V) /\ InOrder(e, qq, {})
    BY <1>c, <1>f, <2>1
  <2>4. Lined(new, N, V) /\ Waiting(new) \subseteq Waiting(old)
    BY <1>c, <2>1, <2>2, LineDrops
  <2> QED
    BY <1>2, <2>3, <2>4 DEF N
<1>3. CASE ReadFrame(e) /\ UNCHANGED sent
  <2>1. /\ InOrder(e, qq, {}) /\ Numbers(e, qq) \subseteq Numbers(e, q)
        /\ Number(e, cur'[e].body) \subseteq Numbers(e, q)
        /\ Below(Number(e, cur'[e].body), Numbers(e, qq) \ {})
        /\ pc'[e] = "publishing" /\ bus' = bus /\ todo' = todo /\ unanswered' = unanswered
        /\ cur' = [cur EXCEPT ![e] = cur'[e]]
    BY <1>3, <1>c, ReadStep DEF q, qq
  <2>2. cur'[i] = cur[i] /\ bb = b /\ V = U
    BY <1>a, <1>b, <1>s, <2>1 DEF b, bb
  <2>3. /\ new[3] = old[3] /\ new[4] = old[4] /\ new[5] \subseteq old[6]
        /\ new[6] \subseteq old[6] /\ Below(new[5], new[6] \ V)
    BY <1>d, <2>1, <2>2 DEF Below
  <2>4. Lined(new, N, V) /\ Waiting(new) \subseteq Waiting(old)
    <3>1. \A j \in Stages : j # 5 => new[j] \subseteq old[j]
      BY <1>d, <1>e, <2>3
    <3>2. /\ 5 \in 1..5 /\ 5 + 1 = 6 /\ new[5] \subseteq old[5] \cup old[5 + 1]
          /\ Below(new[5], new[5 + 1] \ V)
      BY <2>3
    <3>3. U \subseteq V
      BY <2>2
    <3> QED
      BY <1>c, <3>1, <3>2, <3>3, LineMoves
  <2> QED
    BY <1>3, <1>c, <2>1, <2>2, <2>4 DEF N
<1>4. ASSUME NEW x \in Conns, Publish(x), UNCHANGED sent PROVE Done
  <2> DEFINE m == Message(x)
             p == cur[x].body
  <2>1. /\ pc[x] = "publishing" /\ pc' = [pc EXCEPT ![x] = "broadcasting"] /\ cur[x] \in Frames
        /\ bus'[i] = Append(bus[i], m) \/ bus'[i] = bus[i]
        /\ UNCHANGED <<cur, todo, inbox, unanswered, sent>>
    BY <1>4, <1>a, <1>b, HandedTo DEF Publish, TypeOK, Equipped
  <2>2. m \in BusMessages /\ m.payload.body = p /\ p \in Bytes
    BY <2>1, HubAssumption DEF Message, BusMessages, Frames, Bytes
  <2> HIDE DEF m, p
  <2>3. (bb = Append(b, p) \/ bb = b) /\ qq = q /\ V = U
    BY <1>h, <1>s, <2>1, <2>2, BusBodies DEF b, q, bb, qq
  <2>4. /\ new[3] = old[3] /\ new[6] = old[6]
        /\ x = e => new[5] = {} /\ old[5] = Number(e, p)
        /\ x # e => Number(e, p) = {} /\ new[5] = old[5]
    <3>1. x # e => Number(e, p) = {}
      BY <2>1, OthersCarryNone, HubAssumption DEF p
    <3>2. new[3] = old[3] /\ new[6] = old[6]
      BY <1>d, <2>1, <2>3
    <3>3. x = e => new[5] = {} /\ old[5] = Number(e, p)
      BY <1>a, <1>d, <2>1 DEF p
    <3>4. x # e => new[5] = old[5]
      BY <1>a, <1>d, <2>1
    <3> QED
      BY <3>1, <3>2, <3>3, <3>4
  <2>5. Below(Numbers(e, b), Number(e, p) \ U)
    <3>1. CASE x = e
      <4>1. Below(old[4], old[5] \ U)
        BY <1>c, <1>e DEF Lined, Ordered
      <4> QED
        BY <1>d, <2>4, <3>1, <4>1 DEF Below
    <3>2. CASE x # e
      BY <2>4, <3>2 DEF Below
    <3> QED
      BY <3>1, <3>2
  <2>6. InOrder(e, bb, U) /\ Numbers(e, bb) \subseteq Numbers(e, b) \cup Number(e, p)
    <3>1. InOrder(e, Append(b, p), U) /\ Numbers(e, Append(b, p)) \subseteq Numbers(e, b) \cup Number(e, p)
      BY <1>c, <1>h, <2>2, <2>5, AppendInOrder
    <3> QED
      BY <1>c, <2>3, <3>1
  <2>7. Lined(new, N, U) /\ Waiting(new) \subseteq Waiting(old)
    <3>1. \A j \in Stages : j # 4 => new[j] \subseteq old[j]
      BY <1>d, <1>e, <2>4
    <3>2. CASE x = e
      <4>1. 4 \in 1..5 /\ 4 + 1 = 5 /\ new[4] \subseteq old[4] \cup old[5] /\ Below(new[4], new[5] \ U)
        BY <1>d, <2>3, <2>4, <2>6, <3>2 DEF Below
      <4> QED
        BY <1>c, <3>1, <4>1, LineMoves
    <3>3. CASE x # e
      <4>1. \A j \in Stages : new[j] \subseteq old[j]
        BY <1>d, <1>e, <2>3, <2>4, <2>6, <3>1, <3>3
      <4> QED
        BY <1>c, <4>1, LineDrops
    <3> QED
      BY <3>2, <3>3
  <2> QED
    BY <1>4, <1>c, <2>3, <2>6, <2>7 DEF N
<1>4a. ASSUME NEW x \in Conns, Unanswered(x), UNCHANGED sent PROVE Done
  <2> DEFINE p == cur[x].body
  <2>1. /\ pc[x] = "publishing" /\ cur[x] \in Frames
        /\ pc' = pc \/ pc' = [pc EXCEPT ![x] = "broadcasting"]
        /\ UNCHANGED <<cur, todo, inbox, bus, sent>>
    BY <1>4a, <1>a, <1>b DEF Unanswered, TypeOK, Equipped
  <2>2. V = U \cup Number(e, p)
    BY <1>4a, LateUnanswered DEF U, V
  <2>3. x # e => Number(e, p) = {}
    BY <2>1, OthersCarryNone, HubAssumption
  <2> HIDE DEF p
  <2>4. bb = b /\ qq = q
    BY <2>1 DEF b, q, bb, qq
  <2>5. /\ new[3] = old[3] /\ new[6] = old[6] /\ new[4] = old[4] \cup Number(e, p)
        /\ new[5] \subseteq old[5]
        /\ x = e => old[5] = Number(e, p)
    <3>1. pc'[e] = "publishing" => pc[e] = "publishing"
      BY <1>a, <2>1
    <3> QED
      BY <1>d, <2>1, <2>2, <2>4, <3>1 DEF p
  <2>6. InOrder(e, bb, V)
    BY <1>c, <2>2, <2>4 DEF InOrder
  <2>7. Lined(new, N, V) /\ Waiting(new) \subseteq Waiting(old)
    <3>0. U \subseteq V
      BY <2>2
    <3>1. \A j \in Stages : j # 4 => new[j] \subseteq old[j]
      BY <1>d, <1>e, <2>5
    <3>2. CASE x = e
      <4>1. /\ 4 \in 1..5 /\ 4 + 1 = 5 /\ new[4] \subseteq old[4] \cup old[4 + 1]
            /\ Below(new[4], new[4 + 1] \ V)
        BY <2>2, <2>5, <3>2 DEF Below
      <4> QED
        BY <1>c, <3>0, <3>1, <4>1, LineMoves
    <3>3. CASE x # e
      <4>1. \A j \in Stages : new[j] \subseteq old[j]
        BY <1>e, <2>3, <2>5, <3>1, <3>3
      <4> QED
        BY <1>c, <3>0, <4>1, LineDrops
    <3> QED
      BY <3>2, <3>3
  <2> QED
    BY <1>4a, <1>c, <2>4, <2>6, <2>7 DEF N
<1>4b. ASSUME NEW m \in BusMessages, ServeLate(m), UNCHANGED sent PROVE Done
  <2> DEFINE p == m.payload.body
  <2>1. /\ bus'[i] = Append(bus[i], m) \/ bus'[i] = bus[i]
        /\ UNCHANGED <<pc, cur, todo, inbox, sent>>
    BY <1>4b, <1>b, HandedTo DEF ServeLate
  <2>2. V = U /\ Number(e, p) \subseteq U
    BY <1>4b, LateServed DEF U, V
  <2>3. p \in Bytes
    BY DEF BusMessages, Frames, Bytes
  <2>4. (bb = Append(b, p) \/ bb = b) /\ qq = q
    BY <1>h, <2>1, BusBodies DEF b, q, bb, qq
  <2> HIDE DEF p
  <2>5. InOrder(e, bb, V) /\ Numbers(e, bb) \subseteq Numbers(e, b) \cup Number(e, p)
    <3>1. Below(Numbers(e, b), Number(e, p) \ U)
      BY <2>2 DEF Below
    <3>2. InOrder(e, Append(b, p), U) /\ Numbers(e, Append(b, p)) \subseteq Numbers(e, b) \cup Number(e, p)
      BY <1>c, <1>h, <2>3, <3>1, AppendInOrder
    <3> QED
      BY <1>c, <2>2, <2>4, <3>2
  <2>6. \A j \in Stages : new[j] \subseteq old[j]
    <3>1. new[3] = old[3] /\ new[5] = old[5] /\ new[6] = old[6] /\ new[4] \subseteq old[4]
      BY <1>d, <2>1, <2>2, <2>4, <2>5
    <3> QED
      BY <1>d, <1>e, <3>1
  <2>7. Lined(new, N, V) /\ Waiting(new) \subseteq Waiting(old)
    BY <1>c, <2>2, <2>6, LineDrops
  <2> QED
    BY <1>4b, <1>c, <2>4, <2>5, <2>7 DEF N
<1>5. ASSUME NEW x \in Conns, x # e, ReadFrame(x), UNCHANGED sent PROVE Done
  BY <1>2, <1>5, <1>a, <1>b DEF ReadFrame
<1>6. ASSUME NEW x \in Conns, Accept(x) \/ Join(x) \/ StartBroadcast(x), UNCHANGED sent PROVE Done
  <2>1. CASE Accept(x) \/ Join(x)
    BY <1>2, <1>6, <1>a, <2>1 DEF Accept, Join
  <2>2. CASE StartBroadcast(x)
    BY <1>2, <1>6, <1>a, <1>b, <2>2 DEF StartBroadcast
  <2> QED
    BY <1>6, <2>1, <2>2
<1>7. ASSUME NEW x \in Conns, QueueSave(x) \/ ReadFails(x) \/ Leave(x) \/ Return(x), UNCHANGED sent
      PROVE  Done
  <2>1. CASE QueueSave(x)
    BY <1>2, <1>7, <1>a, <1>b, <2>1 DEF QueueSave
  <2>2. CASE ReadFails(x) \/ Leave(x)
    BY <1>2, <1>7, <1>a, <2>2 DEF ReadFails, Leave
  <2>3. CASE Return(x)
    BY <1>2, <1>7, <1>a, <2>3 DEF Return
  <2> QED
    BY <1>7, <2>1, <2>2, <2>3
<1>8. ASSUME NEW g \in Goroutines, NEW x \in Conns, Offer(g, x), UNCHANGED sent PROVE Done
  <2>1. /\ todo' = [todo EXCEPT ![g] = @ \ {x}]
        /\ cur' = [cur EXCEPT ![g] = IF g \in Instances /\ todo[g] = {x} THEN NoFrame ELSE @]
        /\ UNCHANGED <<pc, bus, inbox, unanswered, sent>>
    BY <1>8 DEF Offer
  <2>2. cur'[e] = cur[e]
    BY <1>a, <1>b, <2>1
  <2>3. c \in todo'[i] => c \in todo[i] /\ cur'[i] = cur[i]
    BY <1>a, <1>b, <2>1
  <2> QED
    BY <1>2, <2>1, <2>2, <2>3
<1>9. ASSUME NEW x \in Conns, WriteLoop(x) \/ SaveLoop(x), UNCHANGED sent PROVE Done
  BY <1>2, <1>9 DEF WriteLoop, SaveLoop, TakeSave, SaveTick, SaveCommits, SaveFails
<1>11. ASSUME NEW j \in Instances, BusReceive(j), UNCHANGED sent PROVE Done
  <2>1. CASE j # i
    BY <1>2, <1>11, <1>a, <1>b, <2>1 DEF BusReceive
  <2>2. CASE j = i
    <3> DEFINE p == Head(bus[i]).payload.body
    <3>1. /\ bus[i] # <<>> /\ bus'[i] = Tail(bus[i])
          /\ c \in todo'[i] => cur'[i] = Head(bus[i]).payload
          /\ cur'[e] = cur[e] /\ UNCHANGED <<pc, inbox, unanswered, sent>>
      BY <1>11, <1>a, <1>b, <2>2 DEF BusReceive
    <3>2. b # <<>> /\ bb = Tail(b) /\ Head(b) = p /\ qq = q /\ V = U
      BY <1>h, <1>s, <3>1, BusBodies DEF b, q, bb, qq
    <3>3. c \in todo'[i] => cur'[i].body = p
      BY <3>1
    <3> HIDE DEF p
    <3>4. /\ InOrder(e, bb, U) /\ Numbers(e, bb) \subseteq Numbers(e, b)
          /\ Number(e, p) \subseteq Numbers(e, b) /\ Below(Number(e, p), Numbers(e, bb) \ U)
      BY <1>c, <1>h, <3>2, TailInOrder
    <3>5. /\ new[5] = old[5] /\ new[6] = old[6]
          /\ new[3] \subseteq old[4] /\ new[4] \subseteq old[4] /\ Below(new[3], new[4] \ U)
      BY <1>d, <3>1, <3>2, <3>3, <3>4 DEF Below
    <3>6. Lined(new, N, U) /\ Waiting(new) \subseteq Waiting(old)
      <4>1. \A k \in Stages : k # 3 => new[k] \subseteq old[k]
        BY <1>d, <1>e, <3>5
      <4>2. 3 \in 1..5 /\ 3 + 1 = 4 /\ new[3] \subseteq old[3] \cup old[4]
        BY <3>5
      <4> QED
        BY <1>c, <3>5, <4>1, <4>2, LineMoves
    <3> QED
      BY <1>c, <3>1, <3>2, <3>4, <3>6 DEF N
  <2> QED
    BY <2>1, <2>2
<1>12. ASSUME NEW j \in Instances, Subscribe(j) \/ LoseBus(j), UNCHANGED sent PROVE Done
  BY <1>2, <1>12, <1>a, <1>b DEF Subscribe, LoseBus
<1>13. ASSUME NEW j \in Instances, Stop(j), UNCHANGED sent PROVE Done
  <2> DEFINE here == {d \in Conns : Home[d] = j /\ pc[d] # "new"}
  <2>1. /\ pc' = [x \in Conns |-> IF x \in here THEN "closed" ELSE pc[x]]
        /\ todo' = [g \in Goroutines |-> IF g \in here \cup {j} THEN {} ELSE todo[g]]
        /\ cur' = [g \in Goroutines |-> IF g \in here \cup {j} THEN NoFrame ELSE cur[g]]
        /\ inbox' = [x \in Conns |-> IF x \in here THEN <<>> ELSE inbox[x]]
        /\ bus' = [bus EXCEPT ![j] = <<>>]
        /\ sent' = sent /\ unanswered' = unanswered
    BY <1>13 DEF Stop
  <2>0. here \subseteq Conns
    OBVIOUS
  <2> HIDE DEF here
  <2>2. \/ pc'[e] = "closed"
        \/ pc'[e] = pc[e] /\ cur'[e] = cur[e]
    BY <1>13, <1>b, <2>1
  <2>3. c \in todo'[i] => c \in todo[i] /\ cur'[i] = cur[i]
    BY <1>b, <2>1
  <2>4. /\ inbox'[e] = inbox[e] \/ inbox'[e] = <<>>
        /\ bus'[i] = bus[i] \/ bus'[i] = <<>>
    BY <1>a, <1>b, <2>1
  <2> QED
    BY <1>2, <2>1, <2>2, <2>3, <2>4
<1>14. CASE ClientSend(e)
  <2>0. Numbers(e, q) \subseteq 1..N
    BY <1>c, <1>d, <1>e DEF Lined
  <2>1. /\ InOrder(e, qq, {}) /\ Numbers(e, qq) \subseteq Numbers(e, q) \cup {N + 1}
        /\ Len(sent'[e]) = N + 1 /\ UNCHANGED <<pc, cur, todo, bus, unanswered>>
    BY <1>14, <1>c, <2>0, SendStep DEF q, qq, N
  <2>2. /\ bb = b /\ V = U /\ new[6] \subseteq old[6] \cup {N + 1}
        /\ \A j \in Stages : j # 6 => new[j] \subseteq old[j]
    <3>1. bb = b /\ V = U
      BY <1>s, <2>1 DEF b, bb
    <3> QED
      BY <1>d, <1>e, <2>1, <3>1
  <2>3. Lined(new, N + 1, V) /\ Waiting(new) \subseteq Waiting(old) \cup {N + 1}
    BY <1>c, <1>e, <2>2, LineJoins
  <2> QED
    BY <1>c, <1>e, <2>1, <2>2, <2>3
<1>15. CASE ClientLeave(e)
  <2>1. /\ InOrder(e, qq, {}) /\ Numbers(e, qq) \subseteq Numbers(e, q)
        /\ UNCHANGED <<pc, cur, todo, bus, unanswered, sent>>
    BY <1>15, <1>c, LeaveStep DEF q, qq
  <2>2. bb = b /\ V = U /\ \A j \in Stages : new[j] \subseteq old[j]
    <3>1. bb = b /\ V = U
      BY <1>s, <2>1 DEF b, bb
    <3> QED
      BY <1>d, <1>e, <2>1, <3>1
  <2>3. Lined(new, N, V) /\ Waiting(new) \subseteq Waiting(old)
    BY <1>c, <2>2, LineDrops
  <2> QED
    BY <1>c, <2>1, <2>2, <2>3 DEF N
<1>16. ASSUME NEW x \in Conns, x # e, ClientSend(x) \/ ClientLeave(x) PROVE Done
  BY <1>2, <1>16, <1>a DEF ClientSend, ClientLeave
<1>17. CASE UNCHANGED vars
  BY <1>2, <1>17 DEF vars, hubVars
<1> QED
  <2>1. ASSUME NEW m \in DOMAIN unanswered, ServeLate(m), UNCHANGED sent PROVE Done
    BY <1>4b, <2>1 DEF TypeOK, LateTypes
  <2> QED
    BY <1>3, <1>4, <1>4a, <1>5, <1>6, <1>7, <1>8, <1>9, <1>11, <1>12, <1>13, <1>14, <1>15, <1>16,
       <1>17, <2>1
       DEF Next, Server, Clients, HubNext, ServeWS, Subscriber, Goroutines

\* Nor on the way through e's own handler.
LEMMA OwnLineStep ==
  ASSUME TypeOK, LoopsServeMembers, AllMine, [Next]_vars, NEW c \in Conns, NEW e \in Conns,
         InOrder(e, Mapped(BodyOf, inbox[e]), {}), OwnInOrder(c, e)
  PROVE  /\ OwnInOrder(c, e)'
         /\ \A n \in Waiting(OwnLine(c, e)') : n \in Waiting(OwnLine(c, e)) \/ n > Len(sent[e])
<1> DEFINE old == OwnLine(c, e)
           new == OwnLine(c, e)'
           q == Mapped(BodyOf, inbox[e])
           qq == Mapped(BodyOf, inbox'[e])
           N == Len(sent[e])
           U == Late(e)
           V == Late(e)'
           Done == /\ Lined(new, Len(sent'[e]), V)
                   /\ \A n \in Waiting(new) : n \in Waiting(old) \/ n > N
<1>0. BodyOf' = BodyOf
  BY DEF BodyOf
<1> SUFFICES Done
  BY DEF OwnInOrder, Lined, Ordered, Below, Stages
<1>a. /\ inbox \in [Conns -> Seq(Frames)] /\ sent \in [Conns -> Seq(Frames)]
      /\ cur \in [Goroutines -> Frames \cup {NoFrame}]
      /\ todo \in [Goroutines -> SUBSET Conns]
      /\ pc \in [Conns -> Phases]
  BY DEF TypeOK, Types
<1>b. \A x \in Conns : x \in Goroutines /\ x \notin Instances
  BY HubAssumption DEF Goroutines
<1>c. InOrder(e, q, {}) /\ Lined(old, N, U) /\ (c \in todo[e] => pc[e] = "offering")
  BY <1>b DEF OwnInOrder, LoopsServeMembers
\* What the stages are.
<1>d. /\ old[1] = {} /\ old[2] = {} /\ old[3] = {}
      /\ old[4] = IF c \in todo[e] THEN Number(e, cur[e].body) ELSE {}
      /\ old[5] = IF pc[e] \in {"publishing", "broadcasting"} THEN Number(e, cur[e].body) ELSE {}
      /\ old[6] = Numbers(e, q)
      /\ new[1] = {} /\ new[2] = {} /\ new[3] = {}
      /\ new[4] = IF c \in todo'[e] THEN Number(e, cur'[e].body) ELSE {}
      /\ new[5] = IF pc'[e] \in {"publishing", "broadcasting"} THEN Number(e, cur'[e].body) ELSE {}
      /\ new[6] = Numbers(e, qq)
  BY <1>0 DEF OwnLine, Number, Numbers, Mapped
<1>e. Stages = {1, 2, 3, 4, 5, 6} /\ N \in Nat
  BY <1>a DEF Stages
<1>f. U \subseteq V /\ (unanswered' = unanswered => V = U)
  BY LateGrows, LateSame
<1> HIDE DEF old, new, q, qq, N, U, V
<1> USE DEF handlerVars, saveVars, netVars, busVars
\* Steps that concern others, or empty the queue.
<1>2. ASSUME sent'[e] = sent[e], inbox'[e] = inbox[e] \/ inbox'[e] = <<>>,
             c \in todo'[e] => c \in todo[e] /\ cur'[e] = cur[e],
             pc'[e] \in {"publishing", "broadcasting"}
               => pc[e] \in {"publishing", "broadcasting"} /\ cur'[e] = cur[e]
      PROVE  Done
  <2>1. qq = q \/ qq = <<>>
    BY <1>2, EmptyQueues DEF q, qq
  <2>2. \A j \in Stages : new[j] \subseteq old[j]
    <3>1. new[4] \subseteq old[4] /\ new[5] \subseteq old[5]
      BY <1>2, <1>d
    <3>2. new[6] \subseteq old[6]
      BY <1>d, <2>1, EmptyQueues
    <3> QED
      BY <1>d, <1>e, <3>1, <3>2
  <2>3. Lined(new, N, V) /\ Waiting(new) \subseteq Waiting(old)
    BY <1>c, <1>f, <2>2, LineDrops
  <2> QED
    BY <1>2, <2>3 DEF N
<1>3. CASE ReadFrame(e) /\ UNCHANGED sent
  <2>1. /\ Numbers(e, qq) \subseteq Numbers(e, q)
        /\ Number(e, cur'[e].body) \subseteq Numbers(e, q)
        /\ Below(Number(e, cur'[e].body), Numbers(e, qq) \ {})
        /\ pc[e] = "reading" /\ pc'[e] = "publishing" /\ todo' = todo
    BY <1>3, <1>c, ReadStep DEF q, qq
  <2>2. /\ new[4] = {} /\ new[5] \subseteq old[6] /\ new[6] \subseteq old[6]
        /\ Below(new[5], new[6] \ V)
    BY <1>c, <1>d, <2>1 DEF Below
  <2>3. Lined(new, N, V) /\ Waiting(new) \subseteq Waiting(old)
    <3>1. \A j \in Stages : j # 5 => new[j] \subseteq old[j]
      BY <1>d, <1>e, <2>2
    <3>2. /\ 5 \in 1..5 /\ 5 + 1 = 6 /\ new[5] \subseteq old[5] \cup old[5 + 1]
          /\ Below(new[5], new[5 + 1] \ V)
      BY <2>2
    <3>3. U \subseteq V /\ Lined(old, N, U)
      BY <1>c, <1>f
    <3> QED
      BY <3>1, <3>2, <3>3, LineMoves
  <2> QED
    BY <1>3, <2>3 DEF N
<1>4. CASE StartBroadcast(e) /\ UNCHANGED sent
  <2>1. /\ pc[e] = "broadcasting" /\ pc'[e] = "offering" /\ qq = q
        /\ UNCHANGED <<cur, sent>>
    BY <1>4, <1>a DEF StartBroadcast, q, qq
  <2>2. new[4] \subseteq old[5] /\ new[5] = {} /\ new[6] = old[6]
    BY <1>d, <2>1
  <2>3. Lined(new, N, V) /\ Waiting(new) \subseteq Waiting(old)
    <3>1. \A j \in Stages : j # 4 => new[j] \subseteq old[j]
      BY <1>d, <1>e, <2>2
    <3>2. /\ 4 \in 1..5 /\ 4 + 1 = 5 /\ new[4] \subseteq old[4] \cup old[4 + 1]
          /\ Below(new[4], new[4 + 1] \ V)
      BY <2>2 DEF Below
    <3>3. U \subseteq V /\ Lined(old, N, U)
      BY <1>c, <1>f
    <3> QED
      BY <3>1, <3>2, <3>3, LineMoves
  <2> QED
    BY <2>1, <2>3 DEF N
<1>5. ASSUME NEW x \in Conns, x # e, ReadFrame(x) \/ StartBroadcast(x), UNCHANGED sent PROVE Done
  BY <1>2, <1>5, <1>a, <1>b DEF ReadFrame, StartBroadcast
<1>6. ASSUME NEW x \in Conns, Accept(x) \/ Join(x) \/ Publish(x) \/ Unanswered(x), UNCHANGED sent PROVE Done
  <2>1. CASE Accept(x) \/ Join(x)
    BY <1>2, <1>6, <1>a, <2>1 DEF Accept, Join
  <2>2. CASE Publish(x) \/ Unanswered(x)
    <3>1. /\ pc[x] = "publishing"
          /\ pc' = pc \/ pc' = [pc EXCEPT ![x] = "broadcasting"]
          /\ UNCHANGED <<cur, todo, inbox>>
      BY <2>2 DEF Publish, Unanswered
    <3>2. pc'[e] \in {"publishing", "broadcasting"} => pc[e] \in {"publishing", "broadcasting"}
      BY <1>a, <3>1
    <3> QED
      BY <1>2, <1>6, <3>1, <3>2
  <2> QED
    BY <1>6, <2>1, <2>2
<1>7. ASSUME NEW x \in Conns, QueueSave(x) \/ ReadFails(x) \/ Leave(x) \/ Return(x), UNCHANGED sent
      PROVE  Done
  <2>1. CASE QueueSave(x)
    <3>1. /\ todo[x] = {} /\ pc' = [pc EXCEPT ![x] = "reading"]
          /\ cur' = [cur EXCEPT ![x] = NoFrame] /\ UNCHANGED <<todo, inbox, sent>>
      BY <1>7, <2>1 DEF QueueSave
    <3> QED
      BY <1>2, <1>a, <1>b, <3>1
  <2>2. CASE ReadFails(x) \/ Leave(x)
    BY <1>2, <1>7, <1>a, <2>2 DEF ReadFails, Leave
  <2>3. CASE Return(x)
    BY <1>2, <1>7, <1>a, <2>3 DEF Return
  <2> QED
    BY <1>7, <2>1, <2>2, <2>3
<1>8. ASSUME NEW g \in Goroutines, NEW x \in Conns, Offer(g, x), UNCHANGED sent PROVE Done
  <2>1. /\ todo' = [todo EXCEPT ![g] = @ \ {x}]
        /\ cur' = [cur EXCEPT ![g] = IF g \in Instances /\ todo[g] = {x} THEN NoFrame ELSE @]
        /\ UNCHANGED <<pc, inbox, sent>>
    BY <1>8 DEF Offer
  <2>2. cur'[e] = cur[e] /\ (c \in todo'[e] => c \in todo[e])
    BY <1>a, <1>b, <2>1
  <2> QED
    BY <1>2, <2>1, <2>2
<1>9. ASSUME NEW x \in Conns, WriteLoop(x) \/ SaveLoop(x), UNCHANGED sent PROVE Done
  BY <1>2, <1>9 DEF WriteLoop, SaveLoop, TakeSave, SaveTick, SaveCommits, SaveFails
<1>11. ASSUME NEW j \in Instances, BusReceive(j) \/ Subscribe(j) \/ LoseBus(j), UNCHANGED sent
       PROVE  Done
  <2>1. CASE BusReceive(j)
    <3>1. /\ cur'[e] = cur[e] /\ todo'[e] = todo[e] /\ UNCHANGED <<pc, inbox, sent>>
      BY <1>11, <1>a, <1>b, <2>1 DEF BusReceive
    <3> QED
      BY <1>2, <3>1
  <2>2. CASE Subscribe(j) \/ LoseBus(j)
    BY <1>2, <1>11, <2>2 DEF Subscribe, LoseBus
  <2> QED
    BY <1>11, <2>1, <2>2
<1>13. ASSUME NEW j \in Instances, Stop(j), UNCHANGED sent PROVE Done
  <2> DEFINE here == {d \in Conns : Home[d] = j /\ pc[d] # "new"}
  <2>1. /\ pc' = [x \in Conns |-> IF x \in here THEN "closed" ELSE pc[x]]
        /\ todo' = [g \in Goroutines |-> IF g \in here \cup {j} THEN {} ELSE todo[g]]
        /\ cur' = [g \in Goroutines |-> IF g \in here \cup {j} THEN NoFrame ELSE cur[g]]
        /\ inbox' = [x \in Conns |-> IF x \in here THEN <<>> ELSE inbox[x]]
        /\ sent' = sent
    BY <1>13 DEF Stop
  <2> HIDE DEF here
  <2>2. CASE e \in here
    <3>1. pc'[e] = "closed" /\ todo'[e] = {} /\ inbox'[e] = <<>>
      BY <1>b, <2>1, <2>2
    <3> QED
      BY <1>2, <2>1, <3>1
  <2>3. CASE e \notin here
    <3>1. pc'[e] = pc[e] /\ todo'[e] = todo[e] /\ cur'[e] = cur[e] /\ inbox'[e] = inbox[e]
      BY <1>b, <1>13, <2>1, <2>3
    <3> QED
      BY <1>2, <2>1, <3>1
  <2> QED
    BY <2>2, <2>3
<1>14. CASE ClientSend(e)
  <2>0. Numbers(e, q) \subseteq 1..N
    BY <1>c, <1>d, <1>e DEF Lined
  <2>1. /\ Numbers(e, qq) \subseteq Numbers(e, q) \cup {N + 1}
        /\ Len(sent'[e]) = N + 1 /\ UNCHANGED <<pc, cur, todo, unanswered>>
    BY <1>14, <1>c, <2>0, SendStep DEF q, qq, N
  <2>2. /\ new[6] \subseteq old[6] \cup {N + 1}
        /\ \A j \in Stages : j # 6 => new[j] \subseteq old[j]
    BY <1>d, <1>e, <2>1
  <2>3. Lined(new, N + 1, V) /\ Waiting(new) \subseteq Waiting(old) \cup {N + 1}
    BY <1>c, <1>e, <1>f, <2>1, <2>2, LineJoins
  <2> QED
    BY <1>e, <2>1, <2>3
<1>15. CASE ClientLeave(e)
  <2>1. Numbers(e, qq) \subseteq Numbers(e, q) /\ UNCHANGED <<pc, cur, todo, sent>>
    BY <1>15, <1>c, LeaveStep DEF q, qq
  <2>2. \A j \in Stages : new[j] \subseteq old[j]
    BY <1>d, <1>e, <2>1
  <2>3. Lined(new, N, V) /\ Waiting(new) \subseteq Waiting(old)
    BY <1>c, <1>f, <2>2, LineDrops
  <2> QED
    BY <2>1, <2>3 DEF N
<1>16. ASSUME NEW x \in Conns, x # e, ClientSend(x) \/ ClientLeave(x) PROVE Done
  BY <1>2, <1>16, <1>a DEF ClientSend, ClientLeave
<1>16a. ASSUME NEW m, ServeLate(m), UNCHANGED sent PROVE Done
  BY <1>2, <1>16a DEF ServeLate
<1>17. CASE UNCHANGED vars
  BY <1>2, <1>17 DEF vars, hubVars
<1> QED
  BY <1>3, <1>4, <1>5, <1>6, <1>7, <1>8, <1>9, <1>11, <1>13, <1>14, <1>15, <1>16, <1>16a,
     <1>17
     DEF Next, Server, Clients, HubNext, ServeWS, Subscriber, Goroutines

\* What a loop offers to c was the first in its line.
LEMMA FirstInLine ==
  ASSUME TypeOK, LoopsServeMembers, AllMine, NEW c \in Conns, NEW e \in Conns,
         BusInOrder(c, e), OwnInOrder(c, e), NEW g \in Goroutines, Offer(g, c)
  PROVE  \/ Number(e, cur[g].body) = {}
         \/ /\ g = Home[c]
            /\ Number(e, cur[g].body) \subseteq Waiting(BusLine(c, e))
            /\ Below(Number(e, cur[g].body), Waiting(BusLine(c, e)') \ Late(e))
            /\ Waiting(OwnLine(c, e)') \subseteq Waiting(OwnLine(c, e))
         \/ /\ g = e /\ Home[c] = Home[e]
            /\ Number(e, cur[g].body) \subseteq Waiting(OwnLine(c, e))
            /\ Below(Number(e, cur[g].body), Waiting(OwnLine(c, e)') \ Late(e))
            /\ Waiting(BusLine(c, e)') \subseteq Waiting(BusLine(c, e))
<1> DEFINE i == Home[c]
           p == cur[g].body
           bo == BusLine(c, e)
           bn == BusLine(c, e)'
           oo == OwnLine(c, e)
           on == OwnLine(c, e)'
           U == Late(e)
<1>a. /\ cur \in [Goroutines -> Frames \cup {NoFrame}]
      /\ todo \in [Goroutines -> SUBSET Conns]
  BY DEF TypeOK, Types
<1>b. /\ i \in Instances /\ i \in Goroutines /\ i \notin Conns
      /\ \A x \in Conns : x \in Goroutines /\ x \notin Instances /\ x # i
  BY HubAssumption DEF Goroutines
<1>1. /\ c \in todo[g] /\ cur[g] # NoFrame
      /\ todo' = [todo EXCEPT ![g] = @ \ {c}]
      /\ cur' = [cur EXCEPT ![g] = IF g \in Instances /\ todo[g] = {c} THEN NoFrame ELSE @]
      /\ UNCHANGED <<pc, bus, unanswered, inbox>>
  BY DEF Offer, TypeOK, Equipped, netVars, busVars
<1>2. Home[c] = HomeOf(g)
  BY <1>1 DEF LoopsServeMembers
<1>3. BodyOf' = BodyOf /\ PayloadBodyOf' = PayloadBodyOf
  BY DEF BodyOf, PayloadBodyOf, BusMessages, Frames
<1>4. /\ bn[1] = {} /\ bn[2] = {} /\ bo[1] = {} /\ bo[2] = {}
      /\ bo[3] = IF c \in todo[i] THEN Number(e, cur[i].body) ELSE {}
      /\ bn[3] = IF c \in todo'[i] THEN Number(e, cur'[i].body) ELSE {}
      /\ bn[4] = bo[4] /\ bn[5] = bo[5] /\ bn[6] = bo[6]
  <2>1. cur'[e] = cur[e]
    BY <1>a, <1>b, <1>1
  <2>2. /\ bn[1] = {} /\ bn[2] = {}
        /\ bn[3] = IF c \in todo'[i] THEN Number(e, cur'[i].body) ELSE {}
        /\ bn[4] = Numbers(e, Mapped(PayloadBodyOf, bus'[i])) \cup Late(e)'
        /\ bn[5] = IF pc'[e] = "publishing" THEN Number(e, cur'[e].body) ELSE {}
        /\ bn[6] = Numbers(e, Mapped(BodyOf, inbox'[e]))
    BY <1>3 DEF BusLine, Number, Numbers, Mapped
  <2> QED
    BY <1>1, <2>1, <2>2, LateSame DEF BusLine
<1>5. /\ on[1] = {} /\ on[2] = {} /\ on[3] = {} /\ oo[1] = {} /\ oo[2] = {} /\ oo[3] = {}
      /\ oo[4] = IF c \in todo[e] THEN Number(e, cur[e].body) ELSE {}
      /\ on[4] = IF c \in todo'[e] THEN Number(e, cur[e].body) ELSE {}
      /\ on[5] = oo[5] /\ on[6] = oo[6]
  <2>1. cur'[e] = cur[e]
    BY <1>a, <1>b, <1>1
  <2>2. /\ on[1] = {} /\ on[2] = {} /\ on[3] = {}
        /\ on[4] = IF c \in todo'[e] THEN Number(e, cur'[e].body) ELSE {}
        /\ on[5] = IF pc'[e] \in {"publishing", "broadcasting"} THEN Number(e, cur'[e].body) ELSE {}
        /\ on[6] = Numbers(e, Mapped(BodyOf, inbox'[e]))
    BY <1>3 DEF OwnLine, Number, Numbers, Mapped
  <2> QED
    BY <1>1, <2>1, <2>2 DEF OwnLine
<1>6. Stages = {1, 2, 3, 4, 5, 6}
  BY DEF Stages
<1>7. Ordered(bo, U) /\ Ordered(oo, U)
  BY DEF BusInOrder, OwnInOrder, Lined
<1> HIDE DEF i, p, bo, bn, oo, on, U
<1>8. CASE g = i
  <2>1. bo[3] = Number(e, p) /\ bn[3] = {}
    BY <1>a, <1>b, <1>1, <1>4, <1>8 DEF p
  <2>2. \A j \in Stages : bn[j] # {} => bn[j] = bo[j] /\ 3 < j
    BY <1>4, <1>6, <2>1
  <2>3. Below(Number(e, p), Waiting(bn) \ U)
    BY <1>6, <1>7, <2>1, <2>2 DEF Ordered, Below, Waiting
  <2>4. Number(e, p) \subseteq Waiting(bo)
    BY <1>6, <2>1 DEF Waiting
  <2>5. \A j \in Stages : on[j] \subseteq oo[j]
    BY <1>a, <1>b, <1>1, <1>5, <1>6
  <2>6. Waiting(on) \subseteq Waiting(oo)
    BY <2>5 DEF Waiting
  <2> QED
    BY <1>8, <2>3, <2>4, <2>6 DEF i, p, bo, bn, oo, on, U
<1>9. CASE g = e
  <2>0. Home[c] = Home[e]
    BY <1>2, <1>9 DEF HomeOf
  <2>1. oo[4] = Number(e, p) /\ on[4] = {}
    BY <1>a, <1>b, <1>1, <1>5, <1>9 DEF p
  <2>2. \A j \in Stages : on[j] # {} => on[j] = oo[j] /\ 4 < j
    BY <1>5, <1>6, <2>1
  <2>3. Below(Number(e, p), Waiting(on) \ U)
    BY <1>6, <1>7, <2>1, <2>2 DEF Ordered, Below, Waiting
  <2>4. Number(e, p) \subseteq Waiting(oo)
    BY <1>6, <2>1 DEF Waiting
  <2>5. \A j \in Stages : bn[j] \subseteq bo[j]
    BY <1>a, <1>b, <1>1, <1>4, <1>6, <1>9
  <2>6. Waiting(bn) \subseteq Waiting(bo)
    BY <2>5 DEF Waiting
  <2> QED
    BY <1>9, <2>0, <2>3, <2>4, <2>6 DEF i, p, bo, bn, oo, on, U
<1>10. CASE g # i /\ g # e
  <2>1. g \in Conns
    BY <1>2, <1>10 DEF HomeOf, Goroutines, i
  <2> QED
    BY <1>1, <1>10, <2>1, OthersCarryNone
<1> QED
  BY <1>8, <1>9, <1>10

\* What has been written to c and what waits in its buffer.
Delivery(c) == Mapped(BodyOf, wire[c] \o out[c])

\* t is s without some of its elements.
Thinned(s, t) ==
  \E f \in [1..Len(t) -> 1..Len(s)] :
    /\ \A k \in 1..Len(t) : t[k] = s[f[k]]
    /\ \A j, k \in 1..Len(t) : j < k => f[j] < f[k]

\* What is appended to the second of two sequences, or moves from it to the first.
LEMMA JoinedSeqs ==
  ASSUME NEW S, NEW s \in Seq(S), NEW t \in Seq(S)
  PROVE  /\ \A x \in S : s \o Append(t, x) = Append(s \o t, x)
         /\ t # <<>> => Append(s, Head(t)) \o Tail(t) = s \o t
<1>1. ASSUME NEW x \in S PROVE s \o Append(t, x) = Append(s \o t, x)
  <2>1. <<x>> \in Seq(S) /\ s \o t \in Seq(S)
    BY ConcatProperties
  <2>2. Append(t, x) = t \o <<x>> /\ Append(s \o t, x) = (s \o t) \o <<x>>
    BY <2>1, AppendIsConcat
  <2>3. (s \o t) \o <<x>> = s \o (t \o <<x>>)
    BY <2>1, ConcatAssociative
  <2> QED
    BY <2>2, <2>3
<1>2. ASSUME t # <<>> PROVE Append(s, Head(t)) \o Tail(t) = s \o t
  <2> DEFINE h == Head(t)
             u == Tail(t)
             v == <<h>> \o u
  <2>1. /\ h \in S /\ u \in Seq(S) /\ Len(u) = Len(t) - 1 /\ h = t[1] /\ Len(t) \in Nat \ {0}
        /\ \A i \in 1..Len(u) : u[i] = t[i + 1]
    BY <1>2, HeadTailProperties, EmptySeq
  <2>2. <<h>> \in Seq(S) /\ Len(<<h>>) = 1 /\ <<h>>[1] = h
    BY <2>1
  <2> HIDE DEF h, u
  <2>3. /\ v \in Seq(S) /\ Len(v) = 1 + Len(u)
        /\ \A i \in 1..(1 + Len(u)) : v[i] = IF i <= 1 THEN <<h>>[i] ELSE u[i - 1]
    BY <2>1, <2>2, ConcatProperties
  <2> HIDE DEF v
  <2>4. Len(v) = Len(t) /\ \A i \in 1..Len(t) : v[i] = t[i]
    <3>1. Len(v) = Len(t)
      BY <2>1, <2>3
    <3>2. ASSUME NEW i \in 1..Len(t) PROVE v[i] = t[i]
      <4>1. CASE i = 1
        BY <2>1, <2>2, <2>3, <4>1
      <4>2. CASE i # 1
        <5>1. i - 1 \in 1..Len(u) /\ i \in 1..(1 + Len(u)) /\ ~(i <= 1) /\ (i - 1) + 1 = i
          BY <2>1, <4>2
        <5> QED
          BY <2>1, <2>3, <5>1
      <4> QED
        BY <4>1, <4>2
    <3> QED
      BY <3>1, <3>2
  <2>5. v = t
    BY <2>3, <2>4
  <2>6. Append(s, h) = s \o <<h>> /\ (s \o <<h>>) \o u = s \o v
    BY <2>1, <2>2, AppendIsConcat, ConcatAssociative DEF v
  <2> QED
    BY <2>5, <2>6 DEF h, u
<1> QED
  BY <1>1, <1>2

\* A delivery loses frames, or a loop offers it one.
LEMMA DeliveryStep ==
  ASSUME TypeOK, [Next]_vars, NEW c \in Conns
  PROVE  \/ Thinned(Delivery(c), Delivery(c)')
         \/ \E g \in Goroutines : /\ Offer(g, c) /\ sent' = sent /\ cur[g].body \in Bytes
                                  /\ Delivery(c)' = Append(Delivery(c), cur[g].body)
<1> DEFINE s == Delivery(c)
           t == Delivery(c)'
           w == wire[c]
           o == out[c]
<1>a. /\ cur \in [Goroutines -> Frames \cup {NoFrame}]
      /\ out \in [Conns -> Seq(Frames)] /\ wire \in [Conns -> Seq(Frames)]
      /\ w \in Seq(Frames) /\ o \in Seq(Frames) /\ Len(w) \in Nat /\ Len(o) \in Nat
      /\ w \o o \in Seq(Frames) /\ Len(w \o o) = Len(w) + Len(o)
      /\ \A k \in 1..(Len(w) + Len(o)) :
           (w \o o)[k] = IF k <= Len(w) THEN w[k] ELSE o[k - Len(w)]
  BY DEF TypeOK, Types
<1>b. t = Mapped(BodyOf, wire'[c] \o out'[c])
  BY DEF Delivery, BodyOf, Mapped
<1>c. /\ s \in Seq(Bytes) /\ Len(s) = Len(w) + Len(o)
      /\ \A k \in 1..Len(s) : s[k] = BodyOf[(w \o o)[k]]
  <2>1. s \in Seq(Bytes)
    BY <1>a, QueuedBodies DEF Delivery
  <2> QED
    BY <1>a, <2>1 DEF Delivery, Mapped
<1>1. ASSUME wire'[c] = w, out'[c] = o PROVE Thinned(s, t)
  <2>1. t = s
    BY <1>b, <1>1 DEF Delivery
  <2> DEFINE f == [k \in 1..Len(t) |-> k]
  <2>2. /\ f \in [1..Len(t) -> 1..Len(s)] /\ \A k \in 1..Len(t) : t[k] = s[f[k]]
        /\ \A j, k \in 1..Len(t) : j < k => f[j] < f[k]
    BY <2>1
  <2> QED
    BY <2>2 DEF Thinned
<1>2. ASSUME wire'[c] = w, out'[c] = <<>> PROVE Thinned(s, t)
  <2>1. Len(t) = Len(w) /\ \A k \in 1..Len(t) : t[k] = BodyOf[w[k]]
    BY <1>a, <1>b, <1>2 DEF Mapped
  <2> DEFINE f == [k \in 1..Len(t) |-> k]
  <2>2. \A k \in 1..Len(t) : k \in 1..Len(s) /\ t[k] = s[k]
    BY <1>a, <1>c, <2>1
  <2> HIDE DEF s, t
  <2>3. /\ f \in [1..Len(t) -> 1..Len(s)] /\ \A k \in 1..Len(t) : t[k] = s[f[k]]
        /\ \A j, k \in 1..Len(t) : j < k => f[j] < f[k]
    BY <2>2
  <2> QED
    BY <2>3 DEF Thinned, s, t
<1>3. ASSUME o # <<>>, out'[c] = Tail(o), wire'[c] = Append(w, Head(o)) PROVE Thinned(s, t)
  <2>2. Append(w, Head(o)) \o Tail(o) = w \o o
    BY <1>a, <1>3, JoinedSeqs
  <2>3. t = s
    BY <1>b, <1>3, <2>2 DEF Delivery
  <2> DEFINE f == [k \in 1..Len(t) |-> k]
  <2>4. /\ f \in [1..Len(t) -> 1..Len(s)] /\ \A k \in 1..Len(t) : t[k] = s[f[k]]
        /\ \A j, k \in 1..Len(t) : j < k => f[j] < f[k]
    BY <2>3
  <2> QED
    BY <2>4 DEF Thinned
<1>4. ASSUME o # <<>>, out'[c] = Tail(o), wire'[c] = w PROVE Thinned(s, t)
  <2>1. Len(o) > 0 /\ Len(Tail(o)) = Len(o) - 1 /\ Tail(o) \in Seq(Frames)
        /\ \A k \in 1..(Len(o) - 1) : Tail(o)[k] = o[k + 1]
    BY <1>a, <1>4
  <2>2. /\ Len(w \o Tail(o)) = Len(w) + Len(o) - 1
        /\ \A k \in 1..(Len(w) + Len(o) - 1) :
             (w \o Tail(o))[k] = IF k <= Len(w) THEN w[k] ELSE o[k - Len(w) + 1]
    BY <1>a, <2>1
  <2>3. /\ Len(t) = Len(w) + Len(o) - 1
        /\ \A k \in 1..Len(t) : t[k] = BodyOf[(w \o Tail(o))[k]]
    BY <1>a, <1>b, <1>4, <2>1, <2>2 DEF Mapped
  <2> DEFINE h(k) == IF k <= Len(w) THEN k ELSE k + 1
             f == [k \in 1..Len(t) |-> h(k)]
  <2>4. ASSUME NEW k \in 1..Len(t) PROVE h(k) \in 1..Len(s) /\ t[k] = s[h(k)]
    <3>0. Len(w) \in Nat /\ Len(o) \in Nat /\ Len(o) > 0
      BY <1>a, <2>1
    <3>1. h(k) \in 1..(Len(w) + Len(o)) /\ k \in 1..(Len(w) + Len(o) - 1)
      <4>1. k \in 1..(Len(w) + Len(o) - 1)
        BY <2>3
      <4> HIDE DEF w, o
      <4> QED
        BY <3>0, <4>1
    <3>2. (w \o Tail(o))[k] = (w \o o)[h(k)]
      <4>1. CASE k <= Len(w)
        BY <1>a, <2>2, <3>1, <4>1
      <4>2. CASE ~(k <= Len(w))
        <5>1. h(k) = k + 1 /\ ~(k + 1 <= Len(w)) /\ (k + 1) - Len(w) = k - Len(w) + 1
          BY <3>0, <3>1, <4>2
        <5>2. (w \o o)[k + 1] = o[(k + 1) - Len(w)]
          BY <1>a, <3>1, <5>1
        <5> QED
          BY <2>2, <3>1, <4>2, <5>1, <5>2
      <4> QED
        BY <4>1, <4>2
    <3> HIDE DEF h, s, t
    <3> QED
      BY <1>c, <2>3, <3>1, <3>2
  <2>5. \A j, k \in 1..Len(t) : j < k => h(j) < h(k)
    BY <1>a, <2>3
  <2> HIDE DEF s, t, h
  <2>6. /\ f \in [1..Len(t) -> 1..Len(s)] /\ \A k \in 1..Len(t) : t[k] = s[f[k]]
        /\ \A j, k \in 1..Len(t) : j < k => f[j] < f[k]
    BY <2>4, <2>5
  <2> QED
    BY <2>6 DEF Thinned, s, t
<1> USE DEF handlerVars, saveVars, netVars, busVars
<1>5. ASSUME NEW g \in Goroutines, NEW x \in Conns, Offer(g, x), UNCHANGED sent
      PROVE  \/ Thinned(s, t)
             \/ Offer(g, c) /\ cur[g].body \in Bytes /\ t = Append(s, cur[g].body)
  <2>1. /\ wire' = wire /\ out' = [out EXCEPT ![x] = Offered(@, cur[g])] /\ cur[g] \in Frames
    BY <1>5, <1>a DEF Offer, TypeOK, Equipped
  <2>2. CASE x # c \/ out'[c] = o
    BY <1>1, <1>a, <2>1, <2>2
  <2>3. CASE x = c /\ out'[c] = Append(o, cur[g])
    <3>1. w \o Append(o, cur[g]) = Append(w \o o, cur[g])
      BY <1>a, <2>1, JoinedSeqs
    <3>2. t = Append(s, cur[g].body)
      BY <1>a, <1>b, <2>1, <2>3, <3>1, QueuedBodies DEF Delivery
    <3> QED
      BY <1>5, <2>1, <2>3, <3>2 DEF Frames, Bytes
  <2> QED
    BY <1>a, <2>1, <2>2, <2>3 DEF Offered
<1>6. ASSUME NEW x \in Conns, WriteLoop(x) PROVE Thinned(s, t)
  <2>1. CASE x # c
    BY <1>1, <1>6, <1>a, <2>1 DEF WriteLoop
  <2>2. CASE x = c
    BY <1>3, <1>4, <1>6, <1>a, <2>2 DEF WriteLoop
  <2> QED
    BY <2>1, <2>2
<1>7. ASSUME NEW x \in Conns, Return(x) PROVE Thinned(s, t)
  BY <1>1, <1>2, <1>7, <1>a DEF Return
<1>8. ASSUME NEW j \in Instances, Stop(j) PROVE Thinned(s, t)
  BY <1>1, <1>2, <1>8, <1>a DEF Stop
<1>9. ASSUME UNCHANGED <<wire, out>> PROVE Thinned(s, t)
  BY <1>1, <1>9
<1> HIDE DEF s, t, w, o
<1>10. Thinned(s, t) \/ \E g \in Goroutines : /\ Offer(g, c) /\ sent' = sent /\ cur[g].body \in Bytes
                                             /\ t = Append(s, cur[g].body)
  BY <1>5, <1>6, <1>7, <1>8, <1>9
     DEF Next, Server, Clients, HubNext, ServeWS, Subscriber, SaveLoop, Accept, Join, ReadFrame,
         Publish, Unanswered, ServeLate, StartBroadcast, QueueSave, ReadFails, Leave, TakeSave, SaveTick, SaveCommits,
         SaveFails, Subscribe, LoseBus, BusReceive, ClientSend, ClientLeave, vars, hubVars, Goroutines
<1> QED
  BY <1>10 DEF s, t

\* What has arrived, s, when B still waits on one way and D on the other.  Of two
\* frames the later one is newer if a copy of it is still to come, or if it is
\* there twice; what is to come on both ways is newer than all that arrived.
\* Nothing is said of the frames in U.
Copies(e, s, B, D, U) ==
  /\ \A i, j, k \in 1..Len(s), m, n \in 1..Quota[e] :
       (i < j /\ j < k /\ s[i] = <<e, m>> /\ s[j] = <<e, n>> /\ s[k] = <<e, n>>) => m < n \/ n \in U
  /\ \A i, j \in 1..Len(s), m, n \in 1..Quota[e] :
       (i < j /\ n \in B \cup D /\ s[i] = <<e, m>> /\ s[j] = <<e, n>>) => m < n \/ n \in U
  /\ Below(Numbers(e, s), (B \cap D) \ U)

\* What has arrived when the one way is all there is.
Once(e, s, B, U) == InOrder(e, s, U) /\ Below(Numbers(e, s), B \ U)

\* Frames can be lost, and new ones can be sent.
LEMMA ThinnedKeeps ==
  ASSUME NEW e, NEW s, NEW t, Thinned(s, t), NEW N \in Nat, Numbers(e, s) \subseteq 1..N,
         NEW B, NEW D, NEW BB, NEW DD, NEW U, NEW V, U \subseteq V, BB \subseteq Nat, DD \subseteq Nat,
         \A n \in BB : n \in B \/ n > N,
         \A n \in DD : n \in D \/ n > N
  PROVE  /\ Numbers(e, t) \subseteq Numbers(e, s)
         /\ Copies(e, s, B, D, U) => Copies(e, t, BB, DD, V)
         /\ Once(e, s, B, U) => Once(e, t, BB, V)
<1>1. PICK f \in [1..Len(t) -> 1..Len(s)] :
        /\ \A k \in 1..Len(t) : t[k] = s[f[k]]
        /\ \A j, k \in 1..Len(t) : j < k => f[j] < f[k]
  BY DEF Thinned
<1>2. Numbers(e, t) \subseteq Numbers(e, s)
  BY <1>1 DEF Numbers
<1>3. ASSUME NEW k \in 1..Len(t), NEW n \in 1..Quota[e], t[k] = <<e, n>>
      PROVE  n \in 1..N /\ f[k] \in 1..Len(s) /\ s[f[k]] = <<e, n>>
  BY <1>1, <1>3 DEF Numbers
<1>4. Below(Numbers(e, s), B \ U) => Below(Numbers(e, t), BB \ V)
  BY <1>2 DEF Below
<1>5. Below(Numbers(e, s), (B \cap D) \ U) => Below(Numbers(e, t), (BB \cap DD) \ V)
  BY <1>2 DEF Below
<1>6. ASSUME Copies(e, s, B, D, U) PROVE Copies(e, t, BB, DD, V)
  <2>1. ASSUME NEW i \in 1..Len(t), NEW j \in 1..Len(t), NEW k \in 1..Len(t),
               NEW m \in 1..Quota[e], NEW n \in 1..Quota[e],
               i < j, j < k, t[i] = <<e, m>>, t[j] = <<e, n>>, t[k] = <<e, n>>
        PROVE  m < n \/ n \in V
    <3>1. f[i] < f[j] /\ f[j] < f[k]
      BY <1>1, <2>1
    <3>2. /\ f[i] \in 1..Len(s) /\ s[f[i]] = <<e, m>>
          /\ f[j] \in 1..Len(s) /\ s[f[j]] = <<e, n>>
          /\ f[k] \in 1..Len(s) /\ s[f[k]] = <<e, n>>
      BY <1>3, <2>1
    <3> QED
      BY <1>6, <3>1, <3>2 DEF Copies
  <2>2. ASSUME NEW i \in 1..Len(t), NEW j \in 1..Len(t),
               NEW m \in 1..Quota[e], NEW n \in 1..Quota[e],
               i < j, n \in BB \cup DD, t[i] = <<e, m>>, t[j] = <<e, n>>
        PROVE  m < n \/ n \in V
    <3>1. f[i] < f[j]
      BY <1>1, <2>2
    <3>2. /\ f[i] \in 1..Len(s) /\ s[f[i]] = <<e, m>>
          /\ f[j] \in 1..Len(s) /\ s[f[j]] = <<e, n>> /\ n \in 1..N
      BY <1>3, <2>2
    <3>3. n \in B \cup D
      BY <2>2, <3>2
    <3> QED
      BY <1>6, <3>1, <3>2, <3>3 DEF Copies
  <2>3. Below(Numbers(e, t), (BB \cap DD) \ V)
    BY <1>5, <1>6 DEF Copies
  <2> QED
    BY <2>1, <2>2, <2>3 DEF Copies
<1>7. ASSUME Once(e, s, B, U) PROVE Once(e, t, BB, V)
  <2>1. ASSUME NEW j \in 1..Len(t), NEW k \in 1..Len(t), NEW m \in 1..Quota[e], NEW n \in 1..Quota[e],
               j < k, t[j] = <<e, m>>, t[k] = <<e, n>>
        PROVE  m < n \/ n \in V
    <3>1. f[j] < f[k]
      BY <1>1, <2>1
    <3>2. /\ f[j] \in 1..Len(s) /\ s[f[j]] = <<e, m>>
          /\ f[k] \in 1..Len(s) /\ s[f[k]] = <<e, n>>
      BY <1>3, <2>1
    <3> QED
      BY <1>7, <3>1, <3>2 DEF Once, InOrder
  <2> QED
    BY <1>4, <1>7, <2>1 DEF Once, InOrder
<1> QED
  BY <1>2, <1>6, <1>7

\* The next frame comes on one of the two ways, or it is not from e.
LEMMA ArrivalKeeps ==
  ASSUME NEW e, NEW s \in Seq(Bytes), NEW b \in Bytes, NEW B, NEW D, NEW BB, NEW DD, NEW U,
         Copies(e, s, B, D, U), Number(e, b) \subseteq B, Below(Number(e, b), BB \ U),
         BB \subseteq B, DD \subseteq D
  PROVE  Copies(e, Append(s, b), BB, DD, U)
<1> DEFINE t == Append(s, b)
           L == Len(s)
<1>1. /\ L \in Nat /\ Len(t) = L + 1 /\ t[L + 1] = b
      /\ \A k \in 1..L : t[k] = s[k]
  OBVIOUS
<1> HIDE DEF t, L
<1>2. ASSUME NEW k \in 1..Len(t) PROVE (k \in 1..Len(s) /\ t[k] = s[k]) \/ t[k] = b
  <2>1. k \in 1..L \/ k = L + 1
    BY <1>1
  <2> QED
    BY <1>1, <2>1 DEF L
<1>3. ASSUME NEW j \in 1..Len(t), NEW k \in 1..Len(t), j < k
      PROVE  j \in 1..Len(s) /\ t[j] = s[j]
  <2>1. j \in 1..L
    BY <1>1, <1>3
  <2> QED
    BY <1>1, <2>1 DEF L
<1>4. ASSUME NEW i \in 1..Len(t), NEW j \in 1..Len(t), NEW k \in 1..Len(t),
             NEW m \in 1..Quota[e], NEW n \in 1..Quota[e],
             i < j, j < k, t[i] = <<e, m>>, t[j] = <<e, n>>, t[k] = <<e, n>>
      PROVE  m < n \/ n \in U
  <2>1. i \in 1..Len(s) /\ s[i] = <<e, m>> /\ j \in 1..Len(s) /\ s[j] = <<e, n>>
    BY <1>3, <1>4
  <2>2. CASE k \in 1..Len(s) /\ t[k] = s[k]
    BY <1>4, <2>1, <2>2 DEF Copies
  <2>3. CASE t[k] = b
    <3>1. n \in B
      BY <1>4, <2>3 DEF Number
    <3> QED
      BY <1>4, <2>1, <3>1 DEF Copies
  <2> QED
    BY <1>2, <2>2, <2>3
<1>5. ASSUME NEW i \in 1..Len(t), NEW j \in 1..Len(t),
             NEW m \in 1..Quota[e], NEW n \in 1..Quota[e],
             i < j, n \in BB \cup DD, t[i] = <<e, m>>, t[j] = <<e, n>>
      PROVE  m < n \/ n \in U
  <2>1. i \in 1..Len(s) /\ s[i] = <<e, m>>
    BY <1>3, <1>5
  <2>2. CASE j \in 1..Len(s) /\ t[j] = s[j]
    BY <1>5, <2>1, <2>2 DEF Copies
  <2>3. CASE t[j] = b
    <3>1. n \in Number(e, b)
      BY <1>5, <2>3 DEF Number
    <3>2. n \notin BB \ U
      BY <3>1 DEF Below
    <3>3. n \in U \/ (n \in (B \cap D) \ U /\ m \in Numbers(e, s))
      BY <1>5, <2>1, <3>1, <3>2 DEF Numbers
    <3> QED
      BY <3>3 DEF Copies, Below
  <2> QED
    BY <1>2, <2>2, <2>3
<1>6. Below(Numbers(e, t), (BB \cap DD) \ U)
  <2> SUFFICES ASSUME NEW m \in 1..Quota[e], NEW k \in 1..Len(t), t[k] = <<e, m>>, NEW n \in (BB \cap DD) \ U
               PROVE  m < n
    BY DEF Below, Numbers
  <2>1. CASE k \in 1..Len(s) /\ t[k] = s[k]
    BY <2>1 DEF Copies, Below, Numbers
  <2>2. CASE t[k] = b
    BY <2>2 DEF Below, Number
  <2> QED
    BY <1>2, <2>1, <2>2
<1> QED
  BY <1>4, <1>5, <1>6 DEF Copies, t

Arrived(c, e) ==
  /\ Numbers(e, Delivery(c)) \subseteq 1..Len(sent[e])
  /\ Copies(e, Delivery(c), Waiting(BusLine(c, e)), Waiting(OwnLine(c, e)), Late(e))
  /\ Home[c] # Home[e] => Once(e, Delivery(c), Waiting(BusLine(c, e)), Late(e))

FramesInOrder(c, e) == BusInOrder(c, e) /\ OwnInOrder(c, e) /\ Arrived(c, e)

\* No step lets a frame come to c a third time, or a second time on the bus, unless
\* its PUBLISH got no answer.
LEMMA FramesInOrderStep ==
  ASSUME TypeOK, LoopsServeMembers, AllMine, [Next]_vars,
         NEW c \in Conns, NEW e \in Conns, FramesInOrder(c, e)
  PROVE  FramesInOrder(c, e)'
<1> DEFINE s == Delivery(c)
           t == Delivery(c)'
           B == Waiting(BusLine(c, e))
           BB == Waiting(BusLine(c, e)')
           D == Waiting(OwnLine(c, e))
           DD == Waiting(OwnLine(c, e)')
           N == Len(sent[e])
           U == Late(e)
           V == Late(e)'
           far == Home[c] # Home[e]
           Done == /\ Numbers(e, t) \subseteq 1..Len(sent'[e])
                   /\ Copies(e, t, BB, DD, V)
                   /\ far => Once(e, t, BB, V)
<1>1. /\ InOrder(e, Mapped(BodyOf, inbox[e]), {}) /\ BusInOrder(c, e) /\ OwnInOrder(c, e)
      /\ Numbers(e, s) \subseteq 1..N /\ Copies(e, s, B, D, U) /\ (far => Once(e, s, B, U))
  BY DEF FramesInOrder, Arrived, BusInOrder
<1>2. /\ BusInOrder(c, e)' /\ \A n \in BB : n \in B \/ n > N
      /\ OwnInOrder(c, e)' /\ \A n \in DD : n \in D \/ n > N
  BY <1>1, BusLineStep, OwnLineStep
<1>2a. U \subseteq V /\ (unanswered' = unanswered => V = U)
  BY LateGrows, LateSame
<1>3. B \subseteq 1..N /\ D \subseteq 1..N
  BY <1>1 DEF BusInOrder, OwnInOrder, Lined, Waiting
<1>4. N \in Nat /\ Len(sent'[e]) \in Nat /\ N <= Len(sent'[e])
  <2>1. sent \in [Conns -> Seq(Frames)]
    BY DEF TypeOK, Types
  <2>2. ASSUME NEW x \in Conns, ClientSend(x)
        PROVE  sent'[e] = sent[e] \/ \E f : sent'[e] = Append(sent[e], f)
    BY <2>1, <2>2 DEF ClientSend
  <2>3. sent'[e] = sent[e] \/ \E f : sent'[e] = Append(sent[e], f)
    BY <2>2 DEF Next, Server, Clients, ClientLeave, vars
  <2>4. N \in Nat
    BY <2>1
  <2>5. CASE sent'[e] = sent[e]
    BY <2>4, <2>5
  <2>6. ASSUME NEW f, sent'[e] = Append(sent[e], f) PROVE Len(sent'[e]) = N + 1
    BY <2>1, <2>6
  <2> QED
    BY <2>3, <2>4, <2>5, <2>6
<1>5. s \in Seq(Bytes)
  <2>1. wire[c] \o out[c] \in Seq(Frames)
    BY DEF TypeOK, Types
  <2> QED
    BY <2>1, QueuedBodies DEF Delivery
<1>6. ASSUME Thinned(s, t) PROVE Done
  <2>0. BB \subseteq 1..Len(sent'[e]) /\ DD \subseteq 1..Len(sent'[e])
    BY <1>2 DEF BusInOrder, OwnInOrder, Lined, Waiting
  <2> HIDE DEF s, t, B, BB, D, DD, N, U, V
  <2>1. /\ Numbers(e, t) \subseteq Numbers(e, s) /\ Copies(e, t, BB, DD, V)
        /\ far => Once(e, t, BB, V)
    <3>1. BB \subseteq Nat /\ DD \subseteq Nat
      BY <1>4, <2>0
    <3>2. /\ U \subseteq V /\ N \in Nat /\ Numbers(e, s) \subseteq 1..N
          /\ Copies(e, s, B, D, U) /\ (far => Once(e, s, B, U))
          /\ (\A n \in BB : n \in B \/ n > N) /\ (\A n \in DD : n \in D \/ n > N)
      BY <1>1, <1>2, <1>2a, <1>4
    <3> HIDE DEF far
    <3> QED
      BY <1>6, <3>1, <3>2, ThinnedKeeps
  <2>2. 1..N \subseteq 1..Len(sent'[e])
    BY <1>4
  <2> QED
    BY <1>1, <2>1, <2>2
<1>7. ASSUME NEW g \in Goroutines, Offer(g, c), sent' = sent, cur[g].body \in Bytes,
             t = Append(s, cur[g].body)
      PROVE  Done
  <2> DEFINE p == cur[g].body
  <2>1. \/ Number(e, p) = {}
        \/ g = Home[c] /\ Number(e, p) \subseteq B /\ Below(Number(e, p), BB \ U) /\ DD \subseteq D
        \/ ~far /\ Number(e, p) \subseteq D /\ Below(Number(e, p), DD \ U) /\ BB \subseteq B
    BY <1>1, <1>7, FirstInLine
  <2>2. BB \subseteq B /\ DD \subseteq D
    <3>1. BB \subseteq 1..N /\ DD \subseteq 1..N
      BY <1>2, <1>7 DEF BusInOrder, OwnInOrder, Lined, Waiting
    <3> HIDE DEF B, BB, D, DD, N
    <3> QED
      BY <1>2, <1>4, <3>1
  <2>2a. V = U
    BY <1>2a, <1>7 DEF Offer, busVars
  <2> HIDE DEF s, t, B, BB, D, DD, N, U, V, p
  <2>3. Number(e, p) \subseteq B \/ Number(e, p) \subseteq D
    BY <2>1
  <2>4. p \in Bytes /\ t = Append(s, p)
    BY <1>7 DEF p
  <2>5. Numbers(e, t) \subseteq Numbers(e, s) \cup Number(e, p)
    <3>1. ASSUME NEW n \in 1..Quota[e], NEW k \in 1..Len(t), t[k] = <<e, n>>
          PROVE  n \in Numbers(e, s) \cup Number(e, p)
      <4>1. (k \in 1..Len(s) /\ t[k] = s[k]) \/ t[k] = p
        BY <1>5, <2>4
      <4> QED
        BY <3>1, <4>1 DEF Numbers, Number
    <3> QED
      BY <3>1 DEF Numbers
  <2>6. Copies(e, t, BB, DD, V)
    <3>1. CASE Number(e, p) \subseteq B /\ Below(Number(e, p), BB \ U)
      BY <1>1, <1>5, <2>2, <2>2a, <2>4, <3>1, ArrivalKeeps
    <3>2. CASE Number(e, p) \subseteq D /\ Below(Number(e, p), DD \ U)
      <4>1. Copies(e, s, D, B, U)
        BY <1>1 DEF Copies
      <4>2. Copies(e, t, DD, BB, U)
        BY <1>5, <2>2, <2>4, <3>2, <4>1, ArrivalKeeps
      <4> QED
        BY <2>2a, <4>2 DEF Copies
    <3>3. Number(e, p) = {} => Below(Number(e, p), BB \ U)
      BY DEF Below
    <3> QED
      BY <2>1, <3>1, <3>2, <3>3
  <2>7. ASSUME far PROVE Once(e, t, BB, V)
    <3>1. Number(e, p) \subseteq B /\ Below(Number(e, p), BB \ U)
      BY <2>1, <2>7 DEF Below
    <3>2. Below(Numbers(e, s), Number(e, p) \ U) /\ InOrder(e, s, U) /\ Below(Numbers(e, s), BB \ U)
      BY <1>1, <2>2, <2>7, <3>1 DEF Once, Below
    <3>3. InOrder(e, t, U)
      BY <1>5, <2>4, <3>2, AppendInOrder
    <3>4. Below(Numbers(e, t), BB \ U)
      BY <2>5, <3>1, <3>2 DEF Below
    <3> QED
      BY <2>2a, <3>3, <3>4 DEF Once
  <2> QED
    BY <1>1, <1>3, <1>7, <2>3, <2>5, <2>6, <2>7 DEF N
<1>8. Done
  BY <1>6, <1>7, DeliveryStep
<1>9. Arrived(c, e)'
  <2>1. /\ Numbers(e, t) = Numbers(e, Delivery(c))' /\ Copies(e, t, BB, DD, V) <=> Copies(e, s, B, D, U)'
        /\ Once(e, t, BB, V) <=> Once(e, s, B, U)'
    BY DEF Numbers, Copies, Once, InOrder, Below, Waiting, Stages
  <2> QED
    BY <1>8, <2>1 DEF Arrived
<1> QED
  BY <1>2, <1>9 DEF FramesInOrder

FrameOrder == \A c, e \in Conns : FramesInOrder(c, e)

\* At first nothing is on its way.
LEMMA FrameOrderInit == Init => FrameOrder
<1> SUFFICES ASSUME Init, NEW c \in Conns, NEW e \in Conns PROVE FramesInOrder(c, e)
  BY DEF FrameOrder
<1>1. Numbers(e, <<>>) = {} /\ (\A U : InOrder(e, <<>>, U)) /\ Late(e) = {}
  <2>1. DOMAIN unanswered = {}
    BY DEF Init, HubInit
  <2>2. Unsure = {}
    BY <2>1 DEF Unsure
  <2> QED
    BY <2>2, EmptyQueues DEF Late
<1>2. /\ wire[c] = <<>> /\ out[c] = <<>> /\ bus[Home[c]] = <<>> /\ inbox[e] = <<>>
      /\ c \notin todo[Home[c]] /\ c \notin todo[e] /\ pc[e] = "new"
  BY HubAssumption DEF Init, HubInit, Goroutines
<1>3. /\ Mapped(BodyOf, inbox[e]) = <<>> /\ Mapped(PayloadBodyOf, bus[Home[c]]) = <<>>
      /\ Delivery(c) = <<>>
  BY <1>2 DEF Mapped, Delivery
<1>4. \A j \in Stages : BusLine(c, e)[j] = {} /\ OwnLine(c, e)[j] = {}
  BY <1>1, <1>2, <1>3 DEF BusLine, OwnLine, Stages
<1>5. BusInOrder(c, e) /\ OwnInOrder(c, e)
  BY <1>1, <1>3, <1>4 DEF BusInOrder, OwnInOrder, Lined, Ordered, Below
<1>6. Arrived(c, e)
  BY <1>1, <1>3 DEF Arrived, Copies, Once, InOrder, Below
<1> QED
  BY <1>5, <1>6 DEF FramesInOrder

\* Whatever is dropped on the way, the two ways keep their order.
LEMMA FrameOrderHolds == Spec => []FrameOrder
<1>1. Init => Rooms /\ LoopsServeMembers
  BY HubAssumption
     DEF Init, HubInit, Rooms, OneRoomPerDoc, RoomsDistinct, MembersAreJoined,
         LoopsServeMembers, Goroutines, Running, Joined, Looping
<1>2. TypeOK /\ Rooms /\ LoopsServeMembers /\ AllMine /\ FrameOrder /\ [Next]_vars
        => Rooms' /\ LoopsServeMembers' /\ AllMine' /\ FrameOrder'
  BY RoomsStep, LoopsStep, MineStep, FramesInOrderStep DEF FrameOrder
<1> QED
  BY <1>1, <1>2, FrameOrderInit, SaveOrderInit, TypeCorrect, PTL DEF Spec

\* What has been written is the first part of a delivery.
LEMMA FirstPart ==
  ASSUME NEW s \in Seq(Frames), NEW t \in Seq(Frames), NEW k \in 1..Len(s)
  PROVE  k \in 1..Len(Mapped(BodyOf, s \o t)) /\ Mapped(BodyOf, s \o t)[k] = s[k].body
<1> DEFINE x == s \o t
<1>1. Len(s) \in Nat /\ Len(t) \in Nat /\ s[k] \in Frames
  BY ElementOfSeq
<1>2. k \in 1..(Len(s) + Len(t)) /\ k <= Len(s)
  BY <1>1
<1>3. x \in Seq(Frames) /\ Len(x) = Len(s) + Len(t) /\ x[k] = s[k]
  BY <1>2, ConcatProperties
<1> HIDE DEF x
<1>4. Len(x) \in Nat /\ k \in 1..Len(x)
  BY <1>1, <1>2, <1>3
<1>5. k \in 1..Len(Mapped(BodyOf, x)) /\ Mapped(BodyOf, x)[k] = BodyOf[x[k]]
  BY <1>4 DEF Mapped
<1> QED
  BY <1>1, <1>3, <1>5 DEF BodyOf, x

LEMMA WireDelivered ==
  ASSUME TypeOK, NEW c \in Conns
  PROVE  \A k \in 1..Len(wire[c]) : k \in 1..Len(Delivery(c)) /\ Delivery(c)[k] = wire[c][k].body
<1>1. wire[c] \in Seq(Frames) /\ out[c] \in Seq(Frames)
  BY DEF TypeOK, Types
<1> QED
  BY <1>1, FirstPart DEF Delivery

\* What crosses Redis arrives at most once, and in the order it was sent in,
\* whatever is dropped on the way and however often the client repeats a PUBLISH:
\* only a frame with an unanswered PUBLISH can come again, or after a later one.
\* (hub.go:29-36, 107-114, redis_bus.go:24-58)
THEOREM OrderKept == Spec => []RemoteInOrder
<1>1. TypeOK /\ FrameOrder => RemoteInOrder
  <2> SUFFICES ASSUME TypeOK, FrameOrder, NEW c \in Conns, NEW e \in Conns, Home[c] # Home[e],
                      NEW j \in 1..Len(wire[c]), NEW k \in 1..Len(wire[c]),
                      NEW m \in 1..Quota[e], NEW n \in 1..Quota[e],
                      j < k, wire[c][j].body = <<e, m>>, wire[c][k].body = <<e, n>>
               PROVE  m < n \/ <<e, n>> \in Unsure
    BY DEF RemoteInOrder
  <2>1. InOrder(e, Delivery(c), Late(e))
    BY DEF FrameOrder, FramesInOrder, Arrived, Once
  <2> QED
    BY <2>1, WireDelivered DEF InOrder, Late
<1> QED
  BY <1>1, FrameOrderHolds, TypeCorrect, PTL

\* On the sender's own replica no frame arrives a third time, and at most one of
\* its copies comes after a later frame, unless a PUBLISH of it got no answer.
\* (hub.go:113-114, redis_bus.go:24-38)
THEOREM CopiesKept == Spec => []LocalAtMostTwice
<1>1. TypeOK /\ FrameOrder => LocalAtMostTwice
  <2> SUFFICES ASSUME TypeOK, FrameOrder PROVE LocalAtMostTwice
    OBVIOUS
  <2> USE DEF LocalAtMostTwice
  <2> TAKE c, e \in Conns
  <2> TAKE i, j, k \in 1..Len(wire[c]), m, n \in 1..Quota[e]
  <2> HAVE /\ i < j /\ wire[c][i].body = <<e, m>>
           /\ j < k /\ wire[c][j].body = <<e, n>> /\ wire[c][k].body = <<e, n>>
  <2>1. Copies(e, Delivery(c), Waiting(BusLine(c, e)), Waiting(OwnLine(c, e)), Late(e))
    BY DEF FrameOrder, FramesInOrder, Arrived
  <2> QED
    BY <2>1, WireDelivered DEF Copies, Late
<1> QED
  BY <1>1, FrameOrderHolds, TypeCorrect, PTL
=============================================================================
