--------------------------- MODULE CollabProofs ---------------------------
(* The protocol keeps its types, and does to the text what SharedText      *)
(* allows: what was proved of SharedText holds of Collab, for any tabs.    *)
(* What one connected tab has, the others have or will get; and what is    *)
(* stored last is as good as what the tabs show.                           *)
EXTENDS Collab, SharedTextProofs, SequenceTheorems

CollabInv == TextInv /\ TypeOK

LEMMA CollabInitKeeps == Init => CollabInv
<1> SUFFICES ASSUME Init PROVE CollabInv OBVIOUS
<1>1. TextInv BY TextInitKeeps DEF Init
<1>2. made = {Base} BY DEF Init, TextInit
<1>3. <<>> \in Seq(Frames) OBVIOUS
<1>4. up \in [Tabs -> Seq(Frames)] /\ down \in [Tabs -> Seq(Frames)] BY <1>3 DEF Init
<1>5. blob \in [Tabs -> SUBSET made] /\ store \in SUBSET made BY <1>2 DEF Init
<1>6. events \in 0..MaxEvents BY CollabAssumption DEF Init
<1>7. pend \in [Tabs -> Seq(SUBSET made)] BY DEF Init
<1>8. QED BY <1>1, <1>4, <1>5, <1>6, <1>7 DEF CollabInv, TypeOK, TextInv, Init

-----------------------------------------------------------------------------

\* What t sends is a frame.
LEMMA SendingFrames ==
  ASSUME TypeOK, NEW t \in Tabs, NEW f \in Frames
  PROVE  Sending(t, f) \in [Tabs -> Seq(Frames)]
BY DEF TypeOK, Sending

LEMMA FrameKinds ==
  ASSUME TypeOK, NEW t \in Tabs
  PROVE  /\ SyncReq \in Frames /\ SyncRes(doc[t]) \in Frames
         /\ \A es \in SUBSET made : Update(es) \in Frames
BY DEF TypeOK, TextTypeOK, Frames, SyncReq, SyncRes, Update

\* Edits that are there already bring nothing.
LEMMA LearnLess ==
  ASSUME NEW t \in Tabs, NEW es \in SUBSET made, NEW shows \in BOOLEAN, Learn(t, es, shows)
  PROVE  TextNext
<1>1. doc[t] \cup es = doc[t] \cup (es \ doc[t]) OBVIOUS
<1>2. Changes(t, es) <=> Changes(t, es \ doc[t]) BY <1>1 DEF Changes
<1>3. Learn(t, es \ doc[t], shows) BY <1>1, <1>2 DEF Learn
<1>4. es \ doc[t] \in SUBSET (made \ doc[t]) OBVIOUS
<1>5. QED BY <1>3, <1>4 DEF TextNext

\* What a step has to do.
Step == [TextNext]_textVars /\ (TextTypeOK' => TypeOK')

LEMMA OpeningSteps ==
  ASSUME CollabInv, NEW t \in Tabs,
         Open(t) \/ ServeBlob(t) \/ BlobArrives(t) \/ BlobFails(t) \/ Join(t) \/ Opened(t)
  PROVE  Step
<1> USE DEF CollabInv, Step, saveVars
<1>1. CASE Open(t)
  BY <1>1 DEF Open, TypeOK, Frames, hubVars, userVars, textVars
<1>2. CASE ServeBlob(t)
  BY <1>2 DEF ServeBlob, TypeOK, Frames, hubVars, userVars, textVars
<1>3. CASE BlobArrives(t)
  <2>1. Learn(t, blob[t], TRUE) BY <1>3 DEF BlobArrives, Apply
  <2>2. blob[t] \in SUBSET made BY DEF TypeOK
  <2>3. TextNext BY <2>1, <2>2, LearnLess
  <2>4. snap' \in [Tabs -> BOOLEAN] BY <1>3 DEF BlobArrives, Apply, Changes, TypeOK
  <2>5. UNCHANGED made BY <2>1 DEF Learn
  <2> QED BY <2>3, <2>4, <2>5, <1>3 DEF BlobArrives, TypeOK, Frames, hubVars
<1>4. CASE BlobFails(t)
  <2>1. TextNext BY <1>4 DEF BlobFails, TextNext
  <2> QED BY <2>1, <1>4 DEF BlobFails, Empty, TypeOK, Frames, hubVars
<1>5. CASE Join(t)
  BY <1>5 DEF Join, TypeOK, Frames, tabVars, userVars, textVars
<1>6. CASE Opened(t)
  <2>1. up' \in [Tabs -> Seq(Frames)] BY <1>6, FrameKinds DEF Opened, TypeOK
  <2> QED BY <2>1, <1>6 DEF Opened, TypeOK, Frames, userVars, textVars
<1>7. QED BY <1>1, <1>2, <1>3, <1>4, <1>5, <1>6

LEMMA TypingSteps ==
  ASSUME CollabInv, NEW t \in Tabs, Edit(t) \/ Logout(t) PROVE Step
<1> USE DEF CollabInv, Step, saveVars
<1>1. CASE Edit(t)
  <2>1. PICK e \in EditsOf(t) : Type(t, e) /\ up' = Sending(t, Update({e}))
    BY <1>1 DEF Edit
  <2>2. TextNext BY <2>1 DEF TextNext
  <2>3. made' = made \cup {e} BY <2>1 DEF Type
  <2>4. Frames \subseteq Frames' BY <2>3 DEF Frames
  <2>5. Seq(Frames) \subseteq Seq(Frames') BY <2>4
  <2>6. Update({e}) \in Frames' BY <2>3 DEF Frames, Update
  <2>7. up' \in [Tabs -> Seq(Frames')]
    BY <2>1, <2>5, <2>6 DEF Sending, TypeOK
  <2>8. /\ down' \in [Tabs -> Seq(Frames')] /\ blob' \in [Tabs -> SUBSET made']
        /\ store' \in SUBSET made'
    BY <1>1, <2>3, <2>5 DEF Edit, TypeOK
  <2>9. events' \in 0..MaxEvents
    BY <1>1, CollabAssumption DEF Edit, Counted, TypeOK
  <2>10. pend' \in [Tabs -> Seq(SUBSET made')]
    <3>1. SUBSET made \subseteq SUBSET made' BY <2>3
    <3>2. Seq(SUBSET made) \subseteq Seq(SUBSET made') BY <3>1
    <3> QED BY <3>2, <1>1 DEF Edit, TypeOK
  <2> QED BY <2>2, <2>7, <2>8, <2>9, <2>10, <1>1 DEF Edit, TypeOK
<1>2. CASE Logout(t)
  <2>1. TextNext BY <1>2 DEF Logout, TextNext
  <2>2. events' \in 0..MaxEvents
    BY <1>2, CollabAssumption DEF Logout, Counted, TypeOK
  <2> QED BY <2>1, <2>2, <1>2 DEF Logout, Empty, TypeOK, Frames, hubVars
<1>3. QED BY <1>1, <1>2

LEMMA SyncSteps ==
  ASSUME CollabInv, NEW t \in Tabs, Receive(t) \/ SnapshotTimerFires(t) PROVE Step
<1> USE DEF CollabInv, Step, saveVars
<1>1. CASE Receive(t)
  <2> DEFINE f == Head(down[t])
  <2>1. down[t] \in Seq(Frames) /\ down[t] # <<>> BY <1>1 DEF Receive, TypeOK
  <2>2. f \in Frames /\ Tail(down[t]) \in Seq(Frames) BY <2>1
  <2>3. down' \in [Tabs -> Seq(Frames)] BY <1>1, <2>2 DEF Receive, TypeOK
  <2>4. CASE f.type = "syncReq"
    <3>1. up' \in [Tabs -> Seq(Frames)] /\ UNCHANGED <<textVars, snap>>
      BY <1>1, <2>4, SendingFrames, FrameKinds DEF Receive
    <3> QED BY <3>1, <2>3, <1>1 DEF Receive, TypeOK, Frames, textVars
  <2>5. CASE f.type # "syncReq"
    <3>1. Apply(t, f.text, FALSE) /\ UNCHANGED up BY <1>1, <2>5 DEF Receive
    <3>2. f.text \in SUBSET made BY <2>2 DEF Frames
    <3>3. TextNext BY <3>1, <3>2, LearnLess DEF Apply
    <3>4. snap' \in [Tabs -> BOOLEAN] BY <3>1 DEF Apply, Changes, TypeOK
    <3>5. UNCHANGED made BY <3>1 DEF Apply, Learn
    <3> QED BY <3>1, <3>3, <3>4, <3>5, <2>3, <1>1 DEF Receive, TypeOK, Frames
  <2> QED BY <2>4, <2>5
<1>2. CASE SnapshotTimerFires(t)
  <2>1. up' \in [Tabs -> Seq(Frames)]
    BY <1>2, SendingFrames, FrameKinds DEF SnapshotTimerFires
  <2> QED BY <2>1, <1>2 DEF SnapshotTimerFires, TypeOK, Frames, userVars, textVars
<1>3. QED BY <1>1, <1>2

\* What a cut connection leaves is of the right type.
CutTypes ==
  /\ joined' \in [Tabs -> BOOLEAN]
  /\ up' \in [Tabs -> Seq(Frames)] /\ down' \in [Tabs -> Seq(Frames)]
  /\ pend' \in [Tabs -> Seq(SUBSET made)]
  /\ missed' \in [Tabs -> BOOLEAN] /\ lost' \in [Tabs -> BOOLEAN]

LEMMA CutKeepsTypes ==
  ASSUME TypeOK, NEW t \in Tabs, Cut(t) PROVE CutTypes
<1>1. <<>> \in Seq(Frames) /\ <<>> \in Seq(SUBSET made) OBVIOUS
<1>2. QED BY <1>1 DEF Cut, CutTypes, TypeOK

\* A turn of the read loop, whether buffers are full or not.
Turn(t) == Relay(t) \/ RelayFull(t)

LEMMA TurnSays ==
  ASSUME NEW t \in Tabs, Turn(t), TypeOK
  PROVE  /\ joined[t] /\ up[t] # <<>> /\ up' = [up EXCEPT ![t] = Tail(@)]
         /\ UNCHANGED <<tabVars, joined, store, made, past>>
         /\ Queue(t, Head(up[t])) \/ Discard(t, Head(up[t]))
         /\ events' \in 0..MaxEvents /\ missed' \in [Tabs -> BOOLEAN]
         /\ \E full \in SUBSET Reached(Head(up[t])) :
              /\ down' = Delivered(Head(up[t]), Reached(Head(up[t])) \ full)
              /\ \A e \in Tabs : missed'[e] <=> missed[e] \/ e \in full
<1> DEFINE f == Head(up[t])
           Misses(full) == /\ down' = Delivered(f, Reached(f) \ full)
                           /\ \A e \in Tabs : missed'[e] <=> missed[e] \/ e \in full
<1> SUFFICES /\ joined[t] /\ up[t] # <<>> /\ up' = [up EXCEPT ![t] = Tail(@)]
             /\ UNCHANGED <<tabVars, joined, store, made, past>>
             /\ Queue(t, f) \/ Discard(t, f)
             /\ events' \in 0..MaxEvents /\ missed' \in [Tabs -> BOOLEAN]
             /\ \E full \in SUBSET Reached(f) : Misses(full)
  OBVIOUS
<1>1. CASE Relay(t)
  <2>1. Reached(f) \ {} = Reached(f) /\ {} \in SUBSET Reached(f) OBVIOUS
  <2>2. Misses({}) BY <1>1, <2>1 DEF Relay
  <2>3. \E full \in SUBSET Reached(f) : Misses(full) BY <2>1, <2>2
  <2> HIDE DEF Misses
  <2> QED BY <1>1, <2>3 DEF Relay, userVars, TypeOK
<1>2. CASE RelayFull(t)
  <2>1. PICK full \in SUBSET Reached(f) :
          /\ down' = Delivered(f, Reached(f) \ full)
          /\ missed' = [e \in Tabs |-> missed[e] \/ e \in full]
          /\ Queue(t, f) \/ Discard(t, f)
    BY <1>2 DEF RelayFull
  <2>2. Misses(full) BY <2>1
  <2>3. missed' \in [Tabs -> BOOLEAN] BY <2>1
  <2>4. events' \in 0..MaxEvents BY <1>2, CollabAssumption DEF RelayFull, Counted, TypeOK
  <2>5. \E g \in SUBSET Reached(f) : Misses(g) BY <2>2
  <2> HIDE DEF Misses
  <2> QED BY <1>2, <2>1, <2>3, <2>4, <2>5 DEF RelayFull
<1> QED BY <1>1, <1>2 DEF Turn

LEMMA RestIsText ==
  ASSUME NEW S, NEW q \in Seq(S), NEW n \in 1..Len(q)
  PROVE  Rest(q, n) \in Seq(S) /\ q[n] \in S
BY DEF Rest

LEMMA HubSteps ==
  ASSUME CollabInv, NEW t \in Tabs,
         Turn(t) \/ Save(t) \/ SaveFails(t) \/ Drop(t) \/ Reconnect(t) \/ Close(t)
  PROVE  Step
<1> USE DEF CollabInv, Step, saveVars
<1>1. CASE Turn(t)
  <2> DEFINE f == Head(up[t])
  <2>1. up[t] \in Seq(Frames) /\ up[t] # <<>> BY <1>1, TurnSays DEF TypeOK
  <2>2. f \in Frames /\ Tail(up[t]) \in Seq(Frames) BY <2>1
  <2>3. up' \in [Tabs -> Seq(Frames)] BY <1>1, <2>2, TurnSays DEF TypeOK
  <2>4. PICK full \in SUBSET Reached(f) : down' = Delivered(f, Reached(f) \ full)
    BY <1>1, TurnSays
  <2>5. \A e \in Tabs : Append(down[e], f) \in Seq(Frames) BY <2>2 DEF TypeOK
  <2>6. down' \in [Tabs -> Seq(Frames)] BY <2>4, <2>5 DEF Delivered, TypeOK
  <2>7. missed' \in [Tabs -> BOOLEAN] BY <1>1, TurnSays
  <2>8. f.type = "syncRes" => f.text \in SUBSET made BY <2>2 DEF Frames
  <2>9. Queue(t, f) \/ Discard(t, f) BY <1>1, TurnSays
  <2>10. pend' \in [Tabs -> Seq(SUBSET made)] /\ lost' \in [Tabs -> BOOLEAN]
    <3> HIDE DEF f
    <3>1. f.type = "syncRes" => Append(pend[t], f.text) \in Seq(SUBSET made)
      BY <2>8 DEF TypeOK
    <3> QED BY <2>9, <3>1 DEF Queue, Discard, TypeOK
  <2>11. UNCHANGED <<tabVars, joined, store, made, past>> /\ events' \in 0..MaxEvents
    BY <1>1, TurnSays
  <2> QED BY <2>3, <2>6, <2>7, <2>10, <2>11 DEF TypeOK, Frames, tabVars, textVars
<1>2. CASE Save(t)
  <2>1. PICK n \in 1..Len(pend[t]) :
          store' = pend[t][n] /\ pend' = [pend EXCEPT ![t] = Rest(@, n)]
    BY <1>2 DEF Save
  <2>2. pend[t] \in Seq(SUBSET made) BY DEF TypeOK
  <2>3. Rest(pend[t], n) \in Seq(SUBSET made) /\ store' \in SUBSET made
    BY <2>1, <2>2, RestIsText
  <2>4. pend' \in [Tabs -> Seq(SUBSET made)] BY <2>1, <2>3 DEF TypeOK
  <2> QED BY <2>3, <2>4, <1>2 DEF Save, TypeOK, Frames, tabVars, userVars, textVars
<1>3. CASE SaveFails(t)
  <2>1. PICK n \in 1..Len(pend[t]) :
          /\ pend' = [pend EXCEPT ![t] = Rest(@, n)]
          /\ lost' = [lost EXCEPT ![t] = @ \/ n = Len(pend[t])]
    BY <1>3 DEF SaveFails
  <2>2. pend[t] \in Seq(SUBSET made) BY DEF TypeOK
  <2>3. Rest(pend[t], n) \in Seq(SUBSET made) BY <2>2, RestIsText
  <2>4. pend' \in [Tabs -> Seq(SUBSET made)] BY <2>1, <2>3 DEF TypeOK
  <2>5. lost' \in [Tabs -> BOOLEAN] BY <2>1 DEF TypeOK
  <2>6. events' \in 0..MaxEvents
    BY <1>3, CollabAssumption DEF SaveFails, Counted, TypeOK
  <2> QED BY <2>4, <2>5, <2>6, <1>3 DEF SaveFails, TypeOK, Frames, tabVars, textVars
<1>4. CASE Drop(t)
  <2>1. events' \in 0..MaxEvents
    BY <1>4, CollabAssumption DEF Drop, Counted, TypeOK
  <2>2. CutTypes BY <1>4, CutKeepsTypes DEF Drop
  <2> QED BY <2>1, <2>2, <1>4 DEF Drop, CutTypes, TypeOK, Frames, textVars
<1>5. CASE Reconnect(t)
  BY <1>5 DEF Reconnect, TypeOK, Frames, hubVars, userVars, textVars
<1>6. CASE Close(t)
  <2>1. CutTypes BY <1>6, CutKeepsTypes DEF Close
  <2>2. blob' \in [Tabs -> SUBSET made] BY <1>6 DEF Close, TypeOK
  <2> QED BY <2>1, <2>2, <1>6 DEF Close, CutTypes, TypeOK, Frames, textVars
<1>7. QED BY <1>1, <1>2, <1>3, <1>4, <1>5, <1>6

LEMMA CollabNextSteps ==
  ASSUME CollabInv, [Next]_vars PROVE [TextNext]_textVars /\ CollabInv'
<1>1. Step
  <2>1. CASE UNCHANGED vars
    BY <2>1
       DEF CollabInv, Step, TypeOK, Frames, vars, tabVars, hubVars, saveVars, userVars, textVars
  <2>2. CASE Next
    BY <2>2, OpeningSteps, TypingSteps, SyncSteps, HubSteps
       DEF Next, StayingNext, Progress, Turn
  <2> QED BY <2>1, <2>2
<1>2. TextInv' BY <1>1, TextNextKeeps DEF CollabInv, Step
<1>3. QED BY <1>1, <1>2 DEF CollabInv, Step, TextInv

LEMMA CollabHolds == Spec => []CollabInv
<1>1. CollabInv /\ [Next]_vars => CollabInv' BY CollabNextSteps
<1>2. QED BY <1>1, CollabInitKeeps, PTL DEF Spec

\* The types: whatever is on the way, stored or waiting consists of edits that were made.
THEOREM CollabTypeCorrect == Spec => []TypeOK
<1>1. CollabInv => TypeOK BY DEF CollabInv
<1>2. QED BY <1>1, CollabHolds, PTL

\* The protocol of loading, editing, synchronising and saving refines SharedText.
THEOREM CollabImplementsText == Spec => ImplementsText
<1>1. Init => TextInit BY DEF Init
<1>2. CollabInv /\ [Next]_vars => [TextNext]_textVars BY CollabNextSteps
<1>3. QED BY <1>1, <1>2, CollabHolds, PTL DEF Spec, ImplementsText, TextSpec

\* So in the protocol, too, no letter is lost and no text is copied by who has it.
THEOREM CollabKeepsText == Spec => [](NothingTypedIsLost /\ TwiceOnlyApart)
<1>1. TextSpec => [](NothingTypedIsLost /\ TwiceOnlyApart)
  BY NoLetterLost, NoCopyOfTheSeen, PTL
<1>2. QED BY <1>1, CollabImplementsText DEF ImplementsText

-----------------------------------------------------------------------------
(* Queues of frames.                                                       *)

\* A frame of q carries edit e.
Has(q, e) == \E j \in 1..Len(q) : e \in q[j].text

\* Behind the i-th frame of q there is a request for the full state.
AsksAfter(q, i) == \E j \in (i + 1)..Len(q) : q[j].type = "syncReq"

LEMMA Joining ==
  ASSUME NEW F, NEW q \in Seq(F), NEW f
  PROVE  /\ Len(q) \in Nat /\ Len(Append(q, f)) = Len(q) + 1
         /\ \A j \in 1..Len(q) : Append(q, f)[j] = q[j]
         /\ Append(q, f)[Len(q) + 1] = f
  OBVIOUS

LEMMA Leaving ==
  ASSUME NEW F, NEW q \in Seq(F), q # <<>>
  PROVE  /\ Len(q) \in Nat \ {0} /\ Head(q) = q[1] /\ Len(Tail(q)) = Len(q) - 1
         /\ \A j \in 1..(Len(q) - 1) : Tail(q)[j] = q[j + 1]
  OBVIOUS

\* At the end of a queue, a frame adds what it carries, and hides nothing.
LEMMA JoiningSays ==
  ASSUME NEW F, NEW q \in Seq(F), NEW f
  PROVE  /\ \A e : Has(q, e) \/ e \in f.text => Has(Append(q, f), e)
         /\ \A i \in 0..Len(q) :
              AsksAfter(q, i) \/ f.type = "syncReq" => AsksAfter(Append(q, f), i)
<1> DEFINE n == Len(q)
           r == Append(q, f)
<1>1. /\ n \in Nat /\ Len(r) = n + 1 /\ r[n + 1] = f
      /\ \A j \in 1..n : r[j] = q[j]
  BY Joining
<1> HIDE DEF n, r
<1>2. ASSUME NEW e, Has(q, e) \/ e \in f.text PROVE Has(r, e)
  <2>1. CASE Has(q, e)
    <3>1. PICK j \in 1..n : e \in q[j].text BY <2>1 DEF Has, n
    <3>2. j \in 1..Len(r) /\ e \in r[j].text BY <1>1, <3>1
    <3> QED BY <3>2 DEF Has
  <2>2. CASE e \in f.text
    <3>1. n + 1 \in 1..Len(r) /\ e \in r[n + 1].text BY <1>1, <2>2
    <3> QED BY <3>1 DEF Has
  <2> QED BY <1>2, <2>1, <2>2
<1>3. ASSUME NEW i \in 0..n, AsksAfter(q, i) \/ f.type = "syncReq" PROVE AsksAfter(r, i)
  <2>1. CASE AsksAfter(q, i)
    <3>1. PICK j \in (i + 1)..n : q[j].type = "syncReq" BY <2>1 DEF AsksAfter, n
    <3>2. j \in (i + 1)..Len(r) /\ r[j].type = "syncReq" BY <1>1, <3>1
    <3> QED BY <3>2 DEF AsksAfter
  <2>2. CASE f.type = "syncReq"
    <3>1. n + 1 \in (i + 1)..Len(r) /\ r[n + 1].type = "syncReq" BY <1>1, <2>2
    <3> QED BY <3>1 DEF AsksAfter
  <2> QED BY <1>3, <2>1, <2>2
<1> QED BY <1>2, <1>3 DEF n, r

\* When the first frame leaves, what the others carry stays.
LEMMA LeavingSays ==
  ASSUME NEW F, NEW q \in Seq(F), q # <<>>
  PROVE  /\ \A e : Has(q, e) => e \in Head(q).text \/ Has(Tail(q), e)
         /\ AsksAfter(q, 0) => Head(q).type = "syncReq" \/ AsksAfter(Tail(q), 0)
         /\ \A i \in 0..Len(Tail(q)) : AsksAfter(q, i + 1) => AsksAfter(Tail(q), i)
<1> DEFINE n == Len(q)
           r == Tail(q)
<1>1. /\ n \in Nat \ {0} /\ Head(q) = q[1] /\ Len(r) = n - 1
      /\ \A j \in 1..(n - 1) : r[j] = q[j + 1]
  BY Leaving
<1> HIDE DEF n, r
<1>2. ASSUME NEW j \in 2..n PROVE j - 1 \in 1..Len(r) /\ r[j - 1] = q[j]
  <2>1. j - 1 \in 1..(n - 1) /\ (j - 1) + 1 = j BY <1>1
  <2> QED BY <1>1, <2>1
<1>3. ASSUME NEW e, Has(q, e) PROVE e \in Head(q).text \/ Has(r, e)
  <2>1. PICK j \in 1..n : e \in q[j].text BY <1>3 DEF Has, n
  <2>2. CASE j = 1 BY <1>1, <2>1, <2>2
  <2>3. CASE j \in 2..n BY <1>2, <2>1, <2>3 DEF Has
  <2> QED BY <1>1, <2>2, <2>3
<1>4. ASSUME NEW i \in 0..Len(r), AsksAfter(q, i + 1) PROVE AsksAfter(r, i)
  <2>1. PICK j \in (i + 2)..n : q[j].type = "syncReq"
    <3>1. (i + 1) + 1 = i + 2 BY <1>1
    <3> QED BY <1>4, <3>1 DEF AsksAfter, n
  <2>2. j \in 2..n /\ j - 1 \in (i + 1)..Len(r) BY <1>1, <2>1
  <2> QED BY <1>2, <2>1, <2>2 DEF AsksAfter
<1>5. ASSUME AsksAfter(q, 0) PROVE Head(q).type = "syncReq" \/ AsksAfter(r, 0)
  <2>1. PICK j \in 1..n : q[j].type = "syncReq" BY <1>5 DEF AsksAfter, n
  <2>2. CASE j = 1 BY <1>1, <2>1, <2>2
  <2>3. CASE j \in 2..n
    <3>1. j - 1 \in (0 + 1)..Len(r) /\ r[j - 1].type = "syncReq" BY <1>2, <2>1, <2>3
    <3> QED BY <3>1 DEF AsksAfter
  <2> QED BY <1>1, <2>2, <2>3
<1> QED BY <1>3, <1>4, <1>5 DEF n, r

-----------------------------------------------------------------------------
(* No gaps: what one connected tab has, the other has, or will get, unless *)
(* a frame has missed one of the two.                                      *)

\* What u holds: its document, or the i-th of the frames that are on their way to it.
Held(u, i) == IF i = 0 THEN doc[u] ELSE down[u][i].text

\* t's request for the full state has still to be relayed.
Asks(t) == AsksAfter(up[t], 0)

\* Edit e, held by u at place i, will get to v: it is on its way from u or to v, or u
\* will be asked for all it has, e included, or one of the two will ask for it.
Coming(u, v, i, e) ==
  Has(up[u], e) \/ Has(down[v], e) \/ AsksAfter(down[u], i) \/ Asks(u) \/ Asks(v)

Passed(u, v) ==
  \A i \in 0..Len(down[u]) : \A e : e \in Held(u, i) /\ e \notin doc[v] => Coming(u, v, i, e)

\* Connected, and no frame was kept from t since.
Linked(t) == state[t] = "on" /\ ~missed[t]

\* The inductive invariant: and who is not in the room has still to ask.
NoGaps ==
  /\ \A t \in Tabs : state[t] = "on" /\ ~joined[t] => Asks(t)
  /\ \A u, v \in Tabs : Linked(u) /\ Linked(v) => Passed(u, v)

\* All that happens to t, but what the hub relays for it.
Moves(t) ==
  \/ Open(t) \/ BlobFails(t) \/ Edit(t) \/ Logout(t) \/ Drop(t) \/ Close(t)
  \/ ServeBlob(t) \/ BlobArrives(t) \/ Join(t) \/ Opened(t)
  \/ Receive(t) \/ SnapshotTimerFires(t) \/ Save(t) \/ SaveFails(t) \/ Reconnect(t)

LEMMA NextMoves == Next => \E t \in Tabs : Moves(t) \/ Turn(t)
BY DEF Next, StayingNext, Progress, Moves, Turn

\* It does nothing to the others.
Apart(w) ==
  /\ state'[w] = state[w] /\ joined'[w] = joined[w] /\ doc'[w] = doc[w]
  /\ snap'[w] = snap[w] /\ up'[w] = up[w] /\ down'[w] = down[w] /\ pend'[w] = pend[w]
  /\ missed'[w] = missed[w] /\ lost'[w] = lost[w]

LEMMA OthersApart ==
  ASSUME CollabInv, NEW t \in Tabs, NEW w \in Tabs \ {t}, Moves(t) PROVE Apart(w)
<1> USE DEF CollabInv, TypeOK, TextTypeOK, Apart, tabVars, userVars, hubVars, saveVars, textVars
<1>1. CASE Open(t) \/ BlobFails(t) \/ Logout(t)
  BY <1>1 DEF Open, BlobFails, Logout, Empty
<1>2. CASE Edit(t) BY <1>2 DEF Edit, Type, Sending
<1>3. CASE Drop(t) \/ Close(t) BY <1>3 DEF Drop, Close, Cut
<1>4. CASE ServeBlob(t) \/ Join(t) \/ Opened(t) \/ Save(t) \/ SaveFails(t) \/ Reconnect(t)
  BY <1>4 DEF ServeBlob, Join, Opened, Save, SaveFails, Reconnect
<1>5. CASE BlobArrives(t) BY <1>5 DEF BlobArrives, Apply, Learn
<1>6. CASE Receive(t) BY <1>6 DEF Receive, Apply, Learn, Sending
<1>7. CASE SnapshotTimerFires(t) BY <1>7 DEF SnapshotTimerFires, Sending
<1> QED BY <1>1, <1>2, <1>3, <1>4, <1>5, <1>6, <1>7 DEF Moves

\* Who is connected after a step that sends, receives and relays nothing was so before.
Rests(w) ==
  state'[w] = "on" =>
    /\ state[w] = "on" /\ doc'[w] = doc[w] /\ up'[w] = up[w] /\ down'[w] = down[w]
    /\ joined[w] => joined'[w]
    /\ missed'[w] = missed[w]

LEMMA RestingKeeps ==
  ASSUME NoGaps, \A w \in Tabs : Rests(w) PROVE NoGaps'
<1>1. ASSUME NEW t \in Tabs, state'[t] = "on", ~joined'[t] PROVE Asks(t)'
  BY <1>1 DEF NoGaps, Rests, Asks
<1>2. ASSUME NEW u \in Tabs, NEW v \in Tabs, Linked(u)', Linked(v)'
      PROVE  Passed(u, v)'
  <2>1. /\ Linked(u) /\ doc'[u] = doc[u] /\ up'[u] = up[u] /\ down'[u] = down[u]
        /\ Linked(v) /\ doc'[v] = doc[v] /\ up'[v] = up[v] /\ down'[v] = down[v]
    BY <1>2 DEF Rests, Linked
  <2>2. Passed(u, v) BY <2>1 DEF NoGaps
  <2> QED BY <2>1, <2>2 DEF Passed, Held, Coming, Asks
<1> QED BY <1>1, <1>2 DEF NoGaps

LEMMA RestingSteps ==
  ASSUME CollabInv, NoGaps, NEW t \in Tabs,
         \/ Open(t) \/ BlobFails(t) \/ Logout(t) \/ Drop(t) \/ Close(t)
         \/ ServeBlob(t) \/ BlobArrives(t) \/ Join(t) \/ Save(t) \/ SaveFails(t) \/ Reconnect(t)
         \/ state[t] # "on" /\ (Edit(t) \/ SnapshotTimerFires(t))
  PROVE  NoGaps'
<1>1. Rests(t)
  <2> USE DEF CollabInv, TypeOK, TextTypeOK, Rests, tabVars, userVars, hubVars, saveVars,
          textVars
  <2>1. CASE Open(t) \/ BlobFails(t) \/ Logout(t)
    BY <2>1 DEF Open, BlobFails, Logout, Empty
  <2>2. CASE Drop(t) \/ Close(t) BY <2>2 DEF Drop, Close
  <2>3. CASE ServeBlob(t) \/ Join(t) \/ Save(t) \/ SaveFails(t) \/ Reconnect(t)
    BY <2>3 DEF ServeBlob, Join, Save, SaveFails, Reconnect
  <2>4. CASE BlobArrives(t) BY <2>4 DEF BlobArrives
  <2>5. CASE state[t] # "on" /\ (Edit(t) \/ SnapshotTimerFires(t))
    BY <2>5 DEF Edit, SnapshotTimerFires
  <2> QED BY <2>1, <2>2, <2>3, <2>4, <2>5
<1>2. ASSUME NEW w \in Tabs \ {t} PROVE Rests(w)
  BY <1>2, OthersApart DEF Moves, Apart, Rests
<1>3. QED BY <1>1, <1>2, RestingKeeps

\* A frame joins those of t; what t has learned with it, the frame carries.
LEMMA SendingKeeps ==
  ASSUME CollabInv, NoGaps, NEW t \in Tabs, NEW f,
         up' = [up EXCEPT ![t] = Append(@, f)], UNCHANGED <<down, joined, missed>>,
         \A w \in Tabs \ {t} : state'[w] = state[w] /\ doc'[w] = doc[w],
         doc[t] \subseteq doc'[t], doc'[t] \subseteq doc[t] \cup f.text,
         state[t] = "on" \/ f.type = "syncReq"
  PROVE  NoGaps'
<1>1. /\ up \in [Tabs -> Seq(Frames)] /\ up'[t] = Append(up[t], f)
      /\ \A w \in Tabs \ {t} : up'[w] = up[w]
  BY DEF CollabInv, TypeOK
<1>2. /\ \A e : Has(up[t], e) \/ e \in f.text => Has(up'[t], e)
      /\ AsksAfter(up[t], 0) \/ f.type = "syncReq" => AsksAfter(up'[t], 0)
  BY <1>1, JoiningSays
<1>3. \A w \in Tabs : Asks(w) => Asks(w)' BY <1>1, <1>2 DEF Asks
<1>4. f.type = "syncReq" => Asks(t)' BY <1>2 DEF Asks
<1>5. ASSUME NEW w \in Tabs, state'[w] = "on", ~joined'[w] PROVE Asks(w)'
  BY <1>3, <1>4, <1>5 DEF NoGaps
<1>6. ASSUME NEW u \in Tabs, NEW v \in Tabs, Linked(u)', Linked(v)',
             NEW i \in 0..Len(down'[u]), NEW e, e \in Held(u, i)', e \notin doc'[v]
      PROVE  Coming(u, v, i, e)'
  <2>1. CASE f.type = "syncReq" /\ t \in {u, v} BY <1>4, <2>1 DEF Coming
  <2>2. CASE ~(f.type = "syncReq" /\ t \in {u, v})
    <3>1. Linked(u) /\ Linked(v) BY <1>6, <2>2 DEF Linked
    <3>2. i \in 0..Len(down[u]) /\ e \notin doc[v] BY <1>6
    <3>3. CASE e \in Held(u, i)
      <4>1. Coming(u, v, i, e) BY <3>1, <3>2, <3>3 DEF NoGaps, Passed
      <4>2. Has(up[u], e) => Has(up'[u], e) BY <1>1, <1>2
      <4> QED BY <1>3, <4>1, <4>2 DEF Coming
    <3>4. CASE e \notin Held(u, i)
      <4>1. u = t /\ e \in f.text BY <1>6, <3>4 DEF Held
      <4> QED BY <1>2, <4>1 DEF Coming
    <3> QED BY <3>3, <3>4
  <2> QED BY <2>1, <2>2
<1> QED BY <1>5, <1>6 DEF NoGaps, Passed

LEMMA SendingSteps ==
  ASSUME CollabInv, NoGaps, NEW t \in Tabs,
         \/ Opened(t)
         \/ state[t] = "on" /\ (Edit(t) \/ SnapshotTimerFires(t))
  PROVE  NoGaps'
<1> USE DEF CollabInv, TypeOK, TextTypeOK, userVars
<1>1. CASE Opened(t) BY <1>1, SendingKeeps DEF Opened, SyncReq
<1>2. CASE state[t] = "on" /\ Edit(t)
  <2>1. PICK e \in EditsOf(t) : Type(t, e) /\ up' = Sending(t, Update({e}))
    BY <1>2 DEF Edit
  <2>2. /\ doc' = [doc EXCEPT ![t] = @ \cup {e}]
        /\ up' = [up EXCEPT ![t] = Append(@, Update({e}))]
    BY <1>2, <2>1 DEF Type, Sending
  <2>3. doc'[t] = doc[t] \cup Update({e}).text BY <2>2 DEF Update
  <2> QED BY <1>2, <2>2, <2>3, SendingKeeps DEF Edit
<1>3. CASE state[t] = "on" /\ SnapshotTimerFires(t)
  BY <1>3, SendingKeeps DEF SnapshotTimerFires, Sending
<1> QED BY <1>1, <1>2, <1>3

\* What a received frame carries moves on into the document, and a request is answered
\* with all the document has.
LEMMA ReceivingKeeps ==
  ASSUME CollabInv, NoGaps, NEW t \in Tabs, Receive(t) PROVE NoGaps'
<1> DEFINE f == Head(down[t])
<1>1. /\ up \in [Tabs -> Seq(Frames)] /\ down \in [Tabs -> Seq(Frames)]
      /\ doc \in [Tabs -> SUBSET made]
  BY DEF CollabInv, TypeOK, TextTypeOK
<1>2. /\ down[t] \in Seq(Frames) /\ down[t] # <<>> /\ down'[t] = Tail(down[t])
      /\ \A w \in Tabs \ {t} : down'[w] = down[w]
      /\ UNCHANGED <<state, joined, missed>>
  BY <1>1 DEF Receive
<1>3. f \in Frames BY <1>2
<1>4. f.type = "syncReq" =>
        f.text = {} /\ up'[t] = Append(up[t], SyncRes(doc[t])) /\ UNCHANGED doc
  BY <1>1, <1>3 DEF Receive, Sending, Frames, textVars
<1>5. f.type # "syncReq" => UNCHANGED up BY DEF Receive
<1>6. doc'[t] = doc[t] \cup f.text /\ \A w \in Tabs \ {t} : doc'[w] = doc[w]
  BY <1>1, <1>4 DEF Receive, Apply, Learn
<1>7. \A w \in Tabs \ {t} : up'[w] = up[w] BY <1>1, <1>5 DEF Receive, Sending
<1> HIDE DEF f
<1>8. ASSUME NEW w \in Tabs
      PROVE  /\ Asks(w) => Asks(w)'
             /\ \A e : Has(up[w], e) => Has(up'[w], e)
  <2>1. up[w] \in Seq(Frames) BY <1>1
  <2>2. CASE up'[w] = up[w] BY <2>2 DEF Asks
  <2>3. CASE up'[w] = Append(up[w], SyncRes(doc[t]))
    <3>1. Len(up[w]) \in Nat BY <2>1
    <3>2. 0 \in 0..Len(up[w]) BY <3>1
    <3> QED BY <2>1, <2>3, <3>2, JoiningSays DEF Asks
  <2> QED BY <1>4, <1>5, <1>7, <2>2, <2>3
<1>9. f.type = "syncReq" => \A e \in doc[t] : Has(up'[t], e)
  <2>1. up[t] \in Seq(Frames) BY <1>1
  <2>2. \A e : e \in SyncRes(doc[t]).text => Has(Append(up[t], SyncRes(doc[t])), e)
    BY <2>1, JoiningSays
  <2>3. SyncRes(doc[t]).text = doc[t] BY DEF SyncRes
  <2> QED BY <1>4, <2>2, <2>3
<1>10. /\ Len(down[t]) \in Nat \ {0} /\ f = down[t][1] /\ Len(down'[t]) = Len(down[t]) - 1
       /\ \A j \in 1..(Len(down[t]) - 1) : down'[t][j] = down[t][j + 1]
  BY <1>2, Leaving DEF f
<1>11. /\ \A e : Has(down[t], e) => e \in f.text \/ Has(down'[t], e)
       /\ AsksAfter(down[t], 0) => f.type = "syncReq" \/ AsksAfter(down'[t], 0)
       /\ \A i \in 0..Len(down'[t]) : AsksAfter(down[t], i + 1) => AsksAfter(down'[t], i)
  BY <1>2, LeavingSays DEF f
<1>12. ASSUME NEW w \in Tabs, state'[w] = "on", ~joined'[w] PROVE Asks(w)'
  BY <1>2, <1>8, <1>12 DEF NoGaps
<1>13. ASSUME NEW u \in Tabs, NEW v \in Tabs, Linked(u)', Linked(v)',
              NEW i \in 0..Len(down'[u]), NEW e, e \in Held(u, i)', e \notin doc'[v]
       PROVE  Coming(u, v, i, e)'
  <2>1. Passed(u, v) /\ e \notin doc[v] BY <1>2, <1>6, <1>13 DEF NoGaps, Linked
  <2>2. Has(down[v], e) => Has(down'[v], e) BY <1>2, <1>6, <1>11, <1>13
  <2>3. PICK k \in 0..Len(down[u]) :
          /\ e \in Held(u, k)
          /\ AsksAfter(down[u], k) => AsksAfter(down'[u], i) \/ Has(up'[u], e)
    <3>1. CASE u # t
      <4>1. i \in 0..Len(down[u]) /\ e \in Held(u, i) BY <1>2, <1>6, <1>13, <3>1 DEF Held
      <4> QED BY <1>2, <3>1, <4>1
    <3>2. CASE u = t /\ i = 0 /\ e \in doc[t]
      <4>1. 0 \in 0..Len(down[u]) /\ e \in Held(u, 0) BY <1>10, <3>2 DEF Held
      <4> QED BY <1>9, <1>11, <3>2, <4>1
    <3>3. CASE u = t /\ i = 0 /\ e \notin doc[t]
      <4>1. e \in f.text BY <1>6, <1>13, <3>3 DEF Held
      <4>2. 1 \in 0..Len(down[u]) /\ e \in Held(u, 1) BY <1>10, <3>3, <4>1 DEF Held
      <4>3. AsksAfter(down[t], 0 + 1) => AsksAfter(down'[t], 0) BY <1>11, <1>13, <3>3
      <4> QED BY <3>3, <4>2, <4>3
    <3>4. CASE u = t /\ i # 0
      <4>1. i + 1 \in 0..Len(down[u]) /\ i \in 1..(Len(down[t]) - 1)
        BY <1>10, <1>13, <3>4
      <4>2. e \in down[t][i + 1].text BY <1>10, <1>13, <3>4, <4>1 DEF Held
      <4>3. e \in Held(u, i + 1) BY <3>4, <4>1, <4>2 DEF Held
      <4> QED BY <1>11, <1>13, <3>4, <4>1, <4>3
    <3> QED BY <3>1, <3>2, <3>3, <3>4
  <2>4. Coming(u, v, k, e) BY <2>1, <2>3 DEF Passed
  <2> QED BY <1>8, <2>2, <2>3, <2>4 DEF Coming
<1> QED BY <1>12, <1>13 DEF NoGaps, Passed

\* Frame f, relayed, may come behind what is on its way to w: it does if w is in the room
\* and needs it, unless it misses w.
Delivers(w, f) ==
  /\ Len(down[w]) \in Nat
  /\ Len(down'[w]) \in {Len(down[w]), Len(down[w]) + 1}
  /\ \A j \in 1..Len(down[w]) : down'[w][j] = down[w][j]
  /\ \A j \in (Len(down[w]) + 1)..Len(down'[w]) : down'[w][j] = f
  /\ \A e : Has(down[w], e) => Has(down'[w], e)
  /\ \A i \in 0..Len(down[w]) :
       AsksAfter(down[w], i) \/ (joined[w] /\ ~missed'[w] /\ f.type = "syncReq") =>
         AsksAfter(down'[w], i)
  /\ \A e : e \in f.text /\ e \notin doc[w] /\ joined[w] /\ ~missed'[w] => Has(down'[w], e)
  /\ missed[w] => missed'[w]

LEMMA TurnDelivers ==
  ASSUME CollabInv, NEW t \in Tabs, Turn(t), NEW w \in Tabs
  PROVE  Delivers(w, Head(up[t]))
<1> DEFINE f == Head(up[t])
<1>1. down \in [Tabs -> Seq(Frames)] BY DEF CollabInv, TypeOK
<1>2. PICK full \in SUBSET Reached(f) :
        /\ down' = Delivered(f, Reached(f) \ full)
        /\ \A e \in Tabs : missed'[e] <=> missed[e] \/ e \in full
  BY TurnSays DEF CollabInv
<1>3. down'[w] = IF w \in Reached(f) \ full THEN Append(down[w], f) ELSE down[w]
  BY <1>2 DEF Delivered
<1>4. missed'[w] <=> missed[w] \/ w \in full BY <1>2
<1> HIDE DEF f
<1> SUFFICES Delivers(w, f) BY DEF f
<1>5. down[w] \in Seq(Frames) BY <1>1
<1>6. CASE w \in Reached(f) \ full
  <2>1. down'[w] = Append(down[w], f) BY <1>3, <1>6
  <2>2. /\ Len(down[w]) \in Nat /\ Len(down'[w]) = Len(down[w]) + 1
        /\ \A j \in 1..Len(down[w]) : down'[w][j] = down[w][j]
        /\ down'[w][Len(down[w]) + 1] = f
    BY <1>5, <2>1, Joining
  <2>3. \A j \in (Len(down[w]) + 1)..Len(down'[w]) : j = Len(down[w]) + 1 BY <2>2
  <2>4. /\ \A e : Has(down[w], e) \/ e \in f.text => Has(down'[w], e)
        /\ \A i \in 0..Len(down[w]) :
             AsksAfter(down[w], i) \/ f.type = "syncReq" => AsksAfter(down'[w], i)
    BY <1>5, <2>1, JoiningSays
  <2> QED BY <1>4, <2>2, <2>3, <2>4 DEF Delivers
<1>7. CASE w \notin Reached(f) \ full
  <2>1. down'[w] = down[w] /\ Len(down[w]) \in Nat BY <1>3, <1>5, <1>7
  <2>2. \A j \in (Len(down[w]) + 1)..Len(down[w]) : FALSE BY <2>1
  <2>3. joined[w] /\ ~missed'[w] => f.type # "syncReq" /\ f.text \subseteq doc[w]
    BY <1>4, <1>7 DEF Reached, Reaches
  <2> QED BY <1>4, <2>1, <2>2, <2>3 DEF Delivers
<1> QED BY <1>6, <1>7

\* A relayed frame is on its way to whoever is in the room and needs it; the others
\* have still to ask, or it has missed them.
LEMMA RelayingKeeps ==
  ASSUME CollabInv, NoGaps, NEW t \in Tabs, Turn(t) PROVE NoGaps'
<1> DEFINE f == Head(up[t])
<1>1. /\ up \in [Tabs -> Seq(Frames)] /\ down \in [Tabs -> Seq(Frames)]
  BY DEF CollabInv, TypeOK
<1>2. /\ up[t] \in Seq(Frames) /\ up[t] # <<>> /\ up'[t] = Tail(up[t]) /\ joined[t]
      /\ \A w \in Tabs \ {t} : up'[w] = up[w]
      /\ UNCHANGED <<state, doc, joined>>
  BY <1>1, TurnSays DEF CollabInv, tabVars
<1>3. f \in Frames BY <1>2
<1>4. f.type = "syncReq" => f.text = {} BY <1>3 DEF Frames
<1> HIDE DEF f
<1>5. /\ \A e : Has(up[t], e) => e \in f.text \/ Has(up'[t], e)
      /\ Asks(t) => f.type = "syncReq" \/ Asks(t)'
  BY <1>2, LeavingSays DEF f, Asks
<1>6. \A w \in Tabs \ {t} : Asks(w) => Asks(w)' BY <1>2 DEF Asks
<1>7. ASSUME NEW w \in Tabs
      PROVE  /\ Len(down[w]) \in Nat
             /\ Len(down'[w]) \in {Len(down[w]), Len(down[w]) + 1}
             /\ \A j \in 1..Len(down[w]) : down'[w][j] = down[w][j]
             /\ \A j \in (Len(down[w]) + 1)..Len(down'[w]) : down'[w][j] = f
             /\ \A e : Has(down[w], e) => Has(down'[w], e)
             /\ \A i \in 0..Len(down[w]) :
                  AsksAfter(down[w], i) \/ (joined[w] /\ ~missed'[w] /\ f.type = "syncReq") =>
                    AsksAfter(down'[w], i)
             /\ \A e : e \in f.text /\ e \notin doc[w] /\ joined[w] /\ ~missed'[w] =>
                  Has(down'[w], e)
             /\ missed[w] => missed'[w]
  BY TurnDelivers DEF Delivers, f
<1>8. ASSUME NEW w \in Tabs, state'[w] = "on", ~joined'[w] PROVE w # t /\ Asks(w)'
  BY <1>2, <1>6, <1>8 DEF NoGaps
<1>9. ASSUME NEW u \in Tabs, NEW v \in Tabs, Linked(u)', Linked(v)',
             NEW i \in 0..Len(down'[u]), NEW e, e \in Held(u, i)', e \notin doc'[v]
      PROVE  Coming(u, v, i, e)'
  <2>0. state'[u] = "on" /\ state'[v] = "on" /\ ~missed'[u] /\ ~missed'[v]
    BY <1>9 DEF Linked
  <2>1. Passed(u, v) /\ e \notin doc[v] BY <1>2, <1>7, <1>9, <2>0 DEF NoGaps, Linked
  <2>2. e \in f.text => Coming(u, v, i, e)'
    <3>1. CASE joined[v] BY <1>7, <2>0, <2>1, <3>1 DEF Coming
    <3>2. CASE ~joined[v] BY <1>2, <1>8, <2>0, <3>2 DEF Coming
    <3> QED BY <3>1, <3>2
  <2>3. CASE i \in 0..Len(down[u])
    <3>1. e \in Held(u, i)
      <4>1. CASE i = 0 BY <1>2, <1>9, <4>1 DEF Held
      <4>2. CASE i \in 1..Len(down[u]) BY <1>7, <1>9, <4>2 DEF Held
      <4> QED BY <1>7, <2>3, <4>1, <4>2
    <3>2. Coming(u, v, i, e) BY <2>1, <2>3, <3>1 DEF Passed
    <3>3. Has(up[u], e) => e \in f.text \/ Has(up'[u], e) BY <1>2, <1>5
    <3>4. Has(down[v], e) => Has(down'[v], e) BY <1>7
    <3>5. /\ AsksAfter(down[u], i) => AsksAfter(down'[u], i)
          /\ joined[u] /\ f.type = "syncReq" => AsksAfter(down'[u], i)
      <4>1. \A k \in 0..Len(down[u]) :
              AsksAfter(down[u], k) \/ (joined[u] /\ f.type = "syncReq") =>
                AsksAfter(down'[u], k)
        BY <1>7, <2>0
      <4> QED BY <2>3, <4>1
    <3>6. Asks(u) => Asks(u)' \/ AsksAfter(down'[u], i)
      BY <1>2, <1>5, <1>6, <3>5
    <3>7. Asks(v) => Asks(v)' \/ Asks(u)' \/ AsksAfter(down'[u], i)
      <4>1. CASE v # t BY <1>6, <4>1
      <4>2. CASE v = t /\ joined[u] BY <1>5, <3>5, <4>2
      <4>3. CASE v = t /\ ~joined[u] BY <1>2, <1>8, <2>0, <4>3
      <4> QED BY <4>1, <4>2, <4>3
    <3> QED BY <2>2, <3>2, <3>3, <3>4, <3>5, <3>6, <3>7 DEF Coming
  <2>4. CASE i \notin 0..Len(down[u])
    <3>1. i \in (Len(down[u]) + 1)..Len(down'[u]) /\ i # 0 BY <1>7, <1>9, <2>4
    <3>2. e \in f.text BY <1>7, <1>9, <3>1 DEF Held
    <3> QED BY <2>2, <3>2
  <2> QED BY <2>3, <2>4
<1> QED BY <1>8, <1>9 DEF NoGaps, Passed

LEMMA NoGapsStep == ASSUME CollabInv, NoGaps, [Next]_vars PROVE NoGaps'
<1>1. CASE UNCHANGED vars
  BY <1>1, RestingKeeps DEF vars, tabVars, hubVars, saveVars, Rests
<1>2. CASE Next
  BY <1>2, NextMoves, RestingSteps, SendingSteps, ReceivingKeeps, RelayingKeeps DEF Moves
<1> QED BY <1>1, <1>2

LEMMA NoGapsInit == Init => NoGaps
BY DEF Init, NoGaps, Linked

\* A gap between tabs with nothing on their way would have to be filled by a frame.
LEMMA NoGapsSays == CollabInv /\ NoGaps => IdleTabsAgree
<1> SUFFICES ASSUME CollabInv, NoGaps, NEW u \in Tabs, NEW v \in Tabs,
                    Linked(u), Linked(v), Idle(u), Idle(v)
             PROVE  doc[u] \subseteq doc[v]
  BY DEF IdleTabsAgree, Linked
<1>1. /\ up[u] = <<>> /\ up[v] = <<>> /\ down[u] = <<>> /\ down[v] = <<>> BY DEF Idle
<1>2. \A e, i : ~Has(<<>>, e) /\ (i \in 0..0 => ~AsksAfter(<<>>, i)) BY DEF Has, AsksAfter
<1>3. ASSUME NEW e \in doc[u], e \notin doc[v] PROVE FALSE
  <2>1. 0 \in 0..Len(down[u]) /\ e \in Held(u, 0) BY <1>1, <1>3 DEF Held
  <2>2. Coming(u, v, 0, e) BY <1>3, <2>1 DEF NoGaps, Passed
  <2> QED BY <1>1, <1>2, <2>2 DEF Coming, Asks
<1> QED BY <1>3

\* No tab is left with a gap that nothing will fill: connected tabs with nothing on
\* their way agree, whatever connections broke, and whoever came and went, unless a full
\* buffer kept a frame from one of them since it connected.
THEOREM IdleAgree == Spec => []IdleTabsAgree
<1>1. CollabInv /\ NoGaps /\ [Next]_vars => NoGaps' BY NoGapsStep
<1>2. Spec => []NoGaps BY <1>1, NoGapsInit, CollabHolds, PTL DEF Spec
<1>3. QED BY <1>2, NoGapsSays, CollabHolds, PTL

-----------------------------------------------------------------------------
(* What is stored.                                                         *)

\* Stored, text S is as good as the document of t: only edits that are kept back may
\* be missing.
Current(S, t) == Integrated(doc[t]) \subseteq S /\ S \subseteq doc[t]

\* The snapshots in queue q, and that later ones hold what earlier ones held.
Snapshots(q) == {q[j].text : j \in {k \in 1..Len(q) : q[k].type = "syncRes"}}
Nested(q) ==
  \A i, j \in 1..Len(q) :
    i < j /\ q[i].type = "syncRes" /\ q[j].type = "syncRes" => q[i].text \subseteq q[j].text

LEMMA EmptyHasNone == Snapshots(<<>>) = {} /\ Nested(<<>>)
BY DEF Snapshots, Nested

LEMMA JoiningSnapshot ==
  ASSUME NEW F, NEW q \in Seq(F), NEW f
  PROVE  /\ Snapshots(q) \subseteq Snapshots(Append(q, f))
         /\ \A s \in Snapshots(Append(q, f)) :
              s \in Snapshots(q) \/ (s = f.text /\ f.type = "syncRes")
         /\ f.type = "syncRes" => f.text \in Snapshots(Append(q, f))
         /\ Nested(q) /\ (f.type = "syncRes" => \A s \in Snapshots(q) : s \subseteq f.text) =>
              Nested(Append(q, f))
<1> DEFINE n == Len(q)
           r == Append(q, f)
<1>1. /\ n \in Nat /\ Len(r) = n + 1 /\ r[n + 1] = f
      /\ \A j \in 1..n : r[j] = q[j]
  BY Joining
<1> HIDE DEF n, r
<1>2. \A j \in 1..n : j \in 1..Len(r) /\ r[j] = q[j] BY <1>1
<1>3. \A j \in 1..Len(r) : j \in 1..n \/ (j = n + 1 /\ r[j] = f) BY <1>1
<1>4. n + 1 \in 1..Len(r) BY <1>1
<1>5. Snapshots(q) \subseteq Snapshots(r) BY <1>2 DEF Snapshots, n
<1>6. ASSUME NEW s \in Snapshots(r)
      PROVE  s \in Snapshots(q) \/ (s = f.text /\ f.type = "syncRes")
  <2>1. PICK j \in 1..Len(r) : r[j].type = "syncRes" /\ s = r[j].text BY <1>6 DEF Snapshots
  <2>2. CASE j \in 1..n BY <1>2, <2>1, <2>2 DEF Snapshots, n
  <2> QED BY <1>3, <2>1, <2>2
<1>7. f.type = "syncRes" => f.text \in Snapshots(r) BY <1>1, <1>4 DEF Snapshots
<1>8. ASSUME Nested(q), f.type = "syncRes" => \A s \in Snapshots(q) : s \subseteq f.text
      PROVE  Nested(r)
  <2> SUFFICES ASSUME NEW i \in 1..Len(r), NEW j \in 1..Len(r), i < j,
                      r[i].type = "syncRes", r[j].type = "syncRes"
               PROVE  r[i].text \subseteq r[j].text
    BY DEF Nested
  <2>1. i \in 1..n /\ r[i] = q[i] BY <1>1
  <2>2. CASE j \in 1..n
    <3>1. r[j] = q[j] BY <1>1, <2>2
    <3> QED BY <1>8, <2>1, <2>2, <3>1 DEF Nested, n
  <2>3. CASE r[j] = f
    <3>1. q[i].text \in Snapshots(q) BY <2>1 DEF Snapshots, n
    <3> QED BY <1>8, <2>1, <2>3, <3>1
  <2> QED BY <1>3, <2>2, <2>3
<1> QED BY <1>5, <1>6, <1>7, <1>8 DEF r

LEMMA LeavingSnapshot ==
  ASSUME NEW F, NEW q \in Seq(F), q # <<>>
  PROVE  /\ Snapshots(Tail(q)) \subseteq Snapshots(q)
         /\ \A s \in Snapshots(q) :
              s \in Snapshots(Tail(q)) \/ (s = Head(q).text /\ Head(q).type = "syncRes")
         /\ Head(q).type = "syncRes" => Head(q).text \in Snapshots(q)
         /\ Nested(q) => Nested(Tail(q))
         /\ Nested(q) /\ Head(q).type = "syncRes" =>
              \A s \in Snapshots(Tail(q)) : Head(q).text \subseteq s
<1> DEFINE n == Len(q)
           r == Tail(q)
           f == Head(q)
<1>1. /\ n \in Nat \ {0} /\ f = q[1] /\ Len(r) = n - 1
      /\ \A j \in 1..(n - 1) : r[j] = q[j + 1]
  BY Leaving
<1> HIDE DEF n, r, f
<1>2. \A j \in 1..Len(r) : j + 1 \in 1..n /\ 1 < j + 1 /\ r[j] = q[j + 1] BY <1>1
<1>3. ASSUME NEW j \in 1..n PROVE (j = 1 /\ q[j] = f) \/ \E i \in 1..Len(r) : r[i] = q[j]
  <2>1. CASE j = 1 BY <1>1, <2>1
  <2>2. CASE j # 1
    <3>1. j - 1 \in 1..(n - 1) /\ (j - 1) + 1 = j BY <1>1, <2>2
    <3> QED BY <1>1, <3>1
  <2> QED BY <2>1, <2>2
<1>4. 1 \in 1..n BY <1>1
<1>5. Snapshots(r) \subseteq Snapshots(q)
  <2> SUFFICES ASSUME NEW s \in Snapshots(r) PROVE s \in Snapshots(q) OBVIOUS
  <2>1. PICK j \in 1..Len(r) : r[j].type = "syncRes" /\ s = r[j].text BY DEF Snapshots
  <2> QED BY <1>2, <2>1 DEF Snapshots, n
<1>6. ASSUME NEW s \in Snapshots(q)
      PROVE  s \in Snapshots(r) \/ (s = f.text /\ f.type = "syncRes")
  <2>1. PICK j \in 1..n : q[j].type = "syncRes" /\ s = q[j].text BY <1>6 DEF Snapshots, n
  <2>2. CASE \E i \in 1..Len(r) : r[i] = q[j] BY <2>1, <2>2 DEF Snapshots
  <2> QED BY <1>3, <2>1, <2>2
<1>7. f.type = "syncRes" => f.text \in Snapshots(q) BY <1>1, <1>4 DEF Snapshots, n
<1>8. ASSUME Nested(q) PROVE Nested(r)
  <2> SUFFICES ASSUME NEW i \in 1..Len(r), NEW j \in 1..Len(r), i < j,
                      r[i].type = "syncRes", r[j].type = "syncRes"
               PROVE  r[i].text \subseteq r[j].text
    BY DEF Nested
  <2>1. /\ i + 1 \in 1..n /\ r[i] = q[i + 1] /\ j + 1 \in 1..n /\ r[j] = q[j + 1]
        /\ i + 1 < j + 1
    BY <1>1, <1>2
  <2> QED BY <1>8, <2>1 DEF Nested, n
<1>9. ASSUME Nested(q), f.type = "syncRes", NEW s \in Snapshots(r) PROVE f.text \subseteq s
  <2>1. PICK j \in 1..Len(r) : r[j].type = "syncRes" /\ s = r[j].text
    BY <1>9 DEF Snapshots
  <2>2. j + 1 \in 1..n /\ 1 < j + 1 /\ r[j] = q[j + 1] BY <1>2
  <2> QED BY <1>1, <1>4, <1>9, <2>1, <2>2 DEF Nested, n
<1> QED BY <1>5, <1>6, <1>7, <1>8, <1>9 DEF r, f

\* The newest of the snapshots that wait to be stored, if any waits.
Newest(q) == IF q = <<>> THEN {} ELSE {q[Len(q)]}

LEMMA NewestSays ==
  ASSUME NEW S, NEW q \in Seq(S)
  PROVE  /\ Newest(<<>>) = {}
         /\ \A s : Newest(Append(q, s)) = {s}
         /\ \A n \in 1..Len(q) : n < Len(q) => Newest(Rest(q, n)) = Newest(q)
         /\ \A n \in 1..Len(q) : n = Len(q) => Newest(Rest(q, n)) = {} /\ Newest(q) = {q[n]}
<1>1. ASSUME NEW s PROVE Newest(Append(q, s)) = {s}
  <2>1. Append(q, s) # <<>> /\ Append(q, s)[Len(q) + 1] = s /\ Len(Append(q, s)) = Len(q) + 1
    OBVIOUS
  <2> QED BY <2>1 DEF Newest
<1>2. ASSUME NEW n \in 1..Len(q), n < Len(q) PROVE Newest(Rest(q, n)) = Newest(q)
  <2> DEFINE m == Len(q)
  <2>1. m \in Nat /\ n \in 1..m /\ n < m /\ q # <<>> BY <1>2
  <2>2. n + 1 \in 1..m + 1 /\ m - n \in 1..m - (n + 1) + 1 /\ (n + 1) + (m - n) - 1 = m
    BY <2>1
  <2>3. /\ Len(SubSeq(q, n + 1, m)) = m - (n + 1) + 1
        /\ SubSeq(q, n + 1, m)[m - n] = q[(n + 1) + (m - n) - 1]
    BY <2>1, <2>2, SubSeqProperties
  <2>4. Len(Rest(q, n)) = m - n /\ Rest(q, n)[m - n] = q[m] BY <2>1, <2>2, <2>3 DEF Rest
  <2>5. Rest(q, n) # <<>> BY <2>1, <2>4
  <2> QED BY <2>1, <2>4, <2>5 DEF Newest
<1>3. ASSUME NEW n \in 1..Len(q), n = Len(q) PROVE Rest(q, n) = <<>> /\ q # <<>>
  BY <1>3 DEF Rest
<1> QED BY <1>1, <1>2, <1>3 DEF Newest

\* t's document, or a part that is as good, will be stored: t will be asked for it, or
\* a timer is set, or a snapshot is on its way, or waits to be stored.
WillSave(t) ==
  \/ Asks(t) \/ AsksAfter(down[t], 0)
  \/ snap[t]
  \/ \E s \in Snapshots(up[t]) \cup Newest(pend[t]) : Current(s, t)

\* Unless a frame, maybe t's own request, has missed t.
Sure(t) == WillSave(t) \/ missed[t]

\* Who is not connected sends and stores nothing; who has not opened the document has none.
OffIsClear ==
  \A t \in Tabs :
    /\ state[t] # "on" => up[t] = <<>> /\ pend[t] = <<>>
    /\ state[t] = "new" => doc[t] = {}

\* Later snapshots hold more.
Growing ==
  \A t \in Tabs :
    /\ Nested(up[t])
    /\ \A s \in Snapshots(up[t]) \cup Newest(pend[t]) : s \subseteq doc[t]
    /\ \A p \in Newest(pend[t]) : \A s \in Snapshots(up[t]) : p \subseteq s

\* No snapshot is the last unless it is as good as the document, or a later one was lost.
LastIsCurrent ==
  \A t \in Tabs :
    state[t] = "on" => /\ Snapshots(up[t]) # {} => Sure(t)
                       /\ Newest(pend[t]) # {} => Sure(t) \/ lost[t]

\* Connected, t has saved, or will, or its last snapshot was lost.
Safe(t) == state[t] = "on" => Sure(t) \/ lost[t] \/ Current(store, t)

\* As long as nobody has saved, all will; and then the one that saved last is safe, or
\* has lost its connection, and will ask for the document when it is back, or has left.
Savers == {t \in Tabs : state[t] \in {"connecting", "on", "lost", "left"}}
SomeoneSafe ==
  \/ \A t \in Tabs : state[t] = "on" => Sure(t) \/ lost[t]
  \/ \E t \in Savers : Safe(t)

\* The stored text stands behind nothing.
BaseIsFirst == past[Base].needs = {}

\* The inductive invariant.
Saving == OffIsClear /\ Growing /\ LastIsCurrent /\ SomeoneSafe /\ BaseIsFirst

LEMMA SavingInit == Init => Saving
<1> SUFFICES ASSUME Init PROVE Saving OBVIOUS
<1>1. \A t \in Tabs : state[t] = "new" /\ up[t] = <<>> /\ pend[t] = <<>> /\ doc[t] = {}
  BY DEF Init, TextInit
<1>2. \A t \in Tabs : Snapshots(up[t]) = {} /\ Nested(up[t]) /\ Newest(pend[t]) = {}
  BY <1>1, EmptyHasNone DEF Newest
<1>3. BaseIsFirst BY DEF Init, TextInit, BaseIsFirst, Edits
<1> QED BY <1>1, <1>2, <1>3 DEF Saving, OffIsClear, Growing, LastIsCurrent, SomeoneSafe

\* Steps that change a document without setting the timer leave what t has integrated.
Learns(t) ==
  /\ doc[t] \subseteq doc'[t]
  /\ snap'[t] \/ Integrated(doc[t])' = Integrated(doc[t])

LEMMA PastKept ==
  ASSUME CollabInv, NEW t \in Tabs, NEW e \in EditsOf(t), Type(t, e)
  PROVE  \A D \in SUBSET made : {x \in D : past'[x].needs \subseteq D} = Integrated(D)
<1>1. \A d \in made : past'[d] = past[d] BY TypeSays DEF CollabInv
<1> QED BY <1>1 DEF Integrated

LEMMA DocumentsKept ==
  ASSUME CollabInv, NEW t \in Tabs, NEW w \in Tabs, Moves(t) \/ Turn(t) PROVE Learns(w)
<1> USE DEF Learns
<1>1. /\ doc \in [Tabs -> SUBSET made] /\ doc[w] \in SUBSET made /\ snap \in [Tabs -> BOOLEAN]
  BY DEF CollabInv, TypeOK, TextTypeOK
<1>2. CASE UNCHANGED <<doc, past>> BY <1>2 DEF Integrated
<1>3. CASE Edit(t)
  <2>1. PICK e \in EditsOf(t) : Type(t, e) BY <1>3 DEF Edit
  <2>2. CASE w = t
    <3>1. snap'[w] BY <1>1, <1>3, <2>2 DEF Edit
    <3>2. doc[w] \subseteq doc'[w] BY <1>1, <2>1, <2>2 DEF Type
    <3> QED BY <3>1, <3>2
  <2>3. CASE w # t
    <3>1. doc'[w] = doc[w] BY <1>1, <2>1, <2>3 DEF Type
    <3>2. Integrated(doc[w])' = {x \in doc[w] : past'[x].needs \subseteq doc[w]}
      BY <3>1 DEF Integrated
    <3> QED BY <1>1, <2>1, <3>1, <3>2, PastKept
  <2> QED BY <2>2, <2>3
<1>4. ASSUME NEW es, NEW shows, Apply(t, es, shows) PROVE Learns(w)
  <2>1. past' = past /\ doc' = [doc EXCEPT ![t] = @ \cup es] BY <1>4 DEF Apply, Learn
  <2>2. CASE w = t
    <3>1. doc'[w] = doc[w] \cup es BY <1>1, <2>1, <2>2
    <3>2. Integrated(doc[w])' = Integrated(doc[w] \cup es) BY <2>1, <3>1 DEF Integrated
    <3>3. Changes(t, es) => snap'[w] BY <1>1, <1>4, <2>2 DEF Apply
    <3>4. ~Changes(t, es) => Integrated(doc[w] \cup es) = Integrated(doc[w])
      BY <2>2 DEF Changes
    <3> QED BY <3>1, <3>2, <3>3, <3>4
  <2>3. CASE w # t
    <3>1. doc'[w] = doc[w] BY <1>1, <2>1, <2>3
    <3> QED BY <2>1, <3>1 DEF Integrated
  <2> QED BY <2>2, <2>3
<1>5. CASE Receive(t) BY <1>2, <1>4, <1>5 DEF Receive, textVars
<1>6. CASE BlobArrives(t) BY <1>4, <1>6 DEF BlobArrives
<1>7. CASE Open(t) \/ ServeBlob(t) \/ Join(t) \/ Opened(t) \/ Save(t) \/ SaveFails(t)
             \/ Reconnect(t)
  BY <1>2, <1>7 DEF Open, ServeBlob, Join, Opened, Save, SaveFails, Reconnect, userVars,
                         tabVars
<1>8. CASE BlobFails(t) \/ Logout(t) BY <1>2, <1>8 DEF BlobFails, Logout, Empty
<1>9. CASE Drop(t) \/ Close(t) BY <1>2, <1>9 DEF Drop, Close, textVars
<1>10. CASE SnapshotTimerFires(t)
  BY <1>2, <1>10 DEF SnapshotTimerFires, userVars
<1>11. CASE Turn(t)
  BY <1>2, <1>11, TurnSays DEF tabVars, CollabInv
<1> QED BY <1>3, <1>5, <1>6, <1>7, <1>8, <1>9, <1>10, <1>11 DEF Moves

\* What is as good as the document stays so until the timer is set.
LEMMA CurrentKept ==
  ASSUME NEW t \in Tabs, Learns(t)
  PROVE  \A S : Current(S, t) => snap'[t] \/ Current(S, t)'
BY DEF Learns, Current

\* What a step does to the snapshots of w.  Its own saves aside, what was lost stays lost
\* until a newer one is queued.
Frees(w) ==
  /\ up'[w] = up[w] /\ Newest(pend'[w]) \in {Newest(pend[w]), {}}
  /\ lost[w] => lost'[w]
Sends(w) ==
  /\ \E f : up'[w] = Append(up[w], f) /\ (f.type = "syncRes" => f.text = doc[w])
  /\ pend'[w] = pend[w] /\ lost'[w] = lost[w]
Cleared(w) == up'[w] = <<>> /\ pend'[w] = <<>> /\ state'[w] # "on"
Hands(w, f) ==
  /\ up[w] # <<>> /\ f = Head(up[w]) /\ up'[w] = Tail(up[w])
  /\ \/ f.type = "syncRes" /\ Newest(pend'[w]) = {f.text}
     \/ f.type # "syncRes" /\ pend'[w] = pend[w] /\ lost'[w] = lost[w]
     \/ f.type = "syncRes" /\ pend'[w] = pend[w] /\ lost'[w]

LEMMA TurnHands ==
  ASSUME CollabInv, NEW t \in Tabs, Turn(t) PROVE Hands(t, Head(up[t]))
<1> DEFINE f == Head(up[t])
<1>1. /\ up \in [Tabs -> Seq(Frames)] /\ pend \in [Tabs -> Seq(SUBSET made)]
      /\ lost \in [Tabs -> BOOLEAN]
  BY DEF CollabInv, TypeOK
<1>2. up[t] # <<>> /\ up'[t] = Tail(up[t]) BY <1>1, TurnSays DEF CollabInv
<1>3. Queue(t, f) \/ Discard(t, f) BY TurnSays DEF CollabInv
<1> HIDE DEF f
<1>4. \/ f.type = "syncRes" /\ Newest(pend'[t]) = {f.text}
      \/ f.type # "syncRes" /\ pend'[t] = pend[t] /\ lost'[t] = lost[t]
      \/ f.type = "syncRes" /\ pend'[t] = pend[t] /\ lost'[t]
  <2>1. CASE Queue(t, f) /\ f.type = "syncRes"
    <3>1. pend'[t] = Append(pend[t], f.text) /\ pend[t] \in Seq(SUBSET made)
      BY <1>1, <2>1 DEF Queue
    <3> QED BY <2>1, <3>1, NewestSays
  <2>2. CASE Queue(t, f) /\ f.type # "syncRes" BY <2>2 DEF Queue, saveVars
  <2>3. CASE Discard(t, f) BY <1>1, <2>3 DEF Discard
  <2> QED BY <1>3, <2>1, <2>2, <2>3
<1> QED BY <1>2, <1>4 DEF Hands, f

LEMMA TurnLeaves ==
  ASSUME CollabInv, NEW t \in Tabs, Turn(t), NEW w \in Tabs \ {t}
  PROVE  up'[w] = up[w] /\ pend'[w] = pend[w] /\ lost'[w] = lost[w]
<1>1. DOMAIN up = Tabs /\ DOMAIN pend = Tabs /\ DOMAIN lost = Tabs
  BY DEF CollabInv, TypeOK
<1>2. up'[w] = up[w] BY TurnSays DEF CollabInv, TypeOK
<1>3. Queue(t, Head(up[t])) \/ Discard(t, Head(up[t])) BY TurnSays DEF CollabInv
<1>4. pend'[w] = pend[w] /\ lost'[w] = lost[w]
  BY <1>3 DEF Queue, Discard, saveVars, CollabInv, TypeOK
<1> QED BY <1>2, <1>4

LEMMA SnapshotSteps ==
  ASSUME CollabInv, NEW t \in Tabs, NEW w \in Tabs, Moves(t) \/ Turn(t)
  PROVE  Frees(w) \/ Sends(w) \/ Cleared(w) \/ Hands(w, Head(up[w]))
<1>1. /\ up \in [Tabs -> Seq(Frames)] /\ pend \in [Tabs -> Seq(SUBSET made)]
      /\ lost \in [Tabs -> BOOLEAN] /\ DOMAIN state = Tabs
      /\ state = [x \in Tabs |-> state[x]]
  BY DEF CollabInv, TypeOK
<1>2. CASE w # t /\ Moves(t) BY <1>2, OthersApart DEF Apart, Frees
<1>3. CASE w # t /\ Turn(t) BY <1>3, TurnLeaves DEF Frees
<1>4. CASE w = t
  <2>1. CASE Drop(t) \/ Close(t) BY <1>1, <1>4, <2>1 DEF Drop, Close, Cut, Cleared
  <2>2. CASE Turn(t) BY <1>4, <2>2, TurnHands
  <2>3. ASSUME NEW n \in 1..Len(pend[t]), pend' = [pend EXCEPT ![t] = Rest(@, n)],
               UNCHANGED up, lost[t] => lost'[t]
        PROVE  Frees(w)
    <3>1. pend[w] \in Seq(SUBSET made) /\ pend'[w] = Rest(pend[w], n) BY <1>1, <1>4, <2>3
    <3>2. n < Len(pend[w]) \/ n = Len(pend[w]) BY <1>4, <3>1
    <3>3. Newest(pend'[w]) \in {Newest(pend[w]), {}} BY <1>4, <3>1, <3>2, NewestSays
    <3> QED BY <1>4, <2>3, <3>3 DEF Frees
  <2>4. CASE Save(t) BY <2>3, <2>4 DEF Save
  <2>5. CASE SaveFails(t) BY <1>1, <2>3, <2>5 DEF SaveFails
  <2>6. CASE Open(t) \/ BlobFails(t) \/ Logout(t) \/ ServeBlob(t) \/ Join(t) \/ Reconnect(t)
    BY <1>1, <1>4, <2>6
       DEF Open, BlobFails, Logout, ServeBlob, Join, Reconnect, hubVars, saveVars, Frees
  <2>7. CASE BlobArrives(t) BY <2>7 DEF BlobArrives, hubVars, saveVars, Frees
  <2>8. CASE Opened(t)
    <3>1. up'[w] = Append(up[w], SyncReq) /\ pend' = pend /\ lost' = lost
      BY <1>1, <1>4, <2>8 DEF Opened, saveVars
    <3>2. SyncReq.type # "syncRes" BY DEF SyncReq
    <3> QED BY <3>1, <3>2 DEF Sends
  <2>9. CASE Edit(t)
    <3>1. PICK e : up' = Sending(t, Update({e})) BY <2>9 DEF Edit
    <3>2. pend' = pend /\ lost' = lost BY <2>9 DEF Edit, saveVars
    <3>3. CASE state[t] = "on"
      <4>1. up'[w] = Append(up[w], Update({e})) BY <1>1, <1>4, <3>1, <3>3 DEF Sending
      <4>2. Update({e}).type # "syncRes" BY DEF Update
      <4> QED BY <3>2, <4>1, <4>2 DEF Sends
    <3> QED BY <3>1, <3>2, <3>3 DEF Sending, Frees
  <2>10. CASE Receive(t) \/ SnapshotTimerFires(t)
    <3>1. up' \in {up, Sending(t, SyncRes(doc[t]))} /\ pend' = pend /\ lost' = lost
      BY <2>10 DEF Receive, SnapshotTimerFires, saveVars
    <3>2. up'[w] = up[w] \/ up'[w] = Append(up[w], SyncRes(doc[w]))
      BY <1>1, <1>4, <3>1 DEF Sending
    <3>3. SyncRes(doc[w]).text = doc[w] BY DEF SyncRes
    <3> QED BY <3>1, <3>2, <3>3 DEF Sends, Frees
  <2> QED
    BY <1>4, <2>1, <2>2, <2>4, <2>5, <2>6, <2>7, <2>8, <2>9, <2>10 DEF Moves
<1> QED BY <1>2, <1>3, <1>4

LEMMA GrowingStep ==
  ASSUME CollabInv, Growing, NEW t \in Tabs, Moves(t) \/ Turn(t) PROVE Growing'
<1> SUFFICES ASSUME NEW w \in Tabs
             PROVE  /\ Nested(up'[w])
                    /\ \A s \in Snapshots(up'[w]) : s \subseteq doc'[w]
                    /\ \A p \in Newest(pend'[w]) : p \subseteq doc'[w]
                    /\ \A p \in Newest(pend'[w]) :
                         \A s \in Snapshots(up'[w]) : p \subseteq s
  BY DEF Growing
<1>1. /\ Nested(up[w])
      /\ \A s \in Snapshots(up[w]) : s \subseteq doc[w]
      /\ \A p \in Newest(pend[w]) : p \subseteq doc[w]
      /\ \A p \in Newest(pend[w]) : \A s \in Snapshots(up[w]) : p \subseteq s
  BY DEF Growing
<1>2. doc[w] \subseteq doc'[w] BY DocumentsKept DEF Learns
<1>3. up[w] \in Seq(Frames) BY DEF CollabInv, TypeOK
<1>4. CASE Frees(w) BY <1>1, <1>2, <1>4 DEF Frees
<1>5. CASE Cleared(w) BY <1>5, EmptyHasNone DEF Cleared, Newest
<1>6. CASE Sends(w)
  <2>1. PICK f : up'[w] = Append(up[w], f) /\ (f.type = "syncRes" => f.text = doc[w])
    BY <1>6 DEF Sends
  <2>2. pend'[w] = pend[w] BY <1>6 DEF Sends
  <2>3. \A s \in Snapshots(up'[w]) : s \in Snapshots(up[w]) \/ s = doc[w]
    BY <1>3, <2>1, JoiningSnapshot
  <2>4. Nested(up'[w]) BY <1>1, <1>3, <2>1, JoiningSnapshot
  <2> QED BY <1>1, <1>2, <2>2, <2>3, <2>4
<1>7. CASE Hands(w, Head(up[w]))
  <2> DEFINE f == Head(up[w])
  <2>1. /\ Snapshots(up'[w]) \subseteq Snapshots(up[w])
        /\ f.type = "syncRes" => f.text \in Snapshots(up[w])
        /\ Nested(up'[w])
        /\ f.type = "syncRes" => \A s \in Snapshots(up'[w]) : f.text \subseteq s
    BY <1>1, <1>3, <1>7, LeavingSnapshot DEF Hands
  <2>2. \/ f.type = "syncRes" /\ Newest(pend'[w]) = {f.text}
        \/ pend'[w] = pend[w]
    BY <1>7 DEF Hands
  <2> HIDE DEF f
  <2> QED BY <1>1, <1>2, <2>1, <2>2
<1> QED BY <1>4, <1>5, <1>6, <1>7, SnapshotSteps

LEMMA OffStep ==
  ASSUME CollabInv, OffIsClear, NEW t \in Tabs, Moves(t) \/ Turn(t) PROVE OffIsClear'
<1> SUFFICES ASSUME NEW w \in Tabs
             PROVE  /\ state'[w] # "on" => up'[w] = <<>> /\ pend'[w] = <<>>
                    /\ state'[w] = "new" => doc'[w] = {}
  BY DEF OffIsClear
<1>1. /\ state[w] # "on" => up[w] = <<>> /\ pend[w] = <<>>
      /\ state[w] = "new" => doc[w] = {}
  BY DEF OffIsClear
<1>2. CASE w # t /\ Moves(t) BY <1>1, <1>2, OthersApart DEF Apart
<1> USE DEF CollabInv, TypeOK, TextTypeOK, tabVars, userVars, hubVars, saveVars, textVars
<1>3. CASE w # t /\ Turn(t)
  <2>1. up'[w] = up[w] /\ pend'[w] = pend[w] BY <1>3, TurnLeaves
  <2>2. UNCHANGED <<state, doc>> BY <1>3, TurnSays
  <2> QED BY <1>1, <2>1, <2>2
<1>4. CASE w = t
  <2>1. CASE Open(t) \/ BlobFails(t) \/ Logout(t)
    BY <1>1, <1>4, <2>1 DEF Open, BlobFails, Logout, Empty
  <2>2. CASE ServeBlob(t) \/ Join(t) \/ Reconnect(t)
    BY <1>1, <1>4, <2>2 DEF ServeBlob, Join, Reconnect
  <2>3. CASE BlobArrives(t) BY <1>1, <1>4, <2>3 DEF BlobArrives
  <2>4. CASE Drop(t) \/ Close(t) BY <1>1, <1>4, <2>4 DEF Drop, Close, Cut
  <2>5. CASE Opened(t) BY <1>1, <1>4, <2>5 DEF Opened
  <2>6. CASE Edit(t) BY <1>1, <1>4, <2>6 DEF Edit, Sending
  <2>7. CASE Receive(t) BY <1>1, <1>4, <2>7 DEF Receive
  <2>8. CASE SnapshotTimerFires(t) BY <1>1, <1>4, <2>8 DEF SnapshotTimerFires, Sending
  <2>9. CASE Turn(t)
    <3>1. UNCHANGED <<state, doc>> /\ up[t] # <<>> BY <2>9, TurnSays
    <3> QED BY <1>1, <1>4, <3>1
  <2>10. CASE Save(t) \/ SaveFails(t)
    <3>1. 1..Len(pend[t]) # {} /\ UNCHANGED <<state, doc>> BY <2>10 DEF Save, SaveFails
    <3>2. pend[t] # <<>> BY <3>1
    <3> QED BY <1>1, <1>4, <3>1, <3>2
  <2> QED
    BY <1>4, <2>1, <2>2, <2>3, <2>4, <2>5, <2>6, <2>7, <2>8, <2>9, <2>10 DEF Moves
<1> QED BY <1>2, <1>3, <1>4

\* What has missed w stays missed as long as w is connected.
LEMMA MissedKept ==
  ASSUME CollabInv, NEW t \in Tabs, NEW w \in Tabs, Moves(t) \/ Turn(t), state'[w] = "on",
         missed[w]
  PROVE  missed'[w]
<1>1. CASE Turn(t) BY <1>1, TurnDelivers DEF Delivers
<1>2. CASE Drop(t) \/ Close(t)
  <2>1. w # t BY <1>2 DEF Drop, Close, CollabInv, TypeOK
  <2> QED BY <1>2, <2>1, OthersApart DEF Moves, Apart
<1>3. CASE Moves(t) /\ ~(Drop(t) \/ Close(t))
  <2>1. missed' = missed
    BY <1>3 DEF Moves, Open, BlobFails, Edit, Logout, ServeBlob, BlobArrives, Join, Opened,
                Receive, SnapshotTimerFires, Save, SaveFails, Reconnect, hubVars
  <2> QED BY <2>1
<1> QED BY <1>1, <1>2, <1>3

\* Connected before and after, who is to save still is, unless the step saves: a request
\* becomes an answer, an answer a snapshot to be stored, and a later one is no worse.
\* When the queue is full, the last snapshot may be lost.
LEMMA WillSaveKept ==
  ASSUME CollabInv, Growing, NEW t \in Tabs, NEW w \in Tabs, Moves(t) \/ Turn(t),
         ~(w = t /\ (Save(t) \/ SaveFails(t))), state[w] = "on", state'[w] = "on", WillSave(w)
  PROVE  Sure(w)' \/ (lost'[w] /\ Snapshots(up'[w]) = {})
<1>1. /\ up \in [Tabs -> Seq(Frames)] /\ down \in [Tabs -> Seq(Frames)]
      /\ snap \in [Tabs -> BOOLEAN] /\ pend \in [Tabs -> Seq(SUBSET made)]
      /\ doc \in [Tabs -> SUBSET made] /\ DOMAIN state = Tabs
      /\ state = [x \in Tabs |-> state[x]]
  BY DEF CollabInv, TypeOK, TextTypeOK
<1>2. \A S : Current(S, w) => snap'[w] \/ Current(S, w)' BY DocumentsKept, CurrentKept
<1>3. ASSUME Asks(w) => Asks(w)', AsksAfter(down[w], 0) => AsksAfter(down'[w], 0),
             snap[w] => snap'[w], Snapshots(up[w]) \subseteq Snapshots(up'[w]),
             pend'[w] = pend[w]
      PROVE  WillSave(w)'
  BY <1>2, <1>3 DEF WillSave
<1>4. CASE w # t /\ Moves(t) BY <1>3, <1>4, OthersApart DEF Apart, Asks, Sure
<1>5. CASE w # t /\ Turn(t)
  <2>1. up'[w] = up[w] /\ pend'[w] = pend[w] /\ snap' = snap
    BY <1>5, TurnLeaves, TurnSays DEF tabVars, CollabInv
  <2>2. Delivers(w, Head(up[t])) BY <1>5, TurnDelivers
  <2>3. AsksAfter(down[w], 0) => AsksAfter(down'[w], 0)
    <3>1. 0 \in 0..Len(down[w]) BY <2>2 DEF Delivers
    <3> QED BY <2>2, <3>1 DEF Delivers
  <2> QED BY <1>3, <2>1, <2>3 DEF Asks, Sure
<1>6. CASE w = t /\ (Join(t) \/ Logout(t))
  BY <1>3, <1>6 DEF Join, Logout, tabVars, hubVars, saveVars, Asks, Sure
<1>7. CASE w = t /\ Edit(t)
  <2>1. snap'[w] BY <1>1, <1>7 DEF Edit
  <2> QED BY <2>1 DEF WillSave, Sure
<1>8. ASSUME w = t, up' = Sending(t, SyncRes(doc[t]))
      PROVE  /\ Asks(w) => Asks(w)'
             /\ Snapshots(up[w]) \subseteq Snapshots(up'[w])
             /\ \E s \in Snapshots(up'[w]) : Current(s, w)
  <2>1. up[w] \in Seq(Frames) /\ Len(up[w]) \in Nat BY <1>1
  <2>2. up'[w] = Append(up[w], SyncRes(doc[w])) BY <1>1, <1>8 DEF Sending
  <2>3. SyncRes(doc[w]).type = "syncRes" /\ SyncRes(doc[w]).text = doc[w] BY DEF SyncRes
  <2>4. /\ Snapshots(up[w]) \subseteq Snapshots(up'[w])
        /\ doc[w] \in Snapshots(up'[w])
    BY <2>1, <2>2, <2>3, JoiningSnapshot
  <2>5. Asks(w) => Asks(w)'
    <3>1. 0 \in 0..Len(up[w]) BY <2>1
    <3> QED BY <2>1, <2>2, <3>1, JoiningSays DEF Asks
  <2>6. Current(doc[w], w) BY DEF Current, Integrated
  <2> QED BY <2>4, <2>5, <2>6
<1>9. ASSUME w = t, up' = Sending(t, SyncRes(doc[t])) PROVE WillSave(w)'
  BY <1>2, <1>8, <1>9 DEF WillSave
<1>10. CASE w = t /\ SnapshotTimerFires(t) BY <1>9, <1>10 DEF SnapshotTimerFires, Sure
<1>11. CASE w = t /\ Receive(t) /\ Head(down[t]).type # "syncReq"
  <2>1. UNCHANGED up /\ UNCHANGED pend BY <1>11 DEF Receive, saveVars
  <2>2. snap[w] => snap'[w] BY <1>1, <1>11 DEF Receive, Apply
  <2>3. down[t] \in Seq(Frames) /\ down[t] # <<>> /\ down'[t] = Tail(down[t])
    BY <1>1, <1>11 DEF Receive
  <2>4. AsksAfter(down[w], 0) => AsksAfter(down'[w], 0) BY <1>11, <2>3, LeavingSays
  <2> QED BY <1>3, <2>1, <2>2, <2>4 DEF Asks, Sure
<1>12. CASE w = t /\ Receive(t) /\ Head(down[t]).type = "syncReq"
  BY <1>9, <1>12 DEF Receive, Sure
<1>13. CASE w = t /\ Turn(t)
  <2> DEFINE f == Head(up[w])
  <2>1. /\ up[w] \in Seq(Frames) /\ up[w] # <<>> /\ up'[w] = Tail(up[w]) /\ joined[w]
        /\ snap' = snap /\ UNCHANGED <<doc, past>>
    BY <1>1, <1>13, TurnSays DEF tabVars, CollabInv
  <2>2. \A S : Current(S, w)' <=> Current(S, w) BY <2>1 DEF Current, Integrated
  <2>3. /\ \A s \in Snapshots(up[w]) :
             s \in Snapshots(up'[w]) \/ (s = f.text /\ f.type = "syncRes")
        /\ f.type = "syncRes" => f.text \in Snapshots(up[w])
        /\ f.type = "syncRes" => \A s \in Snapshots(up'[w]) : f.text \subseteq s
        /\ Snapshots(up'[w]) \subseteq Snapshots(up[w])
    BY <2>1, LeavingSnapshot DEF Growing
  <2>4. \/ f.type = "syncRes" /\ Newest(pend'[w]) = {f.text}
        \/ f.type # "syncRes" /\ pend'[w] = pend[w]
        \/ f.type = "syncRes" /\ pend'[w] = pend[w] /\ lost'[w]
    BY <1>13, TurnHands DEF Hands
  <2>5. Asks(w) => f.type = "syncReq" \/ Asks(w)' BY <2>1, LeavingSays DEF Asks
  <2>6. /\ AsksAfter(down[w], 0) => AsksAfter(down'[w], 0)
        /\ f.type = "syncReq" => AsksAfter(down'[w], 0) \/ missed'[w]
    <3>1. Delivers(w, f) BY <1>13, TurnDelivers
    <3> HIDE DEF f
    <3>2. 0 \in 0..Len(down[w]) BY <3>1 DEF Delivers
    <3> QED BY <2>1, <3>1, <3>2 DEF Delivers
  <2>7. /\ \A s \in Snapshots(up[w]) : s \subseteq doc[w]
        /\ \A p \in Newest(pend[w]) : \A s \in Snapshots(up[w]) : p \subseteq s
    BY DEF Growing
  <2> HIDE DEF f
  <2>8. CASE f.type # "syncRes"
    BY <2>1, <2>2, <2>3, <2>4, <2>5, <2>6, <2>8 DEF WillSave, Sure
  <2>9. CASE f.type = "syncRes"
    <3>1. Asks(w) => Asks(w)' BY <2>5, <2>9
    <3>2. CASE Asks(w) \/ AsksAfter(down[w], 0) \/ snap[w]
      BY <2>1, <2>6, <3>1, <3>2 DEF WillSave, Sure
    <3>3. CASE \E s \in Snapshots(up[w]) \cup Newest(pend[w]) : Current(s, w)
      <4>1. PICK s \in Snapshots(up[w]) \cup Newest(pend[w]) : Current(s, w) BY <3>3
      <4>2. s \in Snapshots(up'[w]) \/ s \subseteq f.text
        BY <2>3, <2>7, <2>9, <4>1
      <4>3. CASE s \in Snapshots(up'[w]) BY <2>2, <4>1, <4>3 DEF WillSave, Sure
      <4>4. CASE s \subseteq f.text
        <5>1. \A r \in {f.text} \cup Snapshots(up'[w]) : Current(r, w)'
          BY <2>2, <2>3, <2>7, <2>9, <4>1, <4>4 DEF Current
        <5>2. CASE Newest(pend'[w]) = {f.text} BY <5>1, <5>2 DEF WillSave, Sure
        <5>3. CASE lost'[w]
          <6>1. CASE Snapshots(up'[w]) = {} BY <5>3, <6>1
          <6>2. CASE Snapshots(up'[w]) # {} BY <5>1, <6>2 DEF WillSave, Sure
          <6> QED BY <6>1, <6>2
        <5> QED BY <2>4, <2>9, <5>2, <5>3
      <4> QED BY <4>2, <4>3, <4>4
    <3> QED BY <3>2, <3>3 DEF WillSave
  <2> QED BY <2>8, <2>9
<1>14. CASE w = t /\ ( \/ Open(t) \/ BlobFails(t) \/ Drop(t) \/ Close(t) \/ ServeBlob(t)
                       \/ BlobArrives(t) \/ Opened(t) \/ Reconnect(t))
  BY <1>1, <1>14 DEF Open, BlobFails, Drop, Close, ServeBlob, BlobArrives, Opened, Reconnect
<1> QED BY <1>4, <1>5, <1>6, <1>7, <1>10, <1>11, <1>12, <1>13, <1>14 DEF Moves

LEMMA SureKept ==
  ASSUME CollabInv, Growing, NEW t \in Tabs, NEW w \in Tabs, Moves(t) \/ Turn(t),
         ~(w = t /\ (Save(t) \/ SaveFails(t))), state[w] = "on", state'[w] = "on", Sure(w)
  PROVE  Sure(w)' \/ (lost'[w] /\ Snapshots(up'[w]) = {})
BY WillSaveKept, MissedKept DEF Sure

\* Who has just connected asks, and so will save.
LEMMA OpenedAsks ==
  ASSUME CollabInv, NEW t \in Tabs, NEW w \in Tabs, Moves(t) \/ Turn(t),
         state[w] # "on", state'[w] = "on"
  PROVE  Sure(w)'
<1>1. /\ up \in [Tabs -> Seq(Frames)] /\ up[w] \in Seq(Frames) /\ Len(up[w]) \in Nat
      /\ state = [x \in Tabs |-> state[x]]
  BY DEF CollabInv, TypeOK
<1>2. CASE Opened(t)
  <2>1. w = t BY <1>1, <1>2 DEF Opened
  <2>2. up'[w] = Append(up[w], SyncReq) /\ SyncReq.type = "syncReq"
    BY <1>1, <1>2, <2>1 DEF Opened, SyncReq
  <2>3. 0 \in 0..Len(up[w]) BY <1>1
  <2>4. AsksAfter(up'[w], 0) BY <1>1, <2>2, <2>3, JoiningSays
  <2> QED BY <2>4 DEF WillSave, Asks, Sure
<1>3. CASE Turn(t) BY <1>3, TurnSays DEF tabVars, CollabInv
<1>4. CASE Moves(t) /\ ~Opened(t)
  <2>1. UNCHANGED state \/ \E c \in {"loading", "loaded", "connecting", "lost", "left"} :
          state' = [state EXCEPT ![t] = c]
    BY <1>4 DEF Moves, Open, BlobFails, Edit, Logout, Drop, Close, ServeBlob, BlobArrives,
                Join, Receive, SnapshotTimerFires, Save, SaveFails, Reconnect, tabVars
  <2> QED BY <1>1, <2>1
<1> QED BY <1>2, <1>3, <1>4

\* Saving what is as good as the document makes t safe; what is worse is not the last; and
\* what could not be saved is lost.
LEMMA SavingSays ==
  ASSUME CollabInv, Saving, NEW t \in Tabs, Save(t) \/ SaveFails(t)
  PROVE  /\ state[t] = "on" /\ UNCHANGED <<state, up>>
         /\ Snapshots(up[t]) # {} => Sure(t)'
         /\ Sure(t)' \/ lost'[t] \/ (Save(t) /\ Newest(pend'[t]) = {} /\ Current(store, t)')
<1>1. PICK n \in 1..Len(pend[t]) :
        /\ pend' = [pend EXCEPT ![t] = Rest(@, n)]
        /\ \/ Save(t) /\ store' = pend[t][n] /\ lost' = lost
           \/ lost' = [lost EXCEPT ![t] = @ \/ n = Len(pend[t])]
  BY DEF Save, SaveFails
<1>2. UNCHANGED <<state, doc, snap, up, down, missed, past>>
  BY DEF Save, SaveFails, tabVars, userVars
<1>3. pend[t] \in Seq(SUBSET made) /\ lost \in [Tabs -> BOOLEAN] /\ pend[t] # <<>>
      /\ pend'[t] = Rest(pend[t], n) /\ Len(pend[t]) \in Nat
  <2>1. pend \in [Tabs -> Seq(SUBSET made)] /\ lost \in [Tabs -> BOOLEAN]
    BY DEF CollabInv, TypeOK
  <2> QED BY <1>1, <2>1
<1>4. state[t] = "on" BY <1>3 DEF Saving, OffIsClear
<1>5. Newest(pend[t]) # {} BY <1>3 DEF Newest
<1>6. Sure(t) \/ lost[t] BY <1>4, <1>5 DEF Saving, LastIsCurrent
<1>7. Snapshots(up[t]) # {} => Sure(t) BY <1>4 DEF Saving, LastIsCurrent
<1>8. missed[t] => Sure(t)' BY <1>2 DEF Sure
<1>9. lost[t] => lost'[t] BY <1>1, <1>3
<1>10. \A S : Current(S, t) => Current(S, t)' BY <1>2 DEF Current, Integrated
<1>11. CASE n < Len(pend[t])
  <2>1. Newest(pend'[t]) = Newest(pend[t]) BY <1>1, <1>3, <1>11, NewestSays
  <2>2. WillSave(t) => WillSave(t)' BY <1>2, <1>10, <2>1 DEF WillSave, Asks
  <2> QED BY <1>2, <1>4, <1>6, <1>7, <1>8, <1>9, <2>2 DEF Sure
<1>12. CASE n = Len(pend[t])
  <2>1. Newest(pend'[t]) = {} /\ Newest(pend[t]) = {pend[t][n]}
    BY <1>1, <1>3, <1>12, NewestSays
  <2>2. CASE ~WillSave(t) BY <1>2, <1>4, <1>6, <1>7, <1>8, <1>9, <2>2 DEF Sure
  <2>3. CASE WillSave(t) /\ ~Current(pend[t][n], t)
    <3>1. WillSave(t)' BY <1>2, <1>10, <2>1, <2>3 DEF WillSave, Asks
    <3> QED BY <1>2, <1>4, <3>1 DEF Sure
  <2>4. CASE Current(pend[t][n], t)
    <3>1. ASSUME NEW s \in Snapshots(up[t]) PROVE Sure(t)'
      <4>1. pend[t][n] \subseteq s /\ s \subseteq doc[t] BY <2>1, <3>1 DEF Saving, Growing
      <4>2. Current(s, t) BY <2>4, <4>1 DEF Current
      <4> QED BY <1>2, <1>10, <3>1, <4>2 DEF WillSave, Sure
    <3>2. lost'[t] \/ (Save(t) /\ Current(store, t)')
      <4>1. CASE Save(t) /\ store' = pend[t][n]
        <5>1. doc' = doc /\ past' = past BY <1>2
        <5> QED BY <4>1, <2>4, <5>1 DEF Current, Integrated
      <4>2. CASE lost' = [lost EXCEPT ![t] = @ \/ n = Len(pend[t])]
        BY <1>3, <1>12, <4>2
      <4> QED BY <1>1, <4>1, <4>2
    <3> QED BY <1>2, <1>4, <2>1, <3>1, <3>2
  <2> QED BY <2>2, <2>3, <2>4
<1> QED BY <1>1, <1>3, <1>11, <1>12

\* What is lost stays lost, unless what is queued later makes up for it.
LEMMA LostKept ==
  ASSUME CollabInv, Saving, NEW t \in Tabs, NEW w \in Tabs, Moves(t) \/ Turn(t),
         state[w] = "on", state'[w] = "on", lost[w], ~Sure(w)
  PROVE  lost'[w]
<1>1. CASE Frees(w) BY <1>1 DEF Frees
<1>2. CASE Sends(w) BY <1>2 DEF Sends
<1>3. CASE Cleared(w) BY <1>3 DEF Cleared
<1>4. CASE Hands(w, Head(up[w]))
  <2>1. up[w] \in Seq(Frames) BY DEF CollabInv, TypeOK
  <2>2. Snapshots(up[w]) = {} BY DEF Saving, LastIsCurrent
  <2>3. Head(up[w]).type # "syncRes" BY <1>4, <2>1, <2>2, LeavingSnapshot DEF Hands
  <2> QED BY <1>4, <2>3 DEF Hands
<1> QED BY <1>1, <1>2, <1>3, <1>4, SnapshotSteps

LEMMA LastStep ==
  ASSUME CollabInv, Saving, NEW t \in Tabs, Moves(t) \/ Turn(t) PROVE LastIsCurrent'
<1> SUFFICES ASSUME NEW w \in Tabs, state'[w] = "on"
             PROVE  /\ Snapshots(up'[w]) # {} => Sure(w)'
                    /\ Newest(pend'[w]) # {} => Sure(w)' \/ lost'[w]
  BY DEF LastIsCurrent
<1>1. CASE state[w] # "on" BY <1>1, OpenedAsks
<1>2. CASE w = t /\ (Save(t) \/ SaveFails(t)) BY <1>2, SavingSays
<1>3. CASE state[w] = "on" /\ ~(w = t /\ (Save(t) \/ SaveFails(t))) /\ Sure(w)
  BY <1>3, SureKept DEF Saving
<1>4. CASE state[w] = "on" /\ ~Sure(w)
  <2>1. up[w] \in Seq(Frames) BY DEF CollabInv, TypeOK
  <2>2. Snapshots(up[w]) = {} /\ (Newest(pend[w]) # {} => lost[w])
    BY <1>4 DEF Saving, LastIsCurrent
  <2>3. lost[w] => lost'[w] BY <1>4, LostKept
  <2>4. CASE Frees(w) BY <2>2, <2>3, <2>4 DEF Frees
  <2>5. CASE Cleared(w) BY <2>5 DEF Cleared
  <2>6. CASE Hands(w, Head(up[w]))
    <3>1. Head(up[w]).type # "syncRes" /\ Snapshots(up'[w]) = {}
      BY <2>1, <2>2, <2>6, LeavingSnapshot DEF Hands
    <3> QED BY <2>2, <2>3, <2>6, <3>1 DEF Hands
  <2>7. CASE Sends(w)
    <3>1. PICK f : up'[w] = Append(up[w], f) /\ (f.type = "syncRes" => f.text = doc[w])
      BY <2>7 DEF Sends
    <3>2. pend'[w] = pend[w] BY <2>7 DEF Sends
    <3>3. CASE Snapshots(up'[w]) = {} BY <2>2, <2>3, <3>2, <3>3
    <3>4. CASE Snapshots(up'[w]) # {}
      <4>1. f.type = "syncRes" /\ doc[w] \in Snapshots(up'[w])
        BY <2>1, <2>2, <3>1, <3>4, JoiningSnapshot
      <4>2. PICK D : D = doc[w] /\ Current(D, w) BY DEF Current, Integrated
      <4>3. snap'[w] \/ Current(D, w)' BY <4>2, DocumentsKept, CurrentKept
      <4> QED BY <4>1, <4>2, <4>3 DEF WillSave, Sure
    <3> QED BY <3>3, <3>4
  <2> QED BY <2>4, <2>5, <2>6, <2>7, SnapshotSteps
<1> QED BY <1>1, <1>2, <1>3, <1>4

\* Who is to save, or has lost its last snapshot, goes on so unless it saves.
LEMMA OwingKept ==
  ASSUME CollabInv, Saving, NEW t \in Tabs, NEW w \in Tabs, Moves(t) \/ Turn(t), ~Save(t),
         state[w] = "on" => Sure(w) \/ lost[w], state'[w] = "on"
  PROVE  Sure(w)' \/ lost'[w]
<1>1. CASE state[w] # "on" BY <1>1, OpenedAsks
<1>2. CASE w = t /\ SaveFails(t) BY <1>2, SavingSays
<1>3. CASE state[w] = "on" /\ ~(w = t /\ SaveFails(t)) /\ Sure(w)
  BY <1>3, SureKept DEF Saving
<1>4. CASE state[w] = "on" /\ ~Sure(w) BY <1>4, LostKept
<1> QED BY <1>1, <1>2, <1>3, <1>4

LEMMA SomeoneStep ==
  ASSUME CollabInv, Saving, NEW t \in Tabs, Moves(t) \/ Turn(t) PROVE SomeoneSafe'
<1>1. CASE Save(t)
  <2>1. t \in Savers' BY <1>1, SavingSays DEF Savers, Save, tabVars
  <2>2. Safe(t)' BY <1>1, SavingSays DEF Safe
  <2> QED BY <2>1, <2>2 DEF SomeoneSafe
<1>2. CASE ~Save(t)
  <2>1. store' = store
    <3>1. CASE Turn(t) BY <3>1, TurnSays DEF CollabInv
    <3>2. CASE Moves(t)
      BY <1>2, <3>2
         DEF Moves, Open, BlobFails, Edit, Logout, Drop, Close, ServeBlob, BlobArrives, Join,
             Opened, Receive, SnapshotTimerFires, SaveFails, Reconnect
    <3> QED BY <3>1, <3>2
  <2>2. CASE \A w \in Tabs : state[w] = "on" => Sure(w) \/ lost[w]
    BY <1>2, <2>2, OwingKept DEF SomeoneSafe
  <2>3. CASE \E w \in Savers : Safe(w)
    <3>1. PICK w \in Savers : Safe(w) BY <2>3
    <3>2. w \in Tabs BY <3>1 DEF Savers
    <3>3. w \in Savers'
      <4>1. state = [x \in Tabs |-> state[x]] BY DEF CollabInv, TypeOK
      <4>2. CASE UNCHANGED state BY <3>1, <4>2 DEF Savers
      <4>3. CASE \E c \in {"connecting", "on", "lost", "left"} : state' = [state EXCEPT ![t] = c]
        BY <3>1, <4>1, <4>3 DEF Savers
      <4>4. CASE Open(t) \/ ServeBlob(t) BY <3>1, <4>1, <4>4 DEF Open, ServeBlob, Savers
      <4>5. CASE Turn(t) BY <4>2, <4>5, TurnSays DEF tabVars, CollabInv
      <4> QED
        BY <4>2, <4>3, <4>4, <4>5
           DEF Moves, BlobFails, Edit, Logout, Drop, Close, BlobArrives, Join, Opened,
               Receive, SnapshotTimerFires, Save, SaveFails, Reconnect, tabVars
    <3>4. Safe(w)'
      <4> SUFFICES ASSUME state'[w] = "on" PROVE Sure(w)' \/ lost'[w] \/ Current(store, w)'
        BY DEF Safe
      <4>1. CASE state[w] = "on" => Sure(w) \/ lost[w] BY <1>2, <3>2, <4>1, OwingKept
      <4>2. CASE Current(store, w)
        <5>1. \A S : Current(S, w) => snap'[w] \/ Current(S, w)'
          BY <3>2, DocumentsKept, CurrentKept
        <5>2. CASE snap'[w] BY <5>2 DEF WillSave, Sure
        <5>3. CASE Current(store, w)' BY <5>3
        <5> QED BY <2>1, <4>2, <5>1, <5>2, <5>3 DEF Current
      <4> QED BY <3>1, <4>1, <4>2 DEF Safe
    <3> QED BY <3>3, <3>4 DEF SomeoneSafe
  <2> QED BY <2>2, <2>3 DEF Saving, SomeoneSafe
<1> QED BY <1>1, <1>2

LEMMA BaseStep ==
  ASSUME CollabInv, BaseIsFirst, [TextNext]_textVars PROVE BaseIsFirst'
<1>1. CASE UNCHANGED past BY <1>1 DEF BaseIsFirst
<1>2. ASSUME NEW t \in Tabs, NEW e \in EditsOf(t), Type(t, e) PROVE BaseIsFirst'
  <2>1. e # Base /\ past \in [Edits -> Writings] /\ Base \in Edits
    BY <1>2, TypeSays DEF CollabInv, TextInv, TextTypeOK, Edits
  <2>2. PICK end : past' = [past EXCEPT ![e] = Writing(t, e, end)] BY <1>2 DEF Type
  <2> QED BY <2>1, <2>2 DEF BaseIsFirst
<1> QED BY <1>1, <1>2 DEF TextNext, Learn, Empty, textVars

LEMMA SavingStep == ASSUME CollabInv, Saving, [Next]_vars PROVE Saving'
<1>1. CASE UNCHANGED vars
  <2>1. UNCHANGED <<state, doc, snap, up, down, pend, missed, lost, store, past>>
    BY <1>1 DEF vars, tabVars, hubVars, saveVars, userVars
  <2>2. \A t : Sure(t)' <=> Sure(t)
    BY <2>1 DEF Sure, WillSave, Asks, Current, Integrated
  <2>3. OffIsClear' /\ Growing' /\ BaseIsFirst'
    BY <2>1 DEF Saving, OffIsClear, Growing, BaseIsFirst
  <2>4. LastIsCurrent' BY <2>1, <2>2 DEF Saving, LastIsCurrent
  <2>5. \A t : Safe(t)' <=> Safe(t) BY <2>1, <2>2 DEF Safe, Current, Integrated
  <2>6. SomeoneSafe' BY <2>1, <2>2, <2>5 DEF Saving, SomeoneSafe, Savers
  <2> QED BY <2>3, <2>4, <2>6 DEF Saving
<1>2. CASE Next
  <2>1. PICK t \in Tabs : Moves(t) \/ Turn(t) BY <1>2, NextMoves
  <2>2. BaseIsFirst' BY BaseStep, CollabNextSteps DEF Saving
  <2>3. OffIsClear' /\ Growing' BY <2>1, OffStep, GrowingStep DEF Saving
  <2>4. LastIsCurrent' /\ SomeoneSafe' BY <2>1, LastStep, SomeoneStep
  <2> QED BY <2>2, <2>3, <2>4 DEF Saving
<1> QED BY <1>1, <1>2

\* With nothing on its way, waiting or to be stored, somebody's document is stored, but
\* for edits that are kept back; and as all agree, and nobody left, there are none.
LEMMA SavingShows == CollabInv /\ NoGaps /\ Saving => QuietMeansSaved
<1> SUFFICES ASSUME CollabInv, NoGaps, Saving,
                    \A x \in Tabs : /\ state[x] \in {"new", "on"} /\ Idle(x)
                                    /\ ~snap[x] /\ pend[x] = <<>>
                                    /\ ~missed[x] /\ ~lost[x],
                    NEW t \in OpenTabs
             PROVE  doc[t] = store /\ made \ {Base} \subseteq doc[t]
  BY DEF QuietMeansSaved
<1>1. t \in Tabs /\ state[t] = "on" BY DEF OpenTabs
<1>2. \A x \in Tabs : ~Sure(x) /\ ~lost[x]
  <2>1. ~AsksAfter(<<>>, 0) /\ Newest(<<>>) = {} BY DEF AsksAfter, Newest
  <2> QED BY <2>1, EmptyHasNone DEF WillSave, Asks, Idle, Sure
<1>3. PICK w \in Savers : Safe(w) BY <1>1, <1>2 DEF Saving, SomeoneSafe
<1>4. w \in Tabs /\ state[w] = "on" /\ Current(store, w) BY <1>2, <1>3 DEF Savers, Safe
<1>5. \A x \in Tabs : state[x] = "on" => doc[x] = doc[w]
  BY <1>4, NoGapsSays DEF IdleTabsAgree
<1>6. ASSUME NEW e \in made \ {Base} PROVE e \in doc[w] /\ past[e].needs \subseteq doc[w]
  <2>1. e \in Edits BY DEF CollabInv, TypeOK, TextTypeOK
  <2>2. PICK a \in Tabs : e \in EditsOf(a) BY <2>1 DEF Edits
  <2>3. e \in doc[a] /\ past[e].had \subseteq doc[a] BY <2>2 DEF CollabInv, TextInv, OwnHeld
  <2>4. state[a] = "on" BY <2>3 DEF Saving, OffIsClear
  <2>5. past[e].needs \subseteq past[e].had BY DEF CollabInv, TextInv, About
  <2> QED BY <1>5, <2>3, <2>4, <2>5
<1>7. doc[w] \subseteq Integrated(doc[w])
  <2>1. doc[w] \subseteq made BY <1>4 DEF CollabInv, TypeOK, TextTypeOK
  <2> QED BY <1>6, <2>1 DEF Integrated, Saving, BaseIsFirst
<1>8. store = doc[w] BY <1>4, <1>7 DEF Current
<1> QED BY <1>1, <1>5, <1>6, <1>8

\* Nothing that was typed is missing from the row when all is quiet: no snapshot that
\* lacks it is the last to be stored, whichever tabs' snapshots overwrote each other,
\* unless a full buffer or a failing UPDATE took a tab's frame or last snapshot and nothing
\* made up for it since.
THEOREM QuietSaved == Spec => []QuietMeansSaved
<1>1. CollabInv /\ NoGaps /\ [Next]_vars => NoGaps' BY NoGapsStep
<1>2. CollabInv /\ Saving /\ [Next]_vars => Saving' BY SavingStep
<1>3. Spec => []NoGaps BY <1>1, NoGapsInit, CollabHolds, PTL DEF Spec
<1>4. Spec => []Saving BY <1>2, SavingInit, CollabHolds, PTL DEF Spec
<1>5. QED BY <1>3, <1>4, SavingShows, CollabHolds, PTL
=============================================================================
