--------------------------- MODULE PresenceProofs ---------------------------
(* What holds of the entries for any number of tabs and of events.         *)
EXTENDS Presence, FiniteSetTheorems, TLAPS

\* What t has said about an entry is no newer than what t has: a removal it has
\* announced has been made.
SaidIsPast ==
  \A t \in Tabs : \A n \in said[t] :
    \/ n.clock < clock[t][n.who]
    \/ n.clock = clock[t][n.who] /\ (n.here \/ n.who \notin shown[t])

\* The lines on the way come from tabs no newer than the owners.
Inductive == TypeOK /\ OwnerLeads /\ OwnEntryStays /\ SaidIsPast /\ OnlyNews

-----------------------------------------------------------------------------
(* Announce.                                                               *)

\* If the entries cs of t are well typed after the step, its lines are.
LEMMA LinesTyped ==
  ASSUME clock' \in [Tabs -> [Tabs -> Nat]], NEW t \in Tabs, NEW cs \in SUBSET Tabs,
         \A c \in cs : clock'[t][c] > 0
  PROVE  Lines(t, cs) \subseteq News
<1> SUFFICES ASSUME NEW c \in cs
             PROVE  [who |-> c, clock |-> clock'[t][c], here |-> c \in shown'[t]] \in News
  BY DEF Lines
<1>1. (c \in shown'[t]) \in BOOLEAN
  OBVIOUS
<1>2. c \in Tabs /\ clock'[t][c] \in Nat \ {0}
  OBVIOUS
<1> QED
  BY <1>1, <1>2, Zenon DEF News

\* Lines no newer than the owners' clocks may be sent at any time.
LEMMA SendKeeps ==
  ASSUME Inductive, NEW lines \in SUBSET News, NEW pool \in SUBSET air,
         clock' \in [Tabs -> [Tabs -> Nat]],
         \A c \in Tabs : clock[c][c] <= clock'[c][c],
         \A n \in lines : n.clock <= clock'[n.who][n.who],
         Send(lines, pool)
  PROVE  /\ air' \subseteq Mails
         /\ \A m \in air' : \A n \in m.news : n.clock <= clock'[n.who][n.who]
<1> DEFINE mails == {[to |-> e, news |-> lines] : e \in {x \in Tabs : state'[x] = "on"}}
<1>1. air' \subseteq air \cup mails
  BY DEF Send
<1>2. air \cup mails \subseteq Mails
  BY DEF Inductive, TypeOK, Mails
<1>3. ASSUME NEW m \in air', NEW n \in m.news
      PROVE  n.clock <= clock'[n.who][n.who]
  <2>1. CASE m \in air
    <3>1. n \in News /\ n.clock <= clock[n.who][n.who]
      BY <2>1 DEF Inductive, TypeOK, Mails, OwnerLeads
    <3>2. n.who \in Tabs /\ n.clock \in Nat
      BY <3>1 DEF News
    <3> QED
      BY <3>1, <3>2 DEF Inductive, TypeOK
  <2>2. CASE m \in mails
    BY <2>2
  <2> QED
    BY <1>1, <2>1, <2>2
<1> QED
  BY <1>1, <1>2, <1>3

\* An announcement keeps what is said about frames, if no tab is ahead of the owner
\* after the step, clocks of owners do not go back, and its lines are news.
LEMMA AnnounceKeeps ==
  ASSUME Inductive, NEW t \in Tabs, NEW cs \in SUBSET Tabs, NEW pool \in SUBSET air,
         clock' \in [Tabs -> [Tabs -> Nat]],
         \A c \in cs : clock'[t][c] > 0,
         \A c \in Tabs : clock[c][c] <= clock'[c][c] /\ clock'[t][c] <= clock'[c][c],
         \A n \in Lines(t, cs), l \in said[t] : n.who = l.who => Later(n, l),
         Announce(t, cs, pool)
  PROVE  /\ air' \subseteq Mails
         /\ \A m \in air' : \A n \in m.news : n.clock <= clock'[n.who][n.who]
         /\ said' \in [Tabs -> SUBSET News]
         /\ \A e \in Tabs \ {t} : said'[e] = said[e]
         /\ said'[t] \subseteq said[t] \cup Lines(t, cs)
         /\ stale' = FALSE
<1> DEFINE lines == IF state[t] = "on" THEN Lines(t, cs) ELSE {}
<1>1. Lines(t, cs) \subseteq News
  BY LinesTyped
<1>2. \A n \in Lines(t, cs) : n.clock <= clock'[n.who][n.who]
  BY DEF Lines
<1>3. /\ air' \subseteq Mails
      /\ \A m \in air' : \A n \in m.news : n.clock <= clock'[n.who][n.who]
  <2>1. Send(lines, pool) /\ lines \in SUBSET News
    BY <1>1 DEF Announce
  <2>2. \A n \in lines : n.clock <= clock'[n.who][n.who]
    BY <1>2
  <2> HIDE DEF lines
  <2> QED
    BY <2>1, <2>2, SendKeeps
<1>4. said \in [Tabs -> SUBSET News]
  BY DEF Inductive, TypeOK
<1>5. said' = [said EXCEPT ![t] = {l \in @ : \A n \in lines : n.who # l.who} \cup lines]
  BY DEF Announce
<1>6. /\ said' \in [Tabs -> SUBSET News]
      /\ \A e \in Tabs \ {t} : said'[e] = said[e]
      /\ said'[t] \subseteq said[t] \cup Lines(t, cs)
  BY <1>1, <1>4, <1>5
<1>7. stale' = FALSE
  <2>1. stale = FALSE
    BY DEF Inductive, OnlyNews, TypeOK
  <2>2. ~ \E n \in lines, l \in said[t] : n.who = l.who /\ ~Later(n, l)
    OBVIOUS
  <2>3. stale' = (stale \/ \E n \in lines, l \in said[t] : n.who = l.who /\ ~Later(n, l))
    BY DEF Announce
  <2> QED
    BY <2>1, <2>2, <2>3, Zenon
<1> QED
  BY <1>3, <1>6, <1>7

-----------------------------------------------------------------------------
(* Changes of one tab's copy.                                              *)

\* What every step does that changes t's copy to clocks k and entries s and
\* announces cs: clocks do not go back, nor past the owner; an entry only appears
\* with a newer clock; t's own stays; what is announced has a newer clock, or has
\* just been removed.
Forward(t, cs, k, s) ==
  /\ \A c \in Tabs : clock[t][c] <= k[c]
  /\ \A c \in Tabs \ {t} : k[c] <= clock[c][c]
  /\ \A c \in s \cup cs : k[c] > 0
  /\ \A c \in s : clock[t][c] < k[c] \/ c \in shown[t]
  /\ t \in shown[t] => t \in s
  /\ \A c \in cs : clock[t][c] < k[c] \/ (c \in shown[t] /\ c \notin s)

\* Such a step keeps the invariant.
LEMMA ChangeKeeps ==
  ASSUME Inductive,
         NEW t \in Tabs, NEW cs \in SUBSET Tabs, NEW pool \in SUBSET air,
         NEW k \in [Tabs -> Nat], clock' = [clock EXCEPT ![t] = k],
         NEW s \in SUBSET Tabs, shown' = [shown EXCEPT ![t] = s],
         UNCHANGED <<state, lost>>, events' \in Nat,
         Forward(t, cs, k, s),
         Announce(t, cs, pool)
  PROVE  Inductive'
<1>1. /\ clock \in [Tabs -> [Tabs -> Nat]] /\ shown \in [Tabs -> SUBSET Tabs]
      /\ said \in [Tabs -> SUBSET News]
  BY DEF Inductive, TypeOK
<1>2. /\ clock' \in [Tabs -> [Tabs -> Nat]] /\ shown' \in [Tabs -> SUBSET Tabs]
      /\ clock'[t] = k /\ shown'[t] = s
      /\ \A e \in Tabs \ {t} : clock'[e] = clock[e] /\ shown'[e] = shown[e]
  BY <1>1
<1>3. \A c \in Tabs : clock[c][c] <= clock'[c][c] /\ clock'[t][c] <= clock'[c][c]
  BY <1>1, <1>2 DEF Forward
<1>4. ASSUME NEW n \in Lines(t, cs), NEW l \in said[t], n.who = l.who
      PROVE  Later(n, l)
  <2>1. PICK c \in cs :
          n = [who |-> c, clock |-> clock'[t][c], here |-> c \in shown'[t]]
    BY DEF Lines
  <2>2. n.who = c /\ n.clock = k[c] /\ (n.here <=> c \in s)
    BY <1>2, <2>1, Zenon
  <2>3. l.clock < clock[t][c] \/ (l.clock = clock[t][c] /\ (l.here \/ c \notin shown[t]))
    BY <1>4, <2>2 DEF Inductive, SaidIsPast
  <2>4. clock[t][c] \in Nat /\ k[c] \in Nat /\ l.clock \in Nat
    BY <1>1 DEF News
  <2>5. clock[t][c] < k[c] \/ (c \in shown[t] /\ c \notin s /\ clock[t][c] <= k[c])
    BY DEF Forward
  <2>6. CASE clock[t][c] < k[c]
    BY <2>2, <2>3, <2>4, <2>6 DEF Later
  <2>7. CASE c \in shown[t] /\ c \notin s /\ clock[t][c] = k[c]
    BY <2>2, <2>3, <2>4, <2>7 DEF Later
  <2> QED
    BY <2>4, <2>5, <2>6, <2>7
<1>5. /\ air' \subseteq Mails
      /\ \A m \in air' : \A n \in m.news : n.clock <= clock'[n.who][n.who]
      /\ said' \in [Tabs -> SUBSET News]
      /\ \A e \in Tabs \ {t} : said'[e] = said[e]
      /\ said'[t] \subseteq said[t] \cup Lines(t, cs)
      /\ stale' = FALSE
  <2>1. clock' \in [Tabs -> [Tabs -> Nat]] /\ \A c \in cs : clock'[t][c] > 0
    BY <1>2 DEF Forward
  <2> QED
    BY <1>3, <1>4, <2>1, AnnounceKeeps
<1> USE DEF Inductive
<1>6. TypeOK'
  <2>1. \A e \in Tabs : \A c \in shown'[e] : clock'[e][c] > 0
    BY <1>2 DEF TypeOK, Forward
  <2>2. {stale', lost'} \subseteq BOOLEAN
    BY <1>5 DEF TypeOK
  <2> QED
    BY <1>2, <1>5, <2>1, <2>2 DEF TypeOK
<1>7. OwnerLeads'
  <2>1. ASSUME NEW e \in Tabs, NEW c \in Tabs
        PROVE  clock'[e][c] <= clock'[c][c]
    <3>1. CASE e = t
      BY <1>3, <3>1
    <3>2. CASE e # t
      <4>1. clock'[e][c] = clock[e][c] /\ clock[e][c] <= clock[c][c]
        BY <1>2, <3>2 DEF OwnerLeads
      <4>2. clock[e][c] \in Nat /\ clock[c][c] \in Nat /\ clock'[c][c] \in Nat
        BY <1>1, <1>2
      <4> QED
        BY <1>3, <4>1, <4>2
    <3> QED
      BY <3>1, <3>2
  <2> QED
    BY <1>5, <2>1 DEF OwnerLeads
<1>8. OwnEntryStays'
  BY <1>2 DEF OwnEntryStays, Forward
<1>9. SaidIsPast'
  <2> SUFFICES ASSUME NEW e \in Tabs, NEW n \in said'[e]
               PROVE  \/ n.clock < clock'[e][n.who]
                      \/ n.clock = clock'[e][n.who] /\ (n.here \/ n.who \notin shown'[e])
    BY DEF SaidIsPast
  <2>0. n \in News /\ n.who \in Tabs /\ n.clock \in Nat
    BY <1>5 DEF News
  <2>1. CASE e # t
    <3>1. n \in said[e]
      BY <1>1, <1>5, <2>1
    <3> QED
      BY <1>2, <2>1, <3>1 DEF SaidIsPast
  <2>2. CASE e = t /\ n \in said[t]
    <3>1. \/ n.clock < clock[t][n.who]
          \/ n.clock = clock[t][n.who] /\ (n.here \/ n.who \notin shown[t])
      BY <2>2 DEF SaidIsPast
    <3>2. clock[t][n.who] \in Nat /\ k[n.who] \in Nat /\ clock[t][n.who] <= k[n.who]
      BY <1>1, <2>0 DEF Forward
    <3>3. n.who \in s => clock[t][n.who] < k[n.who] \/ n.who \in shown[t]
      BY DEF Forward
    <3>4. CASE clock[t][n.who] < k[n.who]
      <4>1. n.clock <= clock[t][n.who]
        BY <2>0, <3>1, <3>2
      <4> QED
        BY <1>2, <2>0, <2>2, <3>2, <3>4, <4>1
    <3>5. CASE clock[t][n.who] = k[n.who]
      <4>1. n.who \in s => n.who \in shown[t]
        BY <3>2, <3>3, <3>5
      <4> QED
        BY <1>2, <2>2, <3>1, <3>5, <4>1, Zenon
    <3> QED
      BY <3>2, <3>4, <3>5
  <2>3. CASE e = t /\ n \in Lines(t, cs)
    <3>1. PICK c \in cs :
            n = [who |-> c, clock |-> clock'[t][c], here |-> c \in shown'[t]]
      BY <2>3 DEF Lines
    <3>2. n.who = c /\ n.clock = clock'[t][c] /\ (n.here <=> c \in shown'[t])
      BY <3>1, Zenon
    <3> QED
      BY <2>3, <3>2
  <2> QED
    BY <1>1, <1>5, <2>1, <2>2, <2>3
<1>10. OnlyNews'
  BY <1>5 DEF OnlyNews
<1> QED
  BY <1>6, <1>7, <1>8, <1>9, <1>10

-----------------------------------------------------------------------------
(* The actions.                                                            *)

LEMMA OpenKeeps ==
  ASSUME Inductive, NEW t \in Tabs, Open(t)
  PROVE  Inductive'
<1> USE DEF Inductive
<1>1. UNCHANGED <<clock, shown, said, stale, lost, events>> /\ state[t] # "left"
  BY DEF Open, noteVars
<1>2. Lines(t, {t}) \in SUBSET News
  <2>1. clock' \in [Tabs -> [Tabs -> Nat]] /\ clock'[t][t] > 0
    BY <1>1 DEF TypeOK, OwnEntryStays
  <2> QED
    BY <2>1, LinesTyped
<1>3. \A n \in Lines(t, {t}) : n.clock <= clock'[n.who][n.who]
  BY <1>1 DEF Lines, TypeOK
<1>4. /\ air' \subseteq Mails
      /\ \A m \in air' : \A n \in m.news : n.clock <= clock'[n.who][n.who]
  <2>1. Send(Lines(t, {t}), air) /\ air \in SUBSET air
    BY DEF Open
  <2>2. clock' \in [Tabs -> [Tabs -> Nat]] /\ \A c \in Tabs : clock[c][c] <= clock'[c][c]
    BY <1>1 DEF TypeOK
  <2> QED
    BY <1>2, <1>3, <2>1, <2>2, SendKeeps
<1>5. state' \in [Tabs -> {"new", "on", "off", "left"}]
      /\ \A e \in Tabs : state'[e] = "left" <=> state[e] = "left"
  BY DEF Open, TypeOK
<1> QED
  BY <1>1, <1>4, <1>5 DEF TypeOK, OwnerLeads, OwnEntryStays, SaidIsPast, OnlyNews

LEMMA RenewKeeps ==
  ASSUME Inductive, NEW t \in Tabs, Renew(t)
  PROVE  Inductive'
<1> DEFINE k == [clock[t] EXCEPT ![t] = @ + 1]
<1>1. clock \in [Tabs -> [Tabs -> Nat]] /\ shown \in [Tabs -> SUBSET Tabs] /\ events \in Nat
  BY DEF Inductive, TypeOK
<1>2. k \in [Tabs -> Nat] /\ clock' = [clock EXCEPT ![t] = k]
  BY <1>1 DEF Renew, SetLocalState
<1>3. shown' = [shown EXCEPT ![t] = shown[t]] /\ shown[t] \in SUBSET Tabs
  BY <1>1 DEF Renew, SetLocalState
<1>4. Forward(t, {t}, k, shown[t])
  BY <1>1 DEF Forward, Inductive, TypeOK, OwnerLeads
<1>5. UNCHANGED <<state, lost>> /\ events' \in Nat /\ Announce(t, {t}, air)
  BY <1>1 DEF Renew, SetLocalState, Counted
<1>6. {t} \in SUBSET Tabs /\ air \in SUBSET air
  OBVIOUS
<1> HIDE DEF k
<1> QED
  BY <1>2, <1>3, <1>4, <1>5, <1>6, ChangeKeeps

LEMMA TimeoutKeeps ==
  ASSUME Inductive, NEW t \in Tabs, NEW cs \in SUBSET Tabs, Timeout(t, cs)
  PROVE  Inductive'
<1>1. clock \in [Tabs -> [Tabs -> Nat]] /\ shown \in [Tabs -> SUBSET Tabs] /\ events \in Nat
  BY DEF Inductive, TypeOK
<1>2. clock[t] \in [Tabs -> Nat] /\ clock' = [clock EXCEPT ![t] = clock[t]]
  BY <1>1 DEF Timeout
<1>3. shown' = [shown EXCEPT ![t] = shown[t] \ cs] /\ shown[t] \ cs \in SUBSET Tabs
  BY <1>1 DEF Timeout
<1>4. Forward(t, cs, clock[t], shown[t] \ cs)
  BY <1>1 DEF Forward, Timeout, Inductive, TypeOK, OwnerLeads
<1>5. events' \in Nat
  <2> DEFINE there == {c \in cs : state[c] # "left"}
  <2>1. IsFiniteSet(there)
    BY PresenceAssumption, FS_Subset
  <2>2. Cardinality(there) \in Nat
    BY <2>1, FS_CardinalityType
  <2> QED
    BY <1>1, <2>2 DEF Timeout, Counted
<1>6. UNCHANGED <<state, lost>> /\ Announce(t, cs, air) /\ air \in SUBSET air
  BY DEF Timeout
<1> QED
  BY <1>2, <1>3, <1>4, <1>5, <1>6, ChangeKeeps

LEMMA ReceiveKeeps ==
  ASSUME Inductive, NEW m \in air, Receive(m)
  PROVE  Inductive'
<1> DEFINE t == m.to
           fresh == {n \in m.news : Fresh(t, n)}
           about(c) == {n \in fresh : n.who = c}
           next(n) == IF n.who = t /\ ~n.here THEN n.clock + 1 ELSE n.clock
           line(c) == CHOOSE n \in about(c) : TRUE
           k == [c \in Tabs |-> IF about(c) = {} THEN clock[t][c] ELSE next(line(c))]
           s == (shown[t] \cup {n.who : n \in {x \in fresh : x.here}})
                  \ {n.who : n \in {x \in fresh : ~x.here /\ x.who # t}}
           cs == {n.who : n \in {x \in fresh : x.here \/ clock[t][x.who] > 0}}
<1>1. clock \in [Tabs -> [Tabs -> Nat]] /\ shown \in [Tabs -> SUBSET Tabs] /\ events \in Nat
  BY DEF Inductive, TypeOK
<1>2. t \in Tabs /\ m.news \in SUBSET News
  BY DEF Inductive, TypeOK, Mails
<1>3. \A n \in fresh : /\ n.who \in Tabs /\ n.clock \in Nat \ {0} /\ n.here \in BOOLEAN
                       /\ n.clock <= clock[n.who][n.who]
                       /\ \/ clock[t][n.who] < n.clock
                          \/ clock[t][n.who] = n.clock /\ ~n.here /\ n.who \in shown[t]
  BY <1>2 DEF News, Fresh, Inductive, OwnerLeads
<1>4. \A c \in Tabs : about(c) # {} => line(c) \in fresh /\ line(c).who = c
  OBVIOUS
<1>5. clock' = [clock EXCEPT ![t] = k]
  BY <1>1, <1>2 DEF Receive
<1>6. shown' = [shown EXCEPT ![t] = s]
  BY <1>1, <1>2 DEF Receive
<1>7. UNCHANGED <<state, lost>> /\ events' \in Nat /\ Announce(t, cs, air \ {m})
  BY <1>1 DEF Receive
<1>8. k \in [Tabs -> Nat] /\ s \in SUBSET Tabs /\ cs \in SUBSET Tabs
  <2>1. ASSUME NEW c \in Tabs PROVE k[c] \in Nat
    BY <1>1, <1>2, <1>3, <1>4
  <2>2. s \in SUBSET Tabs /\ cs \in SUBSET Tabs
    BY <1>1, <1>2, <1>3
  <2> QED
    BY <2>1, <2>2
<1>9. Forward(t, cs, k, s)
  <2> HIDE DEF fresh
  <2>1. ASSUME NEW c \in Tabs
        PROVE  /\ clock[t][c] <= k[c]
               /\ c # t => k[c] <= clock[c][c]
               /\ about(c) # {} => k[c] > 0
               /\ about(c) # {} =>
                    clock[t][c] < k[c] \/ (c \in shown[t] /\ c \notin s)
    <3>1. clock[t][c] \in Nat /\ clock[c][c] \in Nat /\ clock[t][c] <= clock[c][c]
      BY <1>1, <1>2 DEF Inductive, OwnerLeads
    <3>2. CASE about(c) = {}
      BY <3>1, <3>2
    <3>3. CASE about(c) # {}
      <4> DEFINE n == line(c)
      <4>1. n \in fresh /\ n.who = c
        BY <1>4, <3>3
      <4>2. k[c] = next(n)
        BY <3>3
      <4> HIDE DEF n, k
      <4>3. /\ n.clock \in Nat \ {0} /\ n.clock <= clock[c][c]
            /\ \/ clock[t][c] < n.clock
               \/ clock[t][c] = n.clock /\ ~n.here /\ c \in shown[t]
        BY <1>3, <4>1
      <4>4. k[c] = n.clock \/ k[c] = n.clock + 1
        BY <4>2
      <4>5. c # t => k[c] = n.clock
        BY <4>1, <4>2
      <4>6. CASE clock[t][c] < n.clock
        BY <3>1, <3>3, <4>3, <4>4, <4>5, <4>6
      <4>7. CASE clock[t][c] = n.clock /\ ~n.here /\ c \in shown[t]
        <5>1. c # t => c \notin s
          BY <4>1, <4>7
        <5>2. c = t => k[c] = n.clock + 1
          BY <4>1, <4>2, <4>7
        <5> QED
          BY <3>1, <3>3, <4>3, <4>4, <4>5, <4>7, <5>1, <5>2
      <4> QED
        BY <4>3, <4>6, <4>7
    <3> QED
      BY <3>2, <3>3
  <2>2. \A c \in cs : about(c) # {}
    OBVIOUS
  <2>3. \A c \in s : c \in shown[t] \/ \E n \in fresh : n.who = c /\ n.here
    OBVIOUS
  <2>4. ASSUME NEW c \in s
        PROVE  k[c] > 0 /\ (clock[t][c] < k[c] \/ c \in shown[t])
    <3>0. c \in Tabs /\ clock[t][c] \in Nat /\ k[c] \in Nat
      BY <1>1, <1>2, <1>8
    <3>1. CASE c \in shown[t]
      <4>1. clock[t][c] > 0
        BY <1>2, <3>1 DEF Inductive, TypeOK
      <4> QED
        BY <2>1, <3>0, <3>1, <4>1
    <3>2. CASE c \notin shown[t]
      <4>1. about(c) # {}
        BY <2>3, <3>2
      <4> QED
        BY <2>1, <3>0, <3>2, <4>1
    <3> QED
      BY <3>1, <3>2
  <2>5. t \in shown[t] => t \in s
    OBVIOUS
  <2> HIDE DEF k, s, cs
  <2> QED
    BY <1>8, <2>1, <2>2, <2>4, <2>5 DEF Forward
<1> HIDE DEF t, k, s, cs
<1>10. air \ {m} \in SUBSET air
  OBVIOUS
<1> QED
  BY <1>2, <1>5, <1>6, <1>7, <1>8, <1>9, <1>10, ChangeKeeps

LEMMA CloseKeeps ==
  ASSUME Inductive, NEW t \in Tabs, Close(t)
  PROVE  Inductive'
<1> USE DEF Inductive
<1>1. /\ clock' \in [Tabs -> [Tabs -> Nat]] /\ shown' \in [Tabs -> SUBSET Tabs]
      /\ \A e, c \in Tabs : clock'[e][c] = IF e = t /\ c = t THEN clock[e][c] + 1 ELSE clock[e][c]
      /\ \A e \in Tabs : shown'[e] = IF e = t THEN {} ELSE shown[e]
      /\ \A e, c \in Tabs : clock[e][c] \in Nat /\ clock'[e][c] \in Nat
  BY DEF TypeOK, Close
<1>2. UNCHANGED <<said, stale, lost>> /\ events' \in Nat /\ air' \subseteq air
  BY DEF Close, Counted, noteVars, TypeOK
<1>3. TypeOK'
  <2>1. state' \in [Tabs -> {"new", "on", "off", "left"}]
    BY DEF Close, TypeOK
  <2>2. \A e \in Tabs : \A c \in shown'[e] : clock'[e][c] > 0
    BY <1>1 DEF TypeOK
  <2> QED
    BY <1>1, <1>2, <2>1, <2>2 DEF TypeOK
<1>4. OwnerLeads'
  <2>1. \A e, c \in Tabs : clock'[e][c] <= clock'[c][c]
    BY <1>1 DEF OwnerLeads
  <2>2. ASSUME NEW m \in air', NEW n \in m.news
        PROVE  n.clock <= clock'[n.who][n.who]
    <3>1. n \in News /\ n.clock <= clock[n.who][n.who]
      BY <1>2 DEF TypeOK, Mails, OwnerLeads
    <3>2. n.who \in Tabs /\ n.clock \in Nat
      BY <3>1 DEF News
    <3> QED
      BY <1>1, <3>1, <3>2
  <2> QED
    BY <2>1, <2>2 DEF OwnerLeads
<1>5. OwnEntryStays'
  BY <1>1 DEF OwnEntryStays, Close, TypeOK
<1>6. SaidIsPast'
  <2> SUFFICES ASSUME NEW e \in Tabs, NEW n \in said[e]
               PROVE  \/ n.clock < clock'[e][n.who]
                      \/ n.clock = clock'[e][n.who] /\ (n.here \/ n.who \notin shown'[e])
    BY <1>2 DEF SaidIsPast
  <2>1. n.who \in Tabs /\ n.clock \in Nat
    BY DEF TypeOK, News
  <2>2. \/ n.clock < clock[e][n.who]
        \/ n.clock = clock[e][n.who] /\ (n.here \/ n.who \notin shown[e])
    BY DEF SaidIsPast
  <2>3. CASE e = t
    BY <1>1, <2>1, <2>2, <2>3
  <2>4. CASE e # t
    BY <1>1, <2>1, <2>2, <2>4
  <2> QED
    BY <2>3, <2>4
<1>7. OnlyNews'
  BY <1>2 DEF OnlyNews
<1> QED
  BY <1>3, <1>4, <1>5, <1>6, <1>7

-----------------------------------------------------------------------------
(* The theorem.                                                            *)

LEMMA Initially == Init => Inductive
<1> SUFFICES ASSUME Init PROVE Inductive
  OBVIOUS
<1>1. TypeOK
  <2>1. state \in [Tabs -> {"new", "on", "off", "left"}] /\ clock \in [Tabs -> [Tabs -> Nat]]
    BY DEF Init
  <2>2. shown \in [Tabs -> SUBSET Tabs]
    BY DEF Init
  <2>3. said \in [Tabs -> SUBSET News]
    <3>1. {} \in SUBSET News
      OBVIOUS
    <3> QED
      BY <3>1 DEF Init
  <2>4. air \subseteq Mails /\ {stale, lost} \subseteq BOOLEAN /\ events \in Nat
    BY DEF Init
  <2>5. ASSUME NEW t \in Tabs, NEW c \in shown[t] PROVE clock[t][c] > 0
    BY DEF Init
  <2> QED
    BY <2>1, <2>2, <2>3, <2>4, <2>5 DEF TypeOK
<1>2. OwnerLeads /\ OwnEntryStays /\ SaidIsPast /\ OnlyNews
  BY DEF Init, OwnerLeads, OwnEntryStays, SaidIsPast, OnlyNews
<1> QED
  BY <1>1, <1>2 DEF Inductive

LEMMA Step == Inductive /\ [Next]_vars => Inductive'
<1> SUFFICES ASSUME Inductive, [Next]_vars PROVE Inductive'
  OBVIOUS
<1>1. ASSUME NEW t \in Tabs, Open(t) PROVE Inductive'
  BY <1>1, OpenKeeps
<1>2. ASSUME NEW t \in Tabs, Drop(t) PROVE Inductive'
  BY <1>2 DEF Drop, Counted, noteVars, Inductive, TypeOK, OwnerLeads, OwnEntryStays, SaidIsPast,
              OnlyNews
<1>3. ASSUME NEW m \in air, Lose(m) PROVE Inductive'
  BY <1>3 DEF Lose, Counted, noteVars, Inductive, TypeOK, OwnerLeads, OwnEntryStays, SaidIsPast,
              OnlyNews
<1>4. CASE UNCHANGED vars
  BY <1>4 DEF vars, noteVars, Inductive, TypeOK, OwnerLeads, OwnEntryStays, SaidIsPast,
              OnlyNews
<1> QED
  BY <1>1, <1>2, <1>3, <1>4, RenewKeeps, TimeoutKeeps, ReceiveKeeps, CloseKeeps DEF Next

LEMMA InductiveHolds == Spec => []Inductive
BY Initially, Step, PTL DEF Spec

\* The types, and every entry that is shown has a clock, whatever gets lost, times
\* out or is closed.  (y-protocols_awareness.js:155)
THEOREM TypeCorrect == Spec => []TypeOK
<1>1. Inductive => TypeOK
  BY DEF Inductive
<1> QED
  BY <1>1, InductiveHolds, PTL

\* No tab, and no frame, is ever ahead of the owner of an entry.
\* (y-protocols_awareness.js:68-81, 193-207)
THEOREM OwnersLead == Spec => []OwnerLeads
<1>1. Inductive => OwnerLeads
  BY DEF Inductive
<1> QED
  BY <1>1, InductiveHolds, PTL

\* No tab loses its own entry while it is there.  (y-protocols_awareness.js:196-197)
THEOREM OwnEntriesKept == Spec => []OwnEntryStays
<1>1. Inductive => OwnEntryStays
  BY DEF Inductive
<1> QED
  BY <1>1, InductiveHolds, PTL

\* No tab passes on what is no news after what it last said, so gossip ends.
\* (ws-sync.service.ts:72-77)
THEOREM GossipIsNews == Spec => []OnlyNews
<1>1. Inductive => OnlyNews
  BY DEF Inductive
<1> QED
  BY <1>1, InductiveHolds, PTL
=============================================================================
