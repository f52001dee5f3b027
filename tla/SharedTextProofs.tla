------------------------- MODULE SharedTextProofs -------------------------
(***************************************************************************)
(* What SharedText promises of the text, for any tabs and edits: an        *)
(* argument about every set of edits that anybody could have, not only     *)
(* those the tabs have now.                                                *)
(***************************************************************************)
EXTENDS SharedText, TLAPS

\* No letter is missing from the text of anyone who has all that was seen.
Kept ==
  \A D \in SUBSET made :
    Whole(D) /\ (\A e \in D : ~past[e].blind) => D \subseteq Letters(D)

\* A tab has what was typed in it, and what it had then.
OwnHeld ==
  \A t \in Tabs : \A e \in EditsOf(t) \cap made : e \in doc[t] /\ past[e].had \subseteq doc[t]

\* An edit is about what its tab had.
About ==
  \A e \in made :
    /\ past[e].had \subseteq made
    /\ past[e].needs \subseteq past[e].had
    /\ past[e].cut = Visible(past[e].had)

\* The inductive invariant.
TextInv == TextTypeOK /\ OwnHeld /\ About /\ Kept

\* What is in the text is a matter of the edits that are in it.
LEMMA SamePast ==
  ASSUME NEW P, NEW Q, NEW S, \A d \in S : P[d] = Q[d]
  PROVE  /\ {x \in S : P[x].needs \subseteq S} = {x \in S : Q[x].needs \subseteq S}
         /\ UNION {P[x].cut : x \in S} = UNION {Q[x].cut : x \in S}
<1>1. {x \in S : P[x].needs \subseteq S} = {x \in S : Q[x].needs \subseteq S}
  OBVIOUS
<1>2. {P[x].cut : x \in S} = {Q[x].cut : x \in S}
  OBVIOUS
<1>3. QED BY <1>1, <1>2

\* In the beginning there is Base, which stands behind nothing.
LEMMA TextInitKeeps == TextInit => TextInv
<1> SUFFICES ASSUME TextInit PROVE TextInv OBVIOUS
<1> USE TextAssumption DEF TextInit
<1>1. Base \in Edits BY DEF Edits
<1>2. past \in [Edits -> Writings] BY DEF Writings
<1>3. /\ past[Base].needs = {} /\ past[Base].cut = {} /\ past[Base].had = {}
      /\ past[Base].text = {Base}
  BY <1>1
<1>4. TextTypeOK BY <1>1, <1>2 DEF TextTypeOK
<1>5. OwnHeld
  <2> SUFFICES ASSUME NEW t \in Tabs, NEW e \in EditsOf(t) \cap made PROVE FALSE
    BY DEF OwnHeld
  <2> QED BY DEF EditsOf
<1>6. About BY <1>3 DEF About, Visible, Integrated
<1>7. Kept
  <2> SUFFICES ASSUME NEW D \in SUBSET made, NEW d \in D PROVE d \in Letters(D)
    BY DEF Kept
  <2>1. D = {Base} /\ d = Base OBVIOUS
  <2>2. Visible(D) = {Base}
    <3>1. Integrated(D) = {Base} BY <2>1, <1>3 DEF Integrated
    <3>2. \A x \in D : past[x].cut = {} BY <2>1, <1>3
    <3>3. UNION {past[x].cut : x \in D} = {} BY <3>2
    <3> QED BY <3>1, <3>3 DEF Visible
  <2> QED BY <2>1, <2>2, <1>3 DEF Letters
<1>8. QED BY <1>4, <1>5, <1>6, <1>7 DEF TextInv

\* Typing: what becomes of past.
LEMMA TypeSays ==
  ASSUME TextInv, NEW t \in Tabs, NEW e \in EditsOf(t), Type(t, e)
  PROVE  /\ e \in Edits /\ e \notin made /\ e # Base /\ made' = made \cup {e}
         /\ doc[t] \subseteq made
         /\ \A d \in made : past'[d] = past[d]
         /\ past'[e].had = doc[t]
         /\ past'[e].needs \subseteq doc[t]
         /\ past'[e].cut = Visible(doc[t])
         /\ past'[e].text = OnScreen(t) \cup {e}
         /\ past'[e].blind = Unseen(t)
         /\ past' \in [Edits -> Writings]
<1>1. e \in Edits /\ e # Base /\ e[1] = t BY TextAssumption DEF Edits, EditsOf
<1>2. e \notin made /\ made' = made \cup {e} BY DEF Type
<1>3. doc[t] \subseteq made /\ made \subseteq Edits /\ past \in [Edits -> Writings]
  BY DEF TextInv, TextTypeOK
<1>4. PICK end \in Ends(doc[t]) : past' = [past EXCEPT ![e] = Writing(t, e, end)]
  BY DEF Type
<1>5. past'[e] = Writing(t, e, end) /\ \A d \in made : past'[d] = past[d]
  BY <1>1, <1>2, <1>3, <1>4
<1>6. end \subseteq doc[t] /\ \A p \in end : past[p].needs \subseteq doc[t]
  BY DEF Ends, Integrated
<1>7. ASSUME NEW p \in {<<e[1], e[2] - 1>>} \cap made
      PROVE  p \in doc[t] /\ past[p].needs \subseteq doc[t]
  <2>1. p \in EditsOf(t) \cap made
    <3>1. p = <<t, e[2] - 1>> /\ p \in made /\ p \in Edits BY <1>1, <1>3, <1>7
    <3>2. e[2] \in 1..MaxEdits[t] /\ MaxEdits[t] \in Nat BY TextAssumption DEF EditsOf
    <3>3. e[2] - 1 \in 0..MaxEdits[t] BY <3>2
    <3>4. p # Base BY <3>1, <3>3, TextAssumption
    <3>5. PICK u \in Tabs : p \in EditsOf(u) BY <3>1, <3>4 DEF Edits
    <3>6. u = t BY <3>1, <3>5 DEF EditsOf
    <3> QED BY <3>1, <3>5, <3>6
  <2>2. QED BY <2>1 DEF TextInv, OwnHeld, About
<1>8. Needs(e, end) \subseteq doc[t] BY <1>6, <1>7 DEF Needs
<1>9. Writing(t, e, end) \in Writings
  <2>1. Visible(doc[t]) \subseteq Edits BY <1>3 DEF Visible, Integrated
  <2>2. Letters(doc[t]) \subseteq Edits BY <1>3, <2>1 DEF Letters, Writings
  <2>3. OnScreen(t) \subseteq Edits BY <2>2 DEF OnScreen
  <2>4. Unseen(t) \in BOOLEAN BY DEF Unseen
  <2> QED BY <1>1, <1>3, <1>8, <2>1, <2>3, <2>4 DEF Writing, Writings
<1>10. past' \in [Edits -> Writings] BY <1>1, <1>3, <1>4, <1>9
<1>11. QED BY <1>1, <1>2, <1>3, <1>5, <1>8, <1>10 DEF Writing

\* Typing keeps the invariant.  The new edit shows all that its tab showed, and only
\* deletes that.
LEMMA TypeKeeps ==
  ASSUME TextInv, NEW t \in Tabs, NEW e \in EditsOf(t), Type(t, e)
  PROVE  TextInv'
<1> USE DEF TextInv
<1>1. /\ e \in Edits /\ e \notin made /\ e # Base /\ made' = made \cup {e}
      /\ doc[t] \subseteq made
      /\ \A d \in made : past'[d] = past[d]
      /\ past'[e].had = doc[t]
      /\ past'[e].needs \subseteq doc[t]
      /\ past'[e].cut = Visible(doc[t])
      /\ past'[e].text = OnScreen(t) \cup {e}
      /\ past'[e].blind = Unseen(t)
      /\ past' \in [Edits -> Writings]
  BY TypeSays
<1>2. doc \in [Tabs -> SUBSET made] /\ blank \in [Tabs -> BOOLEAN] /\ made \subseteq Edits
  BY DEF TextTypeOK
<1>3. doc' = [doc EXCEPT ![t] = @ \cup {e}] /\ blank' = [blank EXCEPT ![t] = FALSE]
  BY DEF Type
<1>4. TextTypeOK' BY <1>1, <1>2, <1>3 DEF TextTypeOK
<1>5. OwnHeld'
  <2> SUFFICES ASSUME NEW u \in Tabs, NEW f \in EditsOf(u), f \in made'
               PROVE  f \in doc'[u] /\ past'[f].had \subseteq doc'[u]
    BY DEF OwnHeld, EditsOf
  <2>1. CASE f = e
    <3>1. u = t BY <2>1 DEF EditsOf
    <3> QED BY <3>1, <2>1, <1>1, <1>2, <1>3
  <2>2. CASE f # e
    <3>1. f \in made /\ past'[f] = past[f] BY <2>2, <1>1
    <3>2. f \in doc[u] /\ past[f].had \subseteq doc[u] BY <3>1 DEF OwnHeld
    <3>3. doc[u] \subseteq doc'[u] BY <1>2, <1>3
    <3> QED BY <3>1, <3>2, <3>3
  <2> QED BY <2>1, <2>2
<1>6. About'
  <2> SUFFICES ASSUME NEW f \in made'
               PROVE  /\ past'[f].had \subseteq made'
                      /\ past'[f].needs \subseteq past'[f].had
                      /\ past'[f].cut = Visible(past[f].had)'
    BY DEF About
  <2>1. \E H \in SUBSET made :
          past'[f].had = H /\ past'[f].needs \subseteq H /\ past'[f].cut = Visible(H)
    <3>1. CASE f = e BY <3>1, <1>1
    <3>2. CASE f # e BY <3>2, <1>1 DEF About
    <3> QED BY <3>1, <3>2
  <2>2. PICK H \in SUBSET made :
          past'[f].had = H /\ past'[f].needs \subseteq H /\ past'[f].cut = Visible(H)
    BY <2>1
  <2>3. \A d \in H : past'[d] = past[d] BY <1>1
  <2>4. Visible(past[f].had)' = Visible(H)
    <3>1. /\ {x \in H : past'[x].needs \subseteq H} = {x \in H : past[x].needs \subseteq H}
          /\ UNION {past'[x].cut : x \in H} = UNION {past[x].cut : x \in H}
      BY <2>3, SamePast
    <3> QED BY <3>1, <2>2 DEF Visible, Integrated
  <2> QED BY <1>1, <2>2, <2>4
<1>7. Kept'
  <2> SUFFICES ASSUME NEW D, D \subseteq made', Whole(D)', \A d \in D : ~past'[d].blind
               PROVE  D \subseteq Letters(D)'
    BY DEF Kept
  <2> DEFINE O == D \ {e}
  <2>1. O \subseteq made /\ \A d \in O : past'[d] = past[d] BY <1>1
  <2>2. \A d \in O : past[d].had \subseteq O
    <3> SUFFICES ASSUME NEW d \in O PROVE past[d].had \subseteq O OBVIOUS
    <3>1. past[d].had \subseteq D BY <2>1 DEF Whole
    <3>2. past[d].had \subseteq made BY <2>1 DEF About
    <3> QED BY <3>1, <3>2, <1>1
  <2>3. O \subseteq Letters(O)
    <3>1. Whole(O) BY <2>2 DEF Whole
    <3>2. \A d \in O : ~past[d].blind BY <2>1
    <3> QED BY <2>1, <3>1, <3>2 DEF Kept
  <2>4. CASE e \notin D
    <3>1. O = D BY <2>4
    <3>2. {x \in D : past'[x].needs \subseteq D} = {x \in D : past[x].needs \subseteq D}
          /\ UNION {past'[x].cut : x \in D} = UNION {past[x].cut : x \in D}
      BY <2>1, <3>1, SamePast
    <3>3. Visible(D)' = Visible(D) BY <3>2 DEF Visible, Integrated
    <3>4. \A v \in Visible(D) : past'[v].text = past[v].text
      BY <2>1, <3>1 DEF Visible, Integrated
    <3>5. Letters(D)' = Letters(D) BY <3>3, <3>4 DEF Letters
    <3> QED BY <2>3, <3>1, <3>5
  <2>5. CASE e \in D
    <3>1. doc[t] \subseteq O BY <2>5, <1>1 DEF Whole
    <3>2. \A d \in O : past'[d].cut \subseteq O
      BY <2>1, <2>2 DEF About, Visible, Integrated
    <3>3. past'[e].cut \subseteq O BY <3>1, <1>1 DEF Visible, Integrated
    <3>4. e \in Visible(D)'
      BY <1>1, <2>5, <3>1, <3>2, <3>3 DEF Visible, Integrated
    <3> SUFFICES ASSUME NEW x \in D
                 PROVE  \E v \in Visible(D)' : x \in past'[v].text
      BY DEF Letters
    <3>5. CASE x = e BY <3>4, <3>5, <1>1
    <3>6. CASE x # e
      <4>1. PICK v \in Visible(O) : x \in past[v].text BY <2>3, <3>6 DEF Letters
      <4>2. v \in O BY <4>1 DEF Visible, Integrated
      <4>3. CASE v \in past'[e].cut
        <5>1. v \in Visible(doc[t]) BY <4>3, <1>1
        <5>2. ~Unseen(t) BY <1>1, <2>5
        <5>3. x \in OnScreen(t) BY <4>1, <5>1, <5>2 DEF OnScreen, Unseen, Letters
        <5> QED BY <5>3, <3>4, <1>1
      <4>4. CASE v \notin past'[e].cut
        <5>1. past'[v].needs \subseteq D BY <4>1, <4>2, <2>1 DEF Visible, Integrated
        <5>2. \A d \in O : v \notin past'[d].cut BY <4>1, <2>1 DEF Visible
        <5>3. v \in Visible(D)' BY <4>2, <4>4, <5>1, <5>2 DEF Visible, Integrated
        <5> QED BY <5>3, <4>1, <4>2, <2>1
      <4> QED BY <4>3, <4>4
    <3> QED BY <3>5, <3>6
  <2> QED BY <2>4, <2>5
<1>8. QED BY <1>4, <1>5, <1>6, <1>7

\* The rest changes nothing that was made.
LEMMA SameMade ==
  ASSUME About, Kept, UNCHANGED <<made, past>> PROVE About' /\ Kept'
<1>1. About' BY DEF About, Visible, Integrated
<1>2. ASSUME NEW D \in SUBSET made, Whole(D)', \A d \in D : ~past'[d].blind
      PROVE  D \subseteq Letters(D)'
  <2>1. D \subseteq Letters(D) BY <1>2 DEF Kept, Whole
  <2>2. Visible(D)' = Visible(D) BY DEF Visible, Integrated
  <2>3. Letters(D)' = Letters(D) BY <2>2 DEF Letters
  <2> QED BY <2>1, <2>3
<1>3. QED BY <1>1, <1>2 DEF Kept

\* Learning of edits, or an emptied text area.
LEMMA OthersKeep ==
  ASSUME TextInv, UNCHANGED <<made, past>>, NEW t \in Tabs, NEW es \in SUBSET made,
         doc' = [doc EXCEPT ![t] = @ \cup es], blank' \in [Tabs -> BOOLEAN]
  PROVE  TextInv'
<1> USE DEF TextInv
<1>1. doc \in [Tabs -> SUBSET made] BY DEF TextTypeOK
<1>2. TextTypeOK' BY <1>1 DEF TextTypeOK
<1>3. \A u \in Tabs : doc[u] \subseteq doc'[u] BY <1>1
<1>4. OwnHeld' BY <1>3 DEF OwnHeld
<1>5. QED BY <1>2, <1>4, SameMade

LEMMA StutterKeeps == ASSUME TextInv, UNCHANGED textVars PROVE TextInv'
<1>1. TextTypeOK' /\ OwnHeld' BY DEF TextInv, TextTypeOK, OwnHeld, textVars
<1>2. QED BY <1>1, SameMade DEF TextInv, textVars

LEMMA TextNextKeeps == TextInv /\ [TextNext]_textVars => TextInv'
<1> SUFFICES ASSUME TextInv, [TextNext]_textVars PROVE TextInv' OBVIOUS
<1>0. doc \in [Tabs -> SUBSET made] /\ blank \in [Tabs -> BOOLEAN] BY DEF TextInv, TextTypeOK
<1>1. ASSUME NEW t \in Tabs, NEW e \in EditsOf(t), Type(t, e) PROVE TextInv'
  BY <1>1, TypeKeeps
<1>2. ASSUME NEW t \in Tabs, NEW es \in SUBSET made, NEW shows \in BOOLEAN,
             Learn(t, es, shows)
      PROVE  TextInv'
  <2>1. blank' \in [Tabs -> BOOLEAN] BY <1>0, <1>2 DEF Learn, Changes
  <2> QED BY <2>1, <1>2, OthersKeep DEF Learn
<1>3. ASSUME NEW t \in Tabs, Empty(t) PROVE TextInv'
  <2>1. doc' = [doc EXCEPT ![t] = @ \cup {}] BY <1>0, <1>3 DEF Empty
  <2>2. blank' \in [Tabs -> BOOLEAN] BY <1>0, <1>3 DEF Empty
  <2>3. {} \in SUBSET made OBVIOUS
  <2> QED BY <2>1, <2>2, <2>3, <1>3, OthersKeep DEF Empty
<1>4. QED BY <1>1, <1>2, <1>3, StutterKeeps DEF TextNext

LEMMA TextHolds == TextSpec => []TextInv
BY TextInitKeeps, TextNextKeeps, PTL DEF TextSpec

\* The types, and nobody has an edit that was not made.
THEOREM TextTypeCorrect == TextSpec => []TextTypeOK
<1>1. TextInv => TextTypeOK BY DEF TextInv
<1>2. QED BY <1>1, TextHolds, PTL

\* Replacing the whole text with every edit loses none that the author saw or did not
\* know of (updateLocal, ws-sync.service.ts:193-202).
THEOREM NoLetterLost == TextSpec => []NothingTypedIsLost
<1>1. TextInv => NothingTypedIsLost
  BY DEF TextInv, TextTypeOK, Kept, NothingTypedIsLost
<1>2. QED BY <1>1, TextHolds, PTL

\* Two copies of a text are always by authors who did not know of each other's
\* (updateLocal, ws-sync.service.ts:193-202).
THEOREM NoCopyOfTheSeen == TextSpec => []TwiceOnlyApart
<1>1. TextInv => TwiceOnlyApart
  <2> SUFFICES ASSUME TextInv, NEW t \in Tabs, Whole(doc[t]),
                      NEW v \in Visible(doc[t]), NEW w \in Visible(doc[t]), v # w,
                      v \in Integrated(past[w].had)
               PROVE  FALSE
    BY DEF TwiceOnlyApart
  <2>1. w \in doc[t] /\ w \in made
    BY DEF Visible, Integrated, TextInv, TextTypeOK
  <2>2. past[w].cut = Visible(past[w].had) /\ past[w].had \subseteq doc[t]
    BY <2>1 DEF TextInv, About, Whole
  <2>3. v \notin past[w].cut BY <2>1 DEF Visible
  <2>4. PICK d \in past[w].had : v \in past[d].cut BY <2>2, <2>3 DEF Visible
  <2>5. d \in doc[t] BY <2>2, <2>4
  <2> QED BY <2>4, <2>5 DEF Visible
<1>2. QED BY <1>1, TextHolds, PTL
=============================================================================
