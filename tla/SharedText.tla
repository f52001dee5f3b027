---------------------------- MODULE SharedText ----------------------------
(***************************************************************************)
(* The text of one document in several tabs: what updateLocal and applied  *)
(* updates of ws-sync.service.ts make of it, and the text area of          *)
(* app.component.ts.  How edits get from tab to tab is left open: any edit *)
(* may reach any tab at any time, or never.  Collab.tla says how they do.  *)
(*                                                                         *)
(* Yjs is external.  A document is the set of edits it holds; applying an  *)
(* update is set union, in any order and any number of times.  An edit that *)
(* stands behind a missing one is kept back, and passed on; what it deletes *)
(* is deleted at once.                                                     *)
(*                                                                         *)
(* An edit adds a letter of its own, and so is its name.  updateLocal       *)
(* deletes the whole text and inserts the text area's, so an edit also has *)
(* the letters that were on the screen, and deletes the edits they were of. *)
(***************************************************************************)
EXTENDS Naturals

CONSTANTS
  Tabs,       \* browser tabs that open the document
  Base,       \* the text stored before any of them did
  MaxEdits    \* bound: MaxEdits[t] is how many edits are made in tab t

ASSUME TextAssumption ==
  /\ MaxEdits \in [Tabs -> Nat]
  /\ \A t \in Tabs : Base \notin {t} \X (0..MaxEdits[t])

EditsOf(t) == {t} \X (1..MaxEdits[t])
Edits == {Base} \cup UNION {EditsOf(t) : t \in Tabs}

\* What there is to know of an edit: the edits it stands behind, those it deletes,
\* the letters it inserts, what its tab had, and whether that was not on the screen.
Writings == [needs : SUBSET Edits, cut : SUBSET Edits, text : SUBSET Edits,
             had : SUBSET Edits, blind : BOOLEAN]

VARIABLES
  doc,    \* doc[t]: the edits in WSSyncService.ydoc
  blank,  \* blank[t]: the text area was emptied, the document was not
  made,   \* the edits users have made, and Base
  past    \* past[e]: the writing of edit e

textVars == <<doc, blank, made, past>>

TextInit ==
  /\ doc = [t \in Tabs |-> {}]
  /\ blank = [t \in Tabs |-> FALSE]
  /\ made = {Base}
  /\ past = [e \in Edits |->
       [needs |-> {}, cut |-> {}, text |-> {e} \cap {Base}, had |-> {}, blind |-> FALSE]]

-----------------------------------------------------------------------------
(* Yjs, and the screen.                                                    *)

\* The edits of D that are not kept back.
Integrated(D) == {e \in D : past[e].needs \subseteq D}

\* Those whose text is still in the document, and their letters.
Visible(D) == Integrated(D) \ UNION {past[e].cut : e \in D}
Letters(D) == UNION {past[e].text : e \in Visible(D)}

\* The edit a new text is put behind, if there is any: one no other stands behind.
\* Among several client ids decide, which are random.
Ends(D) ==
  LET I == Integrated(D)
  IN  IF I = {} THEN {{}} ELSE {{e} : e \in {x \in I : \A f \in I : x \notin past[f].needs}}

\* Edit e stands behind the end of the text and behind the one its tab made before.
Needs(e, end) ==
  LET before == end \cup ({<<e[1], e[2] - 1>>} \cap made)
  IN  before \cup UNION {past[p].needs : p \in before}

\* What the text area of t shows.
OnScreen(t) == IF blank[t] THEN {} ELSE Letters(doc[t])
Unseen(t) == blank[t] /\ Visible(doc[t]) # {}

\* Fault: the letters are inserted, and nothing deleted before.
WritingKeepsOld(t, e, end) ==
  [needs |-> Needs(e, end), cut |-> {}, text |-> OnScreen(t) \cup {e},
   had |-> doc[t], blind |-> Unseen(t)]

\* Fault: the text that was there is deleted, and only the letter inserted.
WritingOnlyNew(t, e, end) ==
  [needs |-> Needs(e, end), cut |-> Visible(doc[t]), text |-> {e},
   had |-> doc[t], blind |-> Unseen(t)]

\* What updateLocal makes of a letter e typed in t: the text there is goes, and the
\* text of the screen comes at its end.
Writing(t, e, end) ==
  [needs |-> Needs(e, end), cut |-> Visible(doc[t]), text |-> OnScreen(t) \cup {e},
   had |-> doc[t], blind |-> Unseen(t)]

\* What es brings changes what t has integrated or shows.
Changes(t, es) ==
  LET D == doc[t] \cup es
  IN  Integrated(D) # Integrated(doc[t]) \/ Visible(D) # Visible(doc[t])

-----------------------------------------------------------------------------

\* updateLocal: a letter is typed in t; the screen then shows what the text is.
Type(t, e) ==
  /\ e \in EditsOf(t) \ made
  /\ \A k \in 1..(e[2] - 1) : <<t, k>> \in made
  /\ \E end \in Ends(doc[t]) : past' = [past EXCEPT ![e] = Writing(t, e, end)]
  /\ made' = made \cup {e}
  /\ doc' = [doc EXCEPT ![t] = @ \cup {e}]
  /\ blank' = [blank EXCEPT ![t] = FALSE]

\* Fault: text of another document comes along.
LearnForeign(t, es, shows) ==
  /\ doc' = [doc EXCEPT ![t] = @ \cup es \cup Edits]
  /\ blank' = [blank EXCEPT ![t] = @ /\ ~shows]
  /\ UNCHANGED <<made, past>>

\* applyUpdate: t learns of edits.  If that changes anything, the text area shows
\* the text again; it does so in any case if shows.
Learn(t, es, shows) ==
  /\ doc' = [doc EXCEPT ![t] = @ \cup es]
  /\ blank' = [blank EXCEPT ![t] = @ /\ ~shows /\ ~Changes(t, es)]
  /\ UNCHANGED <<made, past>>

\* A logout, or a request that failed, empties the text area.
Empty(t) ==
  /\ blank' = [blank EXCEPT ![t] = TRUE]
  /\ UNCHANGED <<doc, made, past>>

TextNext ==
  \E t \in Tabs :
    \/ \E e \in EditsOf(t) : Type(t, e)
    \/ \E es \in SUBSET (made \ doc[t]), shows \in BOOLEAN : Learn(t, es, shows)
    \/ Empty(t)

TextSpec == TextInit /\ [][TextNext]_textVars

-----------------------------------------------------------------------------

\* Every variable keeps its type, and nobody has edits that were not made.
TextTypeOK ==
  /\ doc \in [Tabs -> SUBSET made]
  /\ blank \in [Tabs -> BOOLEAN]
  /\ made \in SUBSET Edits
  /\ past \in [Edits -> Writings]

\* Someone who has the edits D has all that their authors had.
Whole(D) == \A e \in D : past[e].had \subseteq D

\* Although every edit deletes the whole text, no letter is lost, however edits
\* cross: each is in the text of a tab that has all there was before, unless someone
\* typed into a text area that was emptied while the document was not.
\* (ws-sync.service.ts:193-202, app.component.ts:115, 183-187)
NothingTypedIsLost ==
  \A t \in Tabs :
    Whole(doc[t]) /\ (\A e \in doc[t] : ~past[e].blind) => doc[t] \subseteq Letters(doc[t])

\* Every edit inserts the whole text again; but a text is only shown twice after
\* edits made apart, none by someone who had the other.  An edit by someone who has
\* all there is leaves one copy.  (ws-sync.service.ts:193-202)
TwiceOnlyApart ==
  \A t \in Tabs : Whole(doc[t]) =>
    \A v, w \in Visible(doc[t]) : v # w => v \notin Integrated(past[w].had)
=============================================================================
