------------------------------ MODULE Presence ------------------------------
(***************************************************************************)
(* Who is shown in a document: the Awareness of y-protocols (vendored under *)
(* frontend/17.3.17/vite/deps) as ws-sync.service.ts uses it.               *)
(*                                                                         *)
(* Each tab owns one entry, with a clock that only it should advance, and   *)
(* keeps a copy of the others'.  Whatever changes in its copy, by its own   *)
(* doing, by a frame or by a timeout, it sends to the room.  What an entry  *)
(* says (name, colour, cursor) is left out: it is there, or it is null.     *)
(*                                                                         *)
(* Time is left out: a renewal or a timeout may come at any moment.  Frames *)
(* arrive in any order or not at all; what Hub.tla allows is less.  A tab   *)
(* that is closed, or that selects another document, does not come back:    *)
(* the next Y.Doc has a new clientID.                                       *)
(***************************************************************************)
EXTENDS Naturals, FiniteSets

CONSTANTS
  Tabs,      \* tabs, each the owner of one entry
  MaxEvents  \* bound: renewals, tabs closed, frames and connections lost, and
             \* removals of entries of tabs that are still there, taken together

ASSUME PresenceAssumption ==
  IsFiniteSet(Tabs) /\ MaxEvents \in Nat

\* A line of an awareness update, which needs a clock, and a frame on its way to
\* a tab.
News == [who : Tabs, clock : Nat \ {0}, here : BOOLEAN]
Mails == [to : Tabs, news : SUBSET News]

VARIABLES
  state,     \* state[t]: "new", "on", "off" while disconnected, or "left"
  clock,     \* clock[t][c]: meta.get(c).clock in tab t, 0 if there is none
  shown,     \* shown[t]: the keys of states in tab t
  air,       \* frames on the way
  said,      \* said[t]: the last line about each entry that t passed on
  stale,     \* some tab has passed on a line that was no news after its last one
  lost,      \* some frame did not arrive, or some connection broke
  events     \* what MaxEvents bounds, so far

noteVars == <<said, stale>>
vars == <<state, clock, shown, air, noteVars, lost, events>>

\* The service sets the initial state once the constructor has, so the entry of
\* a new tab has clock 1; its frame finds no socket.
Init ==
  /\ state = [t \in Tabs |-> "new"]
  /\ clock = [t \in Tabs |-> [c \in Tabs |-> IF c = t THEN 1 ELSE 0]]
  /\ shown = [t \in Tabs |-> {t}]
  /\ air = {}
  /\ said = [t \in Tabs |-> {}]
  /\ stale = FALSE
  /\ lost = FALSE
  /\ events = 0

\* Fault: a line with the clock at hand counts as new.
FreshOrSame(t, n) == clock[t][n.who] <= n.clock

\* applyAwarenessUpdate: the line tells t something.  Clocks of others start at
\* 1, so an unknown entry needs no case of its own.
Fresh(t, n) ==
  \/ clock[t][n.who] < n.clock
  \/ clock[t][n.who] = n.clock /\ ~n.here /\ n.who \in shown[t]

\* What t has to say about the entries cs, after the step.
Lines(t, cs) == {[who |-> c, clock |-> clock'[t][c], here |-> c \in shown'[t]] : c \in cs}

\* The room gets a frame with these lines, the sender included.  Frames that tell
\* their receiver nothing any more (and never will, as clocks grow) are left out of
\* air.
Send(lines, pool) ==
  LET mails == {[to |-> e, news |-> lines] : e \in {x \in Tabs : state'[x] = "on"}}
  IN  air' = {m \in pool \cup mails : \E n \in m.news : Fresh(m.to, n)'}

\* Line n is news after line l about the same entry.
Later(n, l) == l.clock < n.clock \/ (l.clock = n.clock /\ l.here /\ ~n.here)

\* The "update" event for the entries cs, if there are any: t sends them, if it is
\* connected.
Announce(t, cs, pool) ==
  LET lines == IF state[t] = "on" THEN Lines(t, cs) ELSE {}
  IN  /\ Send(lines, pool)
      /\ said' = [said EXCEPT ![t] = {l \in @ : \A n \in lines : n.who # l.who} \cup lines]
      /\ stale' = (stale \/ \E n \in lines, l \in said[t] : n.who = l.who /\ ~Later(n, l))

\* k more of the events that are bounded.
Counted(k) == events' = events + k /\ events' <= MaxEvents

-----------------------------------------------------------------------------

\* onopen, for the first time or again: t sends its own entry as it is.
Open(t) ==
  /\ state[t] \in {"new", "off"}
  /\ state' = [state EXCEPT ![t] = "on"]
  /\ UNCHANGED <<clock, shown, noteVars, lost, events>>
  /\ Send(Lines(t, {t}), air)

\* setLocalState: t's entry gets a newer clock.
SetLocalState(t) ==
  /\ clock' = [clock EXCEPT ![t][t] = @ + 1]
  /\ UNCHANGED <<state, shown, lost>>
  /\ Announce(t, {t}, air)

\* updateMyCursor: the cursor moves; or the entry is 15 seconds old.
Renew(t) ==
  /\ state[t] # "left"
  /\ Counted(1)
  /\ SetLocalState(t)

\* Fault: removed entries are forgotten altogether, clock and all.
TimeoutForgets(t, cs) ==
  /\ state[t] # "left"
  /\ cs # {} /\ cs \subseteq shown[t] \ {t}
  /\ Counted(Cardinality({c \in cs : state[c] # "left"}))
  /\ shown' = [shown EXCEPT ![t] = @ \ cs]
  /\ clock' = [clock EXCEPT ![t] = [c \in Tabs |-> IF c \in cs THEN 0 ELSE @[c]]]
  /\ UNCHANGED <<state, lost>>
  /\ Announce(t, cs, air)

\* Fault: a removal counts as a change of the entry.
TimeoutBumps(t, cs) ==
  /\ state[t] # "left"
  /\ cs # {} /\ cs \subseteq shown[t] \ {t}
  /\ Counted(Cardinality({c \in cs : state[c] # "left"}))
  /\ shown' = [shown EXCEPT ![t] = @ \ cs]
  /\ clock' = [clock EXCEPT ![t] = [c \in Tabs |-> IF c \in cs THEN @[c] + 1 ELSE @[c]]]
  /\ UNCHANGED <<state, lost>>
  /\ Announce(t, cs, air)

\* Fault: other tabs are not told.
TimeoutQuietly(t, cs) ==
  /\ state[t] # "left"
  /\ cs # {} /\ cs \subseteq shown[t] \ {t}
  /\ Counted(Cardinality({c \in cs : state[c] # "left"}))
  /\ shown' = [shown EXCEPT ![t] = @ \ cs]
  /\ UNCHANGED <<state, clock, lost>>
  /\ Announce(t, {}, air)

\* The interval finds entries that are 30 seconds old, and removes them.
Timeout(t, cs) ==
  /\ state[t] # "left"
  /\ cs # {} /\ cs \subseteq shown[t] \ {t}
  /\ Counted(Cardinality({c \in cs : state[c] # "left"}))
  /\ shown' = [shown EXCEPT ![t] = @ \ cs]
  /\ UNCHANGED <<state, clock, lost>>
  /\ Announce(t, cs, air)

\* Fault: a tab that is told to be gone believes it.
ReceiveObeys(m) ==
  LET t == m.to
      fresh == {n \in m.news : Fresh(t, n)}
      about(c) == {n \in fresh : n.who = c}
  IN  /\ m \in air
      /\ clock' = [clock EXCEPT ![t] = [c \in Tabs |->
                     IF about(c) = {} THEN @[c] ELSE (CHOOSE n \in about(c) : TRUE).clock]]
      /\ shown' = [shown EXCEPT ![t] = (@ \cup {n.who : n \in {x \in fresh : x.here}})
                                          \ {n.who : n \in {x \in fresh : ~x.here}}]
      /\ UNCHANGED <<state, lost, events>>
      /\ Announce(t, {n.who : n \in {x \in fresh : x.here \/ clock[t][x.who] > 0}}, air \ {m})

\* applyAwarenessUpdate.  A tab that is told that it is gone itself stays, with
\* a newer clock; a removal of an entry it does not know is noted silently.
Receive(m) ==
  LET t == m.to
      fresh == {n \in m.news : Fresh(t, n)}
      about(c) == {n \in fresh : n.who = c}
      next(n) == IF n.who = t /\ ~n.here THEN n.clock + 1 ELSE n.clock
  IN  /\ m \in air
      /\ clock' = [clock EXCEPT ![t] = [c \in Tabs |->
                     IF about(c) = {} THEN @[c] ELSE next(CHOOSE n \in about(c) : TRUE)]]
      /\ shown' = [shown EXCEPT ![t] = (@ \cup {n.who : n \in {x \in fresh : x.here}})
                                          \ {n.who : n \in {x \in fresh : ~x.here /\ x.who # t}}]
      /\ UNCHANGED <<state, lost, events>>
      /\ Announce(t, {n.who : n \in {x \in fresh : x.here \/ clock[t][x.who] > 0}}, air \ {m})

\* A buffer is full, Redis loses its connection: a frame does not arrive.
Lose(m) ==
  /\ m \in air
  /\ air' = air \ {m}
  /\ lost' = TRUE
  /\ Counted(1)
  /\ UNCHANGED <<state, clock, shown, noteVars>>

\* The connection breaks; the service retries, with the entries it has.
Drop(t) ==
  /\ state[t] = "on"
  /\ state' = [state EXCEPT ![t] = "off"]
  /\ air' = {m \in air : m.to # t}
  /\ lost' = TRUE
  /\ Counted(1)
  /\ UNCHANGED <<clock, shown, noteVars>>

\* The tab is closed, or resetDocument destroys the Awareness: the last "update"
\* event comes when the socket is already closing, and is sent to nobody.
Close(t) ==
  /\ state[t] # "left"
  /\ Counted(1)
  /\ state' = [state EXCEPT ![t] = "left"]
  /\ shown' = [shown EXCEPT ![t] = {}]
  /\ clock' = [clock EXCEPT ![t][t] = @ + 1]
  /\ air' = {m \in air : m.to # t}
  /\ UNCHANGED <<noteVars, lost>>

Next ==
  \/ \E t \in Tabs : Open(t) \/ Renew(t) \/ Drop(t) \/ Close(t)
  \/ \E t \in Tabs, cs \in SUBSET Tabs : Timeout(t, cs)
  \/ \E m \in air : Receive(m) \/ Lose(m)

\* Frames that are not lost arrive, and entries of tabs that left time out.
Fairness ==
  /\ WF_vars(\E m \in air : Receive(m))
  /\ \A t \in Tabs : WF_vars(Timeout(t, {c \in shown[t] : state[c] = "left"}))

Spec == Init /\ [][Next]_vars
FairSpec == Spec /\ Fairness

-----------------------------------------------------------------------------

\* Every variable keeps its type, and an entry that is shown has a clock, which
\* encodeAwarenessUpdate takes for granted.  (y-protocols_awareness.js:155)
TypeOK ==
  /\ state \in [Tabs -> {"new", "on", "off", "left"}]
  /\ clock \in [Tabs -> [Tabs -> Nat]]
  /\ shown \in [Tabs -> SUBSET Tabs]
  /\ air \subseteq Mails
  /\ said \in [Tabs -> SUBSET News]
  /\ {stale, lost} \subseteq BOOLEAN
  /\ events \in Nat
  /\ \A t \in Tabs : \A c \in shown[t] : clock[t][c] > 0

\* Nobody is ever ahead of the owner of an entry: what others make of it, and send
\* on, can always be overruled.  (y-protocols_awareness.js:68-81, 193-207)
OwnerLeads ==
  /\ \A t, c \in Tabs : clock[t][c] <= clock[c][c]
  /\ \A m \in air : \A n \in m.news : n.clock <= clock[n.who][n.who]

\* A tab never loses its own entry while it is there, whatever others tell it.
\* (y-protocols_awareness.js:196-197)
OwnEntryStays == \A t \in Tabs : state[t] # "left" => t \in shown[t]

\* Every tab passes on what it is told, the service makes no difference by origin
\* (ws-sync.service.ts:72-77); and yet no tab passes on what is no news after what
\* it last said about an entry, so a change costs no more than a frame of each tab,
\* and nobody is ever taken back to an older state.
OnlyNews == ~stale

\* The entry of a tab that left disappears for good from all the others, although
\* they keep passing on what they know.  (y-protocols_awareness.js:38-46)
GhostsVanish ==
  \A c \in Tabs : \A t \in Tabs \ {c} : state[c] = "left" ~> [](c \notin shown[t])

\* A tab that is there, and was removed by mistake somewhere, is shown there again
\* without waiting for its next renewal, if that removal is about its newest clock
\* and no frame gets lost.  (y-protocols_awareness.js:40-45, 194-207,
\* ws-sync.service.ts:72-77)
SeenAgain ==
  LET Both(t, c) == state[t] = "on" /\ state[c] = "on" /\ ~lost
  IN  \A t \in Tabs : \A c \in Tabs \ {t} :
        Both(t, c) /\ clock[t][c] = clock[c][c] ~> ~Both(t, c) \/ c \in shown[t]
=============================================================================
