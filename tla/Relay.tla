------------------------------- MODULE Relay -------------------------------
(***************************************************************************)
(* What the WebSocket backend promises, without hubs, rooms, queues or     *)
(* Redis: whatever a client receives was sent by a client of the same      *)
(* document, and whatever is kept for a document is a snapshot that one of *)
(* its clients sent.  Nothing is promised to arrive, or to be kept.        *)
(***************************************************************************)
EXTENDS Naturals, Sequences

CONSTANTS Conns, Docs, DocOf, StoredDocs, Frames, NoBody

VARIABLES
  sent,     \* sent[c]: the frames client c has sent, in order
  got,      \* got[c]: the frames client c has received, in order
  kept,     \* kept[d]: the snapshot kept for document d
  edition   \* edition[d]: how many snapshots have been kept for d

relayVars == <<sent, got, kept, edition>>

\* The frames sent so far by the clients of document d.
SentFor(d) ==
  UNION {{sent[c][n] : n \in 1..Len(sent[c])} : c \in {x \in Conns : DocOf[x] = d}}

Init ==
  /\ sent = [c \in Conns |-> <<>>]
  /\ got = [c \in Conns |-> <<>>]
  /\ kept = [d \in Docs |-> NoBody]
  /\ edition = [d \in Docs |-> 0]

Send(c) ==
  /\ \E f \in Frames : sent' = [sent EXCEPT ![c] = Append(@, f)]
  /\ UNCHANGED <<got, kept, edition>>

Deliver(c) ==
  /\ \E f \in SentFor(DocOf[c]) : got' = [got EXCEPT ![c] = Append(@, f)]
  /\ UNCHANGED <<sent, kept, edition>>

Keep(d) ==
  /\ d \in StoredDocs
  /\ \E f \in SentFor(d) :
       /\ f.type = "syncRes" /\ f.body # NoBody
       /\ kept' = [kept EXCEPT ![d] = f.body]
  /\ edition' = [edition EXCEPT ![d] = @ + 1]
  /\ UNCHANGED <<sent, got>>

Next ==
  \/ \E c \in Conns : Send(c) \/ Deliver(c)
  \/ \E d \in Docs : Keep(d)

RelaySpec == Init /\ [][Next]_relayVars
=============================================================================
