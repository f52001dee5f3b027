------------------------------- MODULE MCHub -------------------------------
(* Instances of HubClients for TLC: which connections there are, where they *)
(* live, and how much they say.  Every cfg picks a topology below.          *)
EXTENDS HubClients

CONSTANTS a, b, z, r1, r2, d1, d2

MCBodies == UNION {{c} \X (1..Quota[c]) : c \in Conns}
MCRoomIds == 1..(Cardinality(Instances) * Cardinality(Docs) + 1)

\* One replica, one document.
HomeOne == [c \in Conns |-> r1]
DocOfOne == [c \in Conns |-> d1]
\* Two replicas: a on its own, the others together.
HomeTwo == [c \in Conns |-> IF c = a THEN r1 ELSE r2]
\* b and a share a document, z has another.
DocOfTwo == [c \in Conns |-> IF c = z THEN d2 ELSE d1]

QuotaTwoOfA == [c \in Conns |-> IF c = a THEN 2 ELSE 0]
=============================================================================
