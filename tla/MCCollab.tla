----------------------------- MODULE MCCollab -----------------------------
(* Collab for TLC: two tabs.                                               *)
EXTENDS Collab
CONSTANTS t1, t2
OneEditOfT1 == [t \in Tabs |-> IF t = t1 THEN 1 ELSE 0]
=============================================================================
