--------------------------- MODULE MCSharedText ---------------------------
(* SharedText for TLC: a few tabs and edits.                               *)
EXTENDS SharedText, FiniteSets, TLC
CONSTANTS t1, t2, t3
TwoEach == [t \in Tabs |-> 2]
ThreeInAll == Cardinality(made) <= 4
Alike == Permutations(Tabs)
=============================================================================
