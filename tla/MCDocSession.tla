--------------------------- MODULE MCDocSession ---------------------------
(* DocSession for TLC: one tab, two documents.                             *)
EXTENDS DocSession
CONSTANTS A, B
=============================================================================
