----------------------------- MODULE MCPresence -----------------------------
(* Presence for TLC: tabs of one document.                                 *)
EXTENDS Presence
CONSTANTS t1, t2, t3
=============================================================================
