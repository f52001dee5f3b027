---------------------------- MODULE MCRateLimit ----------------------------
(* RateLimit for TLC: x and y behind one proxy, z on its own.              *)
EXTENDS RateLimit
CONSTANTS x, y, z, proxy, own
MCAddrOf == [c \in Clients |-> IF c = z THEN own ELSE proxy]
=============================================================================
