---------------------------- MODULE MCAccounts ----------------------------
(* Accounts for TLC: two tabs of one browser and one of another; one email *)
(* typed in two ways, and another.                                         *)
EXTENDS Accounts, TLC
CONSTANTS t1, t2, t3, b1, b2, ann, Ann, bob, pa, pb
MCBrowser == [t \in Tabs |-> IF t = t3 THEN b2 ELSE b1]
MCNormEmail == [e \in Emails |-> IF e = Ann THEN ann ELSE e]
MCTypes == [b \in Browsers |->
  IF b = b1 THEN [email : {ann, bob}, password : {pa}] ELSE [email : {Ann}, password : {pb}]]
Alike == Permutations({t1, t2})
=============================================================================
