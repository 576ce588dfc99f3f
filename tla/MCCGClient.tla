----------------------------- MODULE MCCGClient -----------------------------
(* Small instances of CGClient: the server changes its static objects once *)
(* while the frames are sent.                                              *)
EXTENDS CGClient, TLC

CONSTANTS r1, r2, c1, c2, before, later

MCLayout(f) == IF f < 2 THEN before ELSE later
MCSymmetry == Permutations(Routes) \cup Permutations(Callers)
=============================================================================
