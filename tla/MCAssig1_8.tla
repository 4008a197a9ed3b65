----------------------------- MODULE MCAssig1_8 -----------------------------
(* Instances of Assig1_8 for TLC: a parent and two children.               *)
EXTENDS Assig1_8, TLC

CONSTANTS p0, p1, p2

MCChildren == <<p1, p2>>
MCDests == {<<p1, p2>>}
MCMsgs == ProgMsgs
=============================================================================
