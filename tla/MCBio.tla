------------------------------- MODULE MCBio --------------------------------
(***************************************************************************)
(* An instance of Bio for TLC: p1 holds up to two buffers at a time, p2    *)
(* one.                                                                    *)
(***************************************************************************)
EXTENDS Bio

CONSTANTS p1, p2

TwoAndOne == [p \in {p1, p2} |-> IF p = p1 THEN 2 ELSE 1]
=============================================================================
