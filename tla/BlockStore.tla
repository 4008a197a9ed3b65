----------------------------- MODULE BlockStore -----------------------------
(***************************************************************************)
(* What the buffer cache promises (the comment at bio.c 3-15): the disk is *)
(* an array of blocks, a process has a block to itself between bread and   *)
(* brelse, and what it reads is what the last one to change the block left *)
(* there.                                                                  *)
(***************************************************************************)
CONSTANTS Procs, Blocks, Values, Blank, Nobody

VARIABLES
  content,  \* what each block holds
  owner     \* who has it

vars == <<content, owner>>

Init ==
  /\ content = [k \in Blocks |-> Blank]
  /\ owner = [k \in Blocks |-> Nobody]

Take(p, k) ==
  /\ owner[k] = Nobody
  /\ owner' = [owner EXCEPT ![k] = p]
  /\ UNCHANGED content

Change(p, k, v) ==
  /\ owner[k] = p
  /\ content' = [content EXCEPT ![k] = v]
  /\ UNCHANGED owner

Give(p, k) ==
  /\ owner[k] = p
  /\ owner' = [owner EXCEPT ![k] = Nobody]
  /\ UNCHANGED content

Next ==
  \E p \in Procs, k \in Blocks :
     Take(p, k) \/ Give(p, k) \/ \E v \in Values : Change(p, k, v)

Spec == Init /\ [][Next]_vars
=============================================================================
