------------------------------- MODULE Mailbox ------------------------------
(***************************************************************************)
(* What the kernel promises of a message queue: each process has a FIFO    *)
(* box; posting appends to it, taking removes the oldest message and hands *)
(* it over.  Nothing is lost, duplicated, invented or reordered.           *)
(***************************************************************************)
EXTENDS Integers, Sequences

CONSTANTS Procs, Msgs, Junk

VARIABLES
  box,   \* the messages waiting for each process
  got    \* the message last handed to it, and a bit that flips every time

vars == <<box, got>>

Init ==
  /\ box = [p \in Procs |-> <<>>]
  /\ got = [p \in Procs |-> [msg |-> Junk, flip |-> FALSE]]

Post(p, m) ==
  /\ box' = [box EXCEPT ![p] = Append(@, m)]
  /\ UNCHANGED got

Take(p) ==
  /\ box[p] # <<>>
  /\ got' = [got EXCEPT ![p] = [msg |-> Head(box[p]), flip |-> ~ @.flip]]
  /\ box' = [box EXCEPT ![p] = Tail(@)]

Next == \E p \in Procs : Take(p) \/ \E m \in Msgs : Post(p, m)

Spec == Init /\ [][Next]_vars
=============================================================================
