-------------------------------- MODULE Ring --------------------------------
(***************************************************************************)
(* The circular queue that struct message_list and struct signals of       *)
(* proc.h share: an array of n slots, the index head of the oldest entry   *)
(* and the index tail of the slot the next entry goes to.  The code keeps  *)
(* no count and never tests for a full queue: head = tail means empty.     *)
(* sender_id, sig_num and s_pid are stored and never read by the kernel,   *)
(* so a slot holds the message alone.                                      *)
(***************************************************************************)
EXTENDS Integers, Sequences

Slots(n) == 0 .. (n - 1)

(* A queue of n slots over the entries S; a slot that was never written    *)
(* holds whatever the memory held, here the entry junk.                    *)
RingType(n, S) == [head : Slots(n), tail : Slots(n), messages : [Slots(n) -> S]]

EmptyRing(n, junk) == [head |-> 0, tail |-> 0, messages |-> [i \in Slots(n) |-> junk]]

IsEmpty(q) == q.head = q.tail

Front(q) == q.messages[q.head]

(* Faulty variants, which the properties must tell from the code: a tail   *)
(* that is not reduced modulo n, and a head that does not advance.         *)
EnqueueNoWrap(q, m, n) ==
  [head |-> q.head, tail |-> q.tail + 1, messages |-> [q.messages EXCEPT ![q.tail] = m]]

DequeueStay(q, n) == q

Enqueue(q, m, n) ==
  [head |-> q.head,
   tail |-> (q.tail + 1) % n,
   messages |-> [q.messages EXCEPT ![q.tail] = m]]

Dequeue(q, n) ==
  [head |-> (q.head + 1) % n, tail |-> q.tail, messages |-> q.messages]

-----------------------------------------------------------------------------
(* The abstraction: how many entries a queue holds, and which, in order.   *)

Count(q, n) == (q.tail - q.head) % n

Contents(q, n) == [i \in 1 .. Count(q, n) |-> q.messages[(q.head + i - 1) % n]]
=============================================================================
