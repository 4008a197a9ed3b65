---------------------------- MODULE Transactions ----------------------------
(***************************************************************************)
(* What the log promises of the disk (the comment at log.c 9-20): system   *)
(* calls change blocks between a begin and an end, the changes of many     *)
(* calls become durable in one step, and only when no call is active.  A   *)
(* crash takes the blocks back to the last such step.                      *)
(***************************************************************************)
CONSTANTS Procs, Blocks, Values, Blank

VARIABLES
  active,   \* the processes between begin_op and end_op
  current,  \* the blocks as system calls see them
  durable   \* the blocks as they are after a crash

vars == <<active, current, durable>>

Init ==
  /\ active = {}
  /\ current = [b \in Blocks |-> Blank]
  /\ durable = current

Begin(p) ==
  /\ p \notin active
  /\ active' = active \cup {p}
  /\ UNCHANGED <<current, durable>>

Write(p, b, v) ==
  /\ p \in active
  /\ current' = [current EXCEPT ![b] = v]
  /\ UNCHANGED <<active, durable>>

End(p) ==
  /\ active' = active \ {p}
  /\ UNCHANGED <<current, durable>>

Commit ==
  /\ active = {}
  /\ durable' = current
  /\ UNCHANGED <<active, current>>

Crash ==
  /\ active' = {}
  /\ current' = durable
  /\ UNCHANGED durable

Next ==
  \/ \E p \in Procs : Begin(p) \/ End(p) \/ \E b \in Blocks, v \in Values : Write(p, b, v)
  \/ Commit
  \/ Crash

Spec == Init /\ [][Next]_vars
=============================================================================
