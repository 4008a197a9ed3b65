------------------------------- MODULE MCIpc --------------------------------
(***************************************************************************)
(* Instances of Ipc for TLC.  Each run gives a few processes the calls     *)
(* whose interleavings it is about.                                        *)
(***************************************************************************)
EXTENDS Ipc, TLC

CONSTANTS
  p1, p2, p3,
  CallSets      \* the programs of an execution make the calls of one of these

OneDest == {<<p1>>}

TwoDests == {<<p1, p2>>}

(* p1 waits for signals, and may exit.  p2 multicasts to it and to itself, *)
(* and kills it.                                                           *)
MulticastCalls ==
  {<<p2, "send_multi", p1>>, <<p2, "kill", p1>>, <<p1, "sig_pause", p1>>, <<p1, "exit", p1>>}

(* p1 waits for messages, and may exit.  p2 sends it messages, kills it    *)
(* and signals itself.                                                     *)
UnicastCalls ==
  {<<p2, "send", p1>>, <<p2, "sig_send", p2>>, <<p2, "kill", p1>>,
   <<p1, "recv", p1>>, <<p1, "exit", p1>>}

MixedCallSets == {MulticastCalls, UnicastCalls}
MixedCalls == UNION MixedCallSets

(* p1 waits for the bare signals of p2; p3 may kill it.                    *)
SigSendCalls == {<<p2, "sig_send", p1>>, <<p1, "sig_pause", p1>>, <<p3, "kill", p1>>}
SigSendCallSets == {SigSendCalls}

VARIABLE calls

MCInit == Init /\ calls \in CallSets

MCNext ==
  /\ \/ \E p \in Procs : scheduler(p) \/ yield(p) \/ trap(p) \/ KernelStep(p) \/ ret_signal(p)
     \/ \E c \in calls : Call(c[1], c[2], c[3])
  /\ UNCHANGED calls

MCSpec == MCInit /\ [][MCNext]_<<vars, calls>>

(* No definition tells two messages apart.                                 *)
Symmetry == Permutations(Msgs)
=============================================================================
