------------------------------ MODULE Assig1_8 ------------------------------
(***************************************************************************)
(* The program assig1_8 on top of the kernel of Ipc.  The children send    *)
(* the parent their partial sums by unicast.  With type 0 that is all.     *)
(* With type 1 the parent multicasts the mean, a child that does not have  *)
(* it yet waits for it in sig_pause, and the children send their partial   *)
(* variances.  Init is the state after the parent's forks.                 *)
(***************************************************************************)
EXTENDS Ipc

CONSTANTS
  Parent,     \* the process that forked the others
  c_ids,      \* its children, in the order it forked them
  type        \* argv[1]: 0 or 1

Children == Procs \ {Parent}

Sum(c) == <<"sum", c>>
Var(c) == <<"var", c>>
Mean == <<"mean", Parent>>

ProgMsgs == {Sum(c) : c \in Children} \cup {Var(c) : c \in Children} \cup {Mean}

(* The system calls of the parent and of its children.                     *)
ProgCalls ==
  {<<Parent, call, Parent>> : call \in {"recv", "send_multi", "exit"}} \cup
  {<<c, call, Parent>> : c \in Children, call \in {"send", "sig_pause", "exit"}}

(* The parent has at least one child and has noted the pid of each once.   *)
(* A queue has room for all the messages of the children, and one of the   *)
(* signals for a signal (CHILDS is 5, NUM_MSG 32 and MAX_SIG 5).           *)
ASSUME ProgAssumption ==
  /\ Parent \in Procs
  /\ c_ids \in Seq(Children)
  /\ Len(c_ids) > 0
  /\ \A c \in Children : \E i \in 1 .. Len(c_ids) : c_ids[i] = c
  /\ \A i, j \in 1 .. Len(c_ids) : c_ids[i] = c_ids[j] => i = j
  /\ 2 * Len(c_ids) < NUM_MSG
  /\ MAX_SIG > 1
  /\ type \in {0, 1}
  /\ ProgMsgs \subseteq Msgs
  /\ c_ids \in DestLists
  /\ Calls = ProgCalls

VARIABLES
  upc,         \* the statement of main each process is at
  sreceived,   \* sreceived[this_child_id], in each child's memory
  mean,        \* mean_received, in each child's memory
  received     \* the messages the parent has added up

progVars == <<upc, sreceived, mean, received>>

allVars == <<vars, progVars>>

InitProg ==
  /\ Init
  /\ upc = [p \in Procs |-> IF p = Parent THEN "recv_sum" ELSE "send_sum"]
  /\ sreceived = [c \in Children |-> FALSE]
  /\ mean = [c \in Children |-> Junk]
  /\ received = <<>>

(* p's program goes on to statement s.                                     *)
Continue(p, s) == upc' = [upc EXCEPT ![p] = s]

InUser(p) == pc[p] = "user" /\ Executing(p) /\ ~ handling[p]

-----------------------------------------------------------------------------
(* The program's own steps.                                                *)

(* Faulty: the child does not wait for the mean.                           *)
TestMeanSkip(c) ==
  /\ InUser(c)
  /\ upc[c] = "test"
  /\ Continue(c, "send_var")
  /\ UNCHANGED <<vars, sreceived, mean, received>>

(* if(sreceived[this_child_id]==0) sig_pause();  -- the test               *)
TestMean(c) ==
  /\ InUser(c)
  /\ upc[c] = "test"
  /\ Continue(c, IF sreceived[c] THEN "send_var" ELSE "sig_pause")
  /\ UNCHANGED <<vars, sreceived, mean, received>>

(* Faulty: the mean is sent one sum early.                                 *)
AddUpEarly ==
  LET n == Len(received) + 1
  IN  /\ InUser(Parent)
      /\ upc[Parent] \in {"add_sum", "add_var"}
      /\ received' = Append(received, got[Parent].msg)
      /\ Continue(Parent,
           IF n = Len(c_ids) - 1 THEN "send_multi"
           ELSE IF n < 2 * Len(c_ids) THEN "recv_var" ELSE "wait")
      /\ UNCHANGED <<vars, sreceived, mean>>

(* The parent adds what recv has put in recv_psums[i] or recv_pvar[i].     *)
AddUp ==
  LET n == Len(received) + 1
  IN  /\ InUser(Parent)
      /\ upc[Parent] \in {"add_sum", "add_var"}
      /\ received' = Append(received, got[Parent].msg)
      /\ Continue(Parent,
           IF n < Len(c_ids) THEN "recv_sum"
           ELSE IF n = Len(c_ids) /\ type = 1 THEN "send_multi"
           ELSE IF n > Len(c_ids) /\ n < 2 * Len(c_ids) THEN "recv_var"
           ELSE "wait")
      /\ UNCHANGED <<vars, sreceived, mean>>

(* for(int i=0;i<CHILDS;i++) wait();                                       *)
WaitChildren ==
  /\ InUser(Parent)
  /\ upc[Parent] = "wait"
  /\ \A c \in Children : state[c] = "ZOMBIE"
  /\ Continue(Parent, "exit")
  /\ UNCHANGED <<vars, sreceived, mean, received>>

(* message_handler, and the sig_ret it returns into.                       *)
message_handler(c) ==
  /\ handling[c]
  /\ trap(c)
  /\ mean' = [mean EXCEPT ![c] = hgot[c].msg]
  /\ sreceived' = [sreceived EXCEPT ![c] = TRUE]
  /\ UNCHANGED <<upc, received>>

-----------------------------------------------------------------------------
(* Its system calls.                                                       *)

EnterCall(p) ==
  /\ ~ handling[p]
  /\ upc[p] \notin {"test", "add_sum", "add_var", "wait"}
  /\ trap(p)
  /\ UNCHANGED progVars

ChildCall(c) ==
  /\ ~ handling[c]
  /\ \/ /\ upc[c] = "send_sum"
        /\ send_mess(c, Parent, Sum(c))
        /\ Continue(c, IF type = 1 THEN "test" ELSE "exit")
     \/ upc[c] = "sig_pause" /\ pause_signal(c) /\ Continue(c, "send_var")
     \/ upc[c] = "send_var" /\ send_mess(c, Parent, Var(c)) /\ Continue(c, "exit")
     \/ upc[c] = "exit" /\ exit(c) /\ Continue(c, "done")
  /\ UNCHANGED <<sreceived, mean, received>>

ParentCall ==
  /\ \/ upc[Parent] = "recv_sum" /\ recv_mess(Parent) /\ Continue(Parent, "add_sum")
     \/ /\ upc[Parent] = "send_multi"
        /\ send_multicast(Parent, c_ids, Mean)
        /\ Continue(Parent, "recv_var")
     \/ upc[Parent] = "recv_var" /\ recv_mess(Parent) /\ Continue(Parent, "add_var")
     \/ upc[Parent] = "exit" /\ exit(Parent) /\ Continue(Parent, "done")
  /\ UNCHANGED <<sreceived, mean, received>>

HandlerReturn(c) == ret_signal(c) /\ UNCHANGED progVars

Kernel(p) == KernelStep(p) /\ UNCHANGED progVars
Schedule(p) == scheduler(p) /\ UNCHANGED progVars
Tick(p) == yield(p) /\ UNCHANGED progVars

ChildStep(c) ==
  TestMean(c) \/ message_handler(c) \/ EnterCall(c) \/ ChildCall(c) \/ HandlerReturn(c)

ParentStep == AddUp \/ WaitChildren \/ EnterCall(Parent) \/ ParentCall

Done == (\A p \in Procs : pc[p] = "exited") /\ UNCHANGED allVars

NextProg ==
  \/ \E p \in Procs : Schedule(p) \/ Tick(p) \/ Kernel(p)
  \/ \E c \in Children : ChildStep(c)
  \/ ParentStep
  \/ Done

SpecProg == InitProg /\ [][NextProg]_allVars

-----------------------------------------------------------------------------
(* Properties.                                                             *)

(* A child computes its variance from the parent's mean: it leaves the     *)
(* wait for the mean (assig1_8.c 117-118) only with the mean in            *)
(* mean_received, although sig_pause returns on any wakeup.                *)
VarianceUsesMean ==
  \A c \in Children :
    upc[c] = "send_var" /\ InUser(c) => mean[c] = Mean

(* The parent's sum is over every child once, and no variance is taken for *)
(* a sum: the first CHILDS messages are the partial sums, and those after  *)
(* them the partial variances, each sender once.                           *)
EachChildOnce ==
  LET n == Len(c_ids)
  IN  /\ \A i \in DOMAIN received :
           received[i] \in {(IF i <= n THEN Sum(c) ELSE Var(c)) : c \in Children}
      /\ \A i, j \in DOMAIN received : received[i] = received[j] => i = j

(* A child that sleeps in sig_pause although it has handled the signal:    *)
(* the signal came between its test of sreceived and the call, and there   *)
(* is no other to come (assig1_8.c 117-118).                               *)
MissedMean(c) ==
  /\ pc[c] = "paused" /\ state[c] = "SLEEPING"
  /\ sreceived[c] /\ NoSignal(c)

(* Nothing but a missed mean can stop the program before its end: when no  *)
(* process can run any more all have exited, or a child has missed the     *)
(* mean.  In particular the parent never waits in recv for a message that  *)
(* does not come, and no child sleeps on a signal it has not handled.      *)
StopsOnlyAtMissedMean ==
  (\A p \in Procs : state[p] \in {"SLEEPING", "ZOMBIE"})
    => (\A p \in Procs : pc[p] = "exited") \/ (\E c \in Children : MissedMean(c))
=============================================================================
