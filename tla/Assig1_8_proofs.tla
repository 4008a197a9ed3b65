-------------------------- MODULE Assig1_8_proofs ---------------------------
(***************************************************************************)
(* Proofs about the program assig1_8, for every number of children: what   *)
(* the parent adds up, what a child computes its variance from, and where  *)
(* the program can stop.  The kernel below it is that of Ipc, and what     *)
(* Ipc_proofs shows of its locks and sleeps is used here.                  *)
(***************************************************************************)
EXTENDS Assig1_8, Ipc_proofs

(* A step that names no prover is for Zenon.                               *)
USE ZenonT(20)

-----------------------------------------------------------------------------
(* The inductive invariant.                                                *)

CHILDS == Len(c_ids)

Sums == {Sum(c) : c \in Children}
Vars == {Var(c) : c \in Children}

Adding == {"add_sum", "add_var"}
Posting == PostSteps \cup {"next"}

(* The entries of a sequence, and that it has none of them twice.          *)
Elements(s) == {s[i] : i \in 1 .. Len(s)}

Distinct(s) == \A i, j \in 1 .. Len(s) : s[i] = s[j] => i = j

(* The parent has not started to multicast the mean, and never will if     *)
(* type is 0.                                                              *)
Before == type = 0 \/ upc[Parent] \in {"recv_sum", "add_sum", "send_multi"}

(* The multicast has not come to c yet; it is posting to c.                *)
StillDue(c) ==
  \/ pc[Parent] = "next" /\ c \in Elements(dests[Parent])
  \/ pc[Parent] \in PostSteps /\ c \in Elements(Tail(dests[Parent]))

PostingTo(c) == pc[Parent] \in {"post", "store"} /\ Head(dests[Parent]) = c

(* The queue for multicasts of a child that has been sent nothing, and of  *)
(* one that has been sent the mean.                                        *)
Unsent == EmptyRing(NUM_MSG, Junk)
Waiting == Enqueue(Unsent, Mean, NUM_MSG)

Signals(c, h, t) == pending_signals[c] = [head |-> h, tail |-> t]

(* How far the mean has come on its way to child c: not sent, in the queue *)
(* without the signal, signalled, given to the handler, noted by it.       *)
Fresh(c) ==
  recv_multi_queue[c] = Unsent /\ Signals(c, 0, 0) /\ ~ handling[c] /\ ~ sreceived[c]

Queued(c) ==
  recv_multi_queue[c] = Waiting /\ Signals(c, 0, 0) /\ ~ handling[c] /\ ~ sreceived[c]

Signalled(c) ==
  recv_multi_queue[c] = Waiting /\ Signals(c, 0, 1) /\ ~ handling[c] /\ ~ sreceived[c]

Handles(c) ==
  /\ Signals(c, 1, 1) /\ handling[c] /\ hgot[c].msg = Mean
  /\ pc[c] \in {"user", "call", "ret", "trapret"}
  /\ pc[c] = "call" => sreceived[c] /\ mean[c] = Mean

Informed(c) ==
  Signals(c, 1, 1) /\ ~ handling[c] /\ sreceived[c] /\ mean[c] = Mean

MeanInv(c) ==
  IF Before \/ StillDue(c) THEN Fresh(c)
  ELSE IF PostingTo(c) THEN Queued(c)
  ELSE Signalled(c) \/ Handles(c) \/ Informed(c)

(* Where a child can be, in its program and in the kernel.                 *)
ChildInv(c) ==
  /\ upc[c] \in {"send_sum", "test", "sig_pause", "send_var", "exit", "done"}
  /\ upc[c] \in {"test", "sig_pause", "send_var"} => type = 1
  /\ pc[c] \in {"user", "call", "ret", "trapret", "pause", "paused", "exited"}
  /\ pc[c] = "exited" <=> upc[c] = "done"
  /\ pc[c] \in {"pause", "paused"} => upc[c] = "send_var"

(* A child past sig_pause that has not heard of the mean is still in       *)
(* pause_signal, and asleep if it has no signal; with a signal it is on    *)
(* its way out, where handle_signals finds it.                             *)
PauseEnds(c) ==
  upc[c] = "send_var" =>
    \/ pc[c] = "pause"
    \/ pc[c] = "paused" /\ state[c] = "SLEEPING"
    \/ Signalled(c) /\ pc[c] \in {"paused", "ret", "trapret"}
    \/ Handles(c)
    \/ Informed(c)

KidInv(c) == MeanInv(c) /\ ChildInv(c) /\ PauseEnds(c)

(* Where the parent can be, and how many messages it has added up by then. *)
ParentInv ==
  LET k == Len(received)
  IN  /\ pc[Parent] \in {"user", "call", "ret", "trapret", "recv", "exited"} \cup Posting
      /\ ~ handling[Parent]
      /\ Signals(Parent, 0, 0)
      /\ pc[Parent] = "exited" <=> upc[Parent] = "done"
      /\ pc[Parent] = "recv" => upc[Parent] \in Adding
      /\ pc[Parent] = "call" => upc[Parent] \notin Adding
      /\ pc[Parent] \in Posting => upc[Parent] = "recv_var" /\ msg[Parent] = Mean
      /\ pc[Parent] \notin Posting => dests[Parent] = <<>>
      /\ dests[Parent] \in Seq(Children)
      /\ Distinct(dests[Parent])
      /\ \/ upc[Parent] \in {"recv_sum", "add_sum"} /\ k < CHILDS
         \/ upc[Parent] = "send_multi" /\ k = CHILDS /\ type = 1
         \/ upc[Parent] \in {"recv_var", "add_var"} /\ CHILDS <= k /\ k < 2 * CHILDS /\ type = 1
         \/ upc[Parent] \in {"wait", "exit", "done"} /\ CHILDS <= k
      /\ upc[Parent] \in {"exit", "done"} => \A c \in Children : upc[c] = "done"

(* The messages the children have sent, the one the parent has received    *)
(* and not added up yet, and those that wait for it.                       *)
Sent ==
  {Sum(c) : c \in {d \in Children : upc[d] # "send_sum"}} \cup
  {Var(c) : c \in {d \in Children : type = 1 /\ upc[d] \in {"exit", "done"}}}

InHand == IF upc[Parent] \in Adding /\ pc[Parent] # "recv" THEN {got[Parent].msg} ELSE {}

Inbox == Contents(recv_queue[Parent], NUM_MSG)

(* Every message sent is in one of three places, and once.                 *)
MailInv ==
  /\ Elements(received) \cup InHand \cup Elements(Inbox) = Sent
  /\ Elements(received) \cap InHand = {}
  /\ Elements(received) \cap Elements(Inbox) = {}
  /\ InHand \cap Elements(Inbox) = {}
  /\ received \in Seq(Msgs) /\ Distinct(received)
  /\ Inbox \in Seq(Msgs \cup {Junk}) /\ Distinct(Inbox)
  /\ \A i \in 1 .. Len(received) : received[i] \in (IF i <= CHILDS THEN Sums ELSE Vars)
  /\ (Sent \cap Vars # {}) => CHILDS <= Len(received)

ProgInv ==
  /\ \A p \in Procs : ~ killed[p]
  /\ DOMAIN upc = Procs /\ DOMAIN sreceived = Children /\ DOMAIN mean = Children
  /\ \A c \in Children : KidInv(c)
  /\ ParentInv
  /\ MailInv

-----------------------------------------------------------------------------
(* Steps of the program are steps of the kernel's specification.           *)

(* The program makes no sig_send: its signals come from the multicast.     *)
LEMMA NoBareSignals == NoSigSend
BY ProgAssumption, SMTT(20) DEF NoSigSend, ProgCalls

(* What the assumptions say of the processes and the messages.             *)
LEMMA Family ==
  /\ Parent \in Procs /\ Parent \notin Children
  /\ Children \subseteq Procs
  /\ \A p \in Procs : p = Parent \/ p \in Children
  /\ Mean \in Msgs
  /\ \A c \in Children : Sum(c) \in Msgs /\ Var(c) \in Msgs
BY ProgAssumption, SMTT(20) DEF Children, ProgMsgs

(* There is room for one signal.                                           *)
LEMMA SignalRoom == (0 + 1) % MAX_SIG = 1
<1>1. MAX_SIG \in Nat \ {0} /\ 1 \in 0 .. (MAX_SIG - 1)
  BY ProgAssumption, IpcAssumption, SMTT(20)
<1> QED
  BY <1>1, ModSmall, SMTT(20)

(* A system call of the program is one of Calls.                           *)
LEMMA ProgramCalls ==
  /\ \A c \in Children : <<c, "send", Parent>> \in Calls /\ <<c, "sig_pause", Parent>> \in Calls
                         /\ <<c, "exit", Parent>> \in Calls
  /\ <<Parent, "recv", Parent>> \in Calls
  /\ <<Parent, "send_multi", Parent>> \in Calls
  /\ <<Parent, "exit", Parent>> \in Calls
BY ProgAssumption, SMTT(20) DEF ProgCalls

(* Every step of the program is a step of Ipc, or one that Ipc does not    *)
(* see.                                                                    *)
LEMMA ProgramStep == [NextProg]_allVars => [Next]_vars
<1> SUFFICES ASSUME [NextProg]_allVars PROVE [Next]_vars
  BY SMTT(20)
<1>1. ASSUME NEW p \in Procs,
             scheduler(p) \/ yield(p) \/ trap(p) \/ KernelStep(p) \/ ret_signal(p)
      PROVE  Next
  BY <1>1 DEF Next
<1>2. ASSUME NEW p, NEW call, NEW q, <<p, call, q>> \in Calls, Call(p, call, q)
      PROVE  Next
  <2>1. Call(<<p, call, q>>[1], <<p, call, q>>[2], <<p, call, q>>[3])
    BY <1>2, SMTT(20)
  <2> QED
    BY <1>2, <2>1 DEF Next
<1>3. ASSUME NEW c \in Children, ChildStep(c) PROVE [Next]_vars
  <2>0. c \in Procs
    BY Family, SMTT(20)
  <2>1. CASE TestMean(c)
    BY <2>1 DEF TestMean
  <2>2. CASE message_handler(c)
    BY <1>1, <2>0, <2>2 DEF message_handler
  <2>3. CASE EnterCall(c)
    BY <1>1, <2>0, <2>3 DEF EnterCall
  <2>4. CASE HandlerReturn(c)
    BY <1>1, <2>0, <2>4 DEF HandlerReturn
  <2>5. CASE ChildCall(c)
    <3>1. CASE \E m \in Msgs : send_mess(c, Parent, m)
      BY <1>2, <3>1, ProgramCalls DEF Call
    <3>2. CASE pause_signal(c)
      BY <1>2, <3>2, ProgramCalls DEF Call
    <3>3. CASE exit(c)
      BY <1>2, <3>3, ProgramCalls DEF Call
    <3> QED
      BY <2>5, <3>1, <3>2, <3>3, Family DEF ChildCall
  <2> QED
    BY <1>3, <2>1, <2>2, <2>3, <2>4, <2>5 DEF ChildStep
<1>4. ASSUME ParentStep PROVE [Next]_vars
  <2>1. CASE AddUp \/ WaitChildren
    BY <2>1 DEF AddUp, WaitChildren
  <2>2. CASE EnterCall(Parent)
    BY <1>1, <2>2, Family DEF EnterCall
  <2>3. CASE ParentCall
    <3>1. CASE recv_mess(Parent)
      BY <1>2, <3>1, ProgramCalls DEF Call
    <3>2. CASE send_multicast(Parent, c_ids, Mean)
      <4>1. c_ids \in DestLists
        BY ProgAssumption, SMTT(20)
      <4> QED
        BY <1>2, <3>2, <4>1, Family, ProgramCalls DEF Call
    <3>3. CASE exit(Parent)
      BY <1>2, <3>3, ProgramCalls DEF Call
    <3> QED
      BY <2>3, <3>1, <3>2, <3>3 DEF ParentCall
  <2> QED
    BY <1>4, <2>1, <2>2, <2>3 DEF ParentStep
<1>5. CASE NextProg
  BY <1>1, <1>3, <1>4, <1>5 DEF NextProg, Schedule, Tick, Kernel, Done, allVars
<1>6. CASE UNCHANGED allVars
  BY <1>6 DEF allVars
<1> QED
  BY <1>5, <1>6, SMTT(20)

-----------------------------------------------------------------------------
(* What a step leaves alone.                                               *)

PhaseSame(c) ==
  /\ recv_multi_queue'[c] = recv_multi_queue[c]
  /\ pending_signals'[c] = pending_signals[c]
  /\ handling'[c] = handling[c]
  /\ hgot'[c] = hgot[c]
  /\ sreceived'[c] = sreceived[c]
  /\ mean'[c] = mean[c]

KidSame(c) == upc'[c] = upc[c] /\ pc'[c] = pc[c] /\ state'[c] = state[c] /\ PhaseSame(c)

DueSame(c) ==
  /\ Before' <=> Before
  /\ StillDue(c)' <=> StillDue(c)
  /\ PostingTo(c)' <=> PostingTo(c)

(* What the parent's part of the invariant is about.                       *)
ParentSame ==
  /\ upc'[Parent] = upc[Parent]
  /\ pc'[Parent] = pc[Parent]
  /\ handling'[Parent] = handling[Parent]
  /\ pending_signals'[Parent] = pending_signals[Parent]
  /\ dests'[Parent] = dests[Parent]
  /\ msg'[Parent] = msg[Parent]
  /\ got'[Parent] = got[Parent]

Rest ==
  /\ killed' = killed
  /\ DOMAIN upc' = Procs /\ DOMAIN sreceived' = Children /\ DOMAIN mean' = Children

(* A step of child c.                                                      *)
StepOf(c) ==
  /\ ParentSame
  /\ \A d \in Children \ {c} : KidSame(d)
  /\ Rest
  /\ received' = received

(* A step that leaves the mean where it is on its way to c.                *)
LEMMA PhasesKept ==
  ASSUME NEW c \in Children, PhaseSame(c)
  PROVE  /\ Fresh(c)' <=> Fresh(c)
         /\ Queued(c)' <=> Queued(c)
         /\ Signalled(c)' <=> Signalled(c)
         /\ Informed(c)' <=> Informed(c)
         /\ Handles(c) => handling[c]
         /\ Handles(c) /\ (pc'[c] = pc[c] \/ pc'[c] \in {"user", "ret", "trapret"}) => Handles(c)'
BY SMTT(20) DEF PhaseSame, Fresh, Queued, Signalled, Informed, Handles, Signals

LEMMA MeanKept ==
  ASSUME NEW c \in Children, MeanInv(c), PhaseSame(c), DueSame(c),
         pc'[c] = pc[c] \/ pc'[c] \in {"user", "ret", "trapret"} \/ ~ handling[c]
  PROVE  MeanInv(c)'
BY PhasesKept DEF MeanInv, DueSame

(* A child that a step does not touch keeps its part of the invariant.     *)
LEMMA KidKept ==
  ASSUME NEW c \in Children, KidInv(c), KidSame(c), DueSame(c)
  PROVE  KidInv(c)'
<1>1. MeanInv(c)'
  BY MeanKept DEF KidInv, KidSame
<1>2. ChildInv(c)'
  BY DEF KidInv, KidSame, ChildInv
<1>3. PauseEnds(c)'
  BY PhasesKept DEF KidInv, KidSame, PauseEnds
<1> QED
  BY <1>1, <1>2, <1>3 DEF KidInv

(* The parent keeps its part when a child takes a step.                    *)
LEMMA ParentKept ==
  ASSUME ParentSame
  PROVE  \A c : DueSame(c)
BY DEF ParentSame, DueSame, Before, StillDue, PostingTo, Elements

(* A step of child c preserves the invariant if it preserves c's part and  *)
(* that of the messages.                                                   *)
LEMMA ChildFrame ==
  ASSUME ProgInv, NEW c \in Children, StepOf(c), KidInv(c)', MailInv',
         upc[c] = "done" => upc'[c] = "done"
  PROVE  ProgInv'
<1>1. ASSUME NEW d \in Children PROVE KidInv(d)'
  BY KidKept, ParentKept DEF ProgInv, StepOf
<1>2. ParentInv'
  <2>1. \A d \in Children : upc[d] = "done" => upc'[d] = "done"
    BY DEF StepOf, KidSame
  <2>2. ParentInv /\ ParentSame /\ received' = received
    BY DEF ProgInv, StepOf
  <2> QED
    BY <2>1, <2>2 DEF ParentInv, ParentSame, Signals, Distinct
<1> QED
  BY <1>1, <1>2 DEF ProgInv, StepOf, Rest

(* The messages sent are the same as long as nobody gets past a send.      *)
LEMMA SentKept ==
  ASSUME \A d \in Children : upc'[d] = "send_sum" <=> upc[d] = "send_sum",
         \A d \in Children : upc'[d] \in {"exit", "done"} <=> upc[d] \in {"exit", "done"}
  PROVE  Sent' = Sent
BY DEF Sent

LEMMA MailStays ==
  ASSUME MailInv, InHand' = InHand, received' = received,
         recv_queue'[Parent] = recv_queue[Parent], Sent' = Sent
  PROVE  MailInv'
<1>1. Inbox' = Inbox
  BY DEF Inbox
<1>2. Elements(received)' = Elements(received) /\ (Distinct(received)' <=> Distinct(received))
  BY DEF Elements, Distinct
<1>3. Elements(Inbox)' = Elements(Inbox) /\ (Distinct(Inbox)' <=> Distinct(Inbox))
  BY <1>1 DEF Elements, Distinct
<1> QED
  BY <1>1, <1>2, <1>3 DEF MailInv

LEMMA MailKept ==
  ASSUME MailInv, ParentSame, received' = received, recv_queue'[Parent] = recv_queue[Parent],
         Sent' = Sent
  PROVE  MailInv'
<1>1. InHand' = InHand
  BY DEF InHand, ParentSame
<1> QED
  BY <1>1, MailStays

-----------------------------------------------------------------------------
(* The steps of a child.                                                   *)

(* What the invariants say of a child that is executing.                   *)
LEMMA Facts ==
  ASSUME SyncInv, ProgInv
  PROVE  /\ lock \in Procs \cup {Free}
         /\ DOMAIN state = Procs
         /\ DOMAIN recv_queue = Procs
         /\ DOMAIN recv_multi_queue = Procs
         /\ DOMAIN pending_signals = Procs
         /\ DOMAIN handling = Procs
         /\ DOMAIN got = Procs
         /\ DOMAIN hgot = Procs
         /\ DOMAIN pc = Procs
         /\ DOMAIN dests = Procs
         /\ DOMAIN msg = Procs
         /\ DOMAIN rtail = Procs
         /\ DOMAIN upc = Procs
         /\ DOMAIN sreceived = Children
         /\ DOMAIN mean = Children
         /\ \A p \in Procs : Executing(p) => state[p] = "RUNNING"
         /\ \A p \in Procs : ~ killed[p]
         /\ Free \notin Procs
<1>1. /\ lock \in Procs \cup {Free}
      /\ DOMAIN state = Procs /\ DOMAIN recv_queue = Procs /\ DOMAIN recv_multi_queue = Procs
      /\ DOMAIN pending_signals = Procs /\ DOMAIN handling = Procs /\ DOMAIN got = Procs
      /\ DOMAIN hgot = Procs /\ DOMAIN pc = Procs /\ DOMAIN dests = Procs
      /\ DOMAIN msg = Procs /\ DOMAIN rtail = Procs
  BY DEF SyncInv, TypeInv, TypeOK
<1>2. \A p \in Procs : Executing(p) => state[p] = "RUNNING"
  BY ExecutingRuns DEF SyncInv, Sync
<1>3. Free \notin Procs
  BY IpcAssumption
<1> QED
  BY <1>1, <1>2, <1>3 DEF ProgInv

(* A step of c in the kernel that leaves the mean where it is.             *)
Within(c) ==
  /\ \A d \in Procs \ {c} : pc'[d] = pc[d] /\ state'[d] = state[d]
  /\ UNCHANGED <<recv_multi_queue, pending_signals, handling, hgot, got, dests, msg, killed>>
  /\ UNCHANGED recv_queue

(* A step of c, in the kernel and in the program, that leaves the mean and *)
(* the messages where they are.                                            *)
LEMMA WithinFrame ==
  ASSUME SyncInv, ProgInv, NEW c \in Children, Within(c),
         UNCHANGED <<sreceived, mean, received>>,
         \A d \in Procs \ {c} : upc'[d] = upc[d],
         DOMAIN upc' = Procs,
         upc'[c] = "send_sum" <=> upc[c] = "send_sum",
         upc'[c] \in {"exit", "done"} <=> upc[c] \in {"exit", "done"},
         upc[c] = "done" => upc'[c] = "done",
         pc'[c] = pc[c] \/ pc'[c] \in {"user", "ret", "trapret"} \/ ~ handling[c],
         ChildInv(c)', PauseEnds(c)'
  PROVE  ProgInv'
<1>1. StepOf(c) /\ PhaseSame(c) /\ recv_queue'[Parent] = recv_queue[Parent]
  BY Facts, Family DEF StepOf, ParentSame, KidSame, PhaseSame, Rest, Within
<1>2. MeanInv(c)'
  BY <1>1, MeanKept, ParentKept DEF ProgInv, KidInv, StepOf
<1>3. Sent' = Sent
  BY SentKept, Family
<1>4. MailInv'
  BY <1>1, <1>3, MailKept DEF ProgInv, StepOf
<1> QED
  BY <1>1, <1>2, <1>4, ChildFrame DEF KidInv

(* The parts of the invariant about c.                                     *)
LEMMA KidFacts ==
  ASSUME ProgInv, NEW c \in Children
  PROVE  MeanInv(c) /\ ChildInv(c) /\ PauseEnds(c)
BY DEF ProgInv, KidInv

(* The same for a step in the kernel alone.                                *)
LEMMA WithinKernel ==
  ASSUME SyncInv, ProgInv, NEW c \in Children, Within(c), UNCHANGED progVars,
         pc'[c] = pc[c] \/ pc'[c] \in {"user", "ret", "trapret"} \/ ~ handling[c],
         ChildInv(c)', PauseEnds(c)'
  PROVE  ProgInv'
BY WithinFrame, Facts DEF progVars

LEMMA Child_scheduler ==
  ASSUME SyncInv, ProgInv, NEW c \in Children, scheduler(c), UNCHANGED progVars
  PROVE  ProgInv'
<1>1. Within(c) /\ pc' = pc /\ state[c] = "RUNNABLE"
  BY Facts DEF Within, scheduler, queueVars, postVars
<1>2. ChildInv(c)'
  BY <1>1, KidFacts DEF ChildInv, progVars
<1>3. PhaseSame(c)
  BY <1>1 DEF PhaseSame, Within, progVars
<1>4. PauseEnds(c)'
  BY <1>1, <1>3, KidFacts, PhasesKept DEF PauseEnds, progVars
<1> QED
  BY <1>1, <1>2, <1>4, WithinKernel

LEMMA Child_yield ==
  ASSUME SyncInv, ProgInv, NEW c \in Children, yield(c), UNCHANGED progVars
  PROVE  ProgInv'
<1>1. /\ Within(c)
      /\ state[c] = "RUNNING"
      /\ pc'[c] = (IF pc[c] = "user" THEN "ret" ELSE pc[c])
  BY Facts, Family DEF Within, yield, sched, Goto, queueVars, postVars
<1>2. pc[c] # "pause"
  BY Facts, Family DEF yield, SyncInv, LockInv
<1>3. ChildInv(c)'
  BY <1>1, KidFacts DEF ChildInv, progVars
<1>4. PhaseSame(c)
  BY <1>1 DEF PhaseSame, Within, progVars
<1>5. PauseEnds(c)'
  BY <1>1, <1>2, <1>4, KidFacts, PhasesKept DEF PauseEnds, progVars
<1> QED
  BY <1>1, <1>3, <1>5, WithinKernel

LEMMA Child_PauseSleep ==
  ASSUME SyncInv, ProgInv, NEW c \in Children, PauseSleep(c), UNCHANGED progVars
  PROVE  ProgInv'
<1>1. /\ Within(c)
      /\ pc[c] = "pause" /\ pc'[c] = "paused" /\ state'[c] = "SLEEPING"
  BY Facts, Family DEF Within, PauseSleep, sleep, sched, Goto, queueVars, postVars
<1>2. ChildInv(c)'
  BY <1>1, KidFacts DEF ChildInv, progVars
<1>3. PauseEnds(c)'
  BY <1>1 DEF PauseEnds
<1>4. ~ handling[c]
  BY <1>1, KidFacts DEF MeanInv, Fresh, Queued, Signalled, Handles, Informed
<1> QED
  BY <1>1, <1>2, <1>3, <1>4, WithinKernel

LEMMA Child_PauseResume ==
  ASSUME SyncInv, ProgInv, NEW c \in Children, PauseResume(c), UNCHANGED progVars
  PROVE  ProgInv'
<1>1. /\ Within(c)
      /\ pc[c] = "paused" /\ pc'[c] = "ret" /\ state[c] = "RUNNING"
  BY Facts, Family DEF Within, PauseResume, Goto, queueVars, postVars
<1>2. ChildInv(c)'
  BY <1>1, KidFacts DEF ChildInv, progVars
<1>3. PhaseSame(c)
  BY <1>1 DEF PhaseSame, Within, progVars
<1>4. PauseEnds(c)'
  BY <1>1, <1>3, KidFacts, PhasesKept DEF PauseEnds, progVars
<1> QED
  BY <1>1, <1>2, <1>4, WithinKernel

LEMMA Child_TrapEnd ==
  ASSUME SyncInv, ProgInv, NEW c \in Children, TrapEnd(c), UNCHANGED progVars
  PROVE  ProgInv'
<1>1. Within(c) /\ pc[c] = "ret" /\ pc'[c] = "trapret"
  BY Facts, Family DEF Within, TrapEnd, Goto, procVars, queueVars, postVars
<1>2. ChildInv(c)'
  BY <1>1, KidFacts DEF ChildInv, progVars
<1>3. PhaseSame(c)
  BY <1>1 DEF PhaseSame, Within, progVars
<1>4. PauseEnds(c)'
  BY <1>1, <1>3, KidFacts, PhasesKept DEF PauseEnds, progVars
<1> QED
  BY <1>1, <1>2, <1>4, WithinKernel

(* A child with a signal that it does not handle yet does not get to user  *)
(* space by trapret.                                                       *)
LEMMA Child_trapret ==
  ASSUME SyncInv, ProgInv, NEW c \in Children, trapret(c), UNCHANGED progVars
  PROVE  ProgInv'
<1>1. /\ Within(c) /\ pc[c] = "trapret" /\ pc'[c] = "user"
      /\ handling[c] \/ NoSignal(c)
  BY Facts, Family DEF Within, trapret, Goto, procVars, queueVars, postVars
<1>2. ChildInv(c)'
  BY <1>1, KidFacts DEF ChildInv, progVars
<1>3. PhaseSame(c)
  BY <1>1 DEF PhaseSame, Within, progVars
<1>4. ~ Signalled(c)
  BY <1>1, SMTT(20) DEF Signalled, Signals, NoSignal
<1>5. PauseEnds(c)'
  BY <1>1, <1>3, <1>4, KidFacts, PhasesKept DEF PauseEnds, progVars
<1> QED
  BY <1>1, <1>2, <1>5, WithinKernel

(* handle_signals gives the mean to the handler.                           *)
LEMMA Child_handle_signals ==
  ASSUME SyncInv, ProgInv, NEW c \in Children, handle_signals(c), UNCHANGED progVars
  PROVE  ProgInv'
<1>1. /\ pc[c] = "trapret" /\ pc'[c] = "user"
      /\ ~ handling[c] /\ handling'[c]
      /\ ~ NoSignal(c)
      /\ pending_signals' =
           [pending_signals EXCEPT ![c].head = (pending_signals[c].head + 1) % MAX_SIG]
      /\ hgot'[c].msg = Front(recv_multi_queue[c])
      /\ UNCHANGED <<state, got, dests, msg, killed, recv_queue>>
      /\ \A d \in Procs \ {c} : /\ pc'[d] = pc[d] /\ handling'[d] = handling[d]
                                /\ hgot'[d] = hgot[d]
                                /\ pending_signals'[d] = pending_signals[d]
                                /\ recv_multi_queue'[d] = recv_multi_queue[d]
  BY Facts, Family, SMTT(20) DEF handle_signals, Goto, procVars, postVars
<1>2. StepOf(c) /\ recv_queue'[Parent] = recv_queue[Parent]
  BY <1>1, Facts, Family DEF StepOf, ParentSame, KidSame, PhaseSame, Rest, progVars
<1>3. Signalled(c) /\ ~ Before /\ ~ StillDue(c) /\ ~ PostingTo(c)
  BY <1>1, KidFacts, SMTT(20) DEF MeanInv, Fresh, Queued, Handles, Informed, Signals, NoSignal
<1>4. Front(recv_multi_queue[c]) = Mean
  <2>1. 0 \in Slots(NUM_MSG)
    BY IpcAssumption, SMTT(20) DEF Slots
  <2> QED
    BY <1>3, <2>1, SMTT(20) DEF Signalled, Waiting, Unsent, Front, Enqueue, EmptyRing
<1>5. Signals(c, 1, 1)'
  <2>1. (0 + 1) % MAX_SIG = 1
    BY SignalRoom, SMTT(20)
  <2>2. pending_signals[c] = [head |-> 0, tail |-> 1] /\ c \in DOMAIN pending_signals
    BY <1>3, Facts, Family DEF Signalled, Signals
  <2> QED
    BY <1>1, <2>1, <2>2, SMTT(20) DEF Signals
<1>6. Handles(c)'
  BY <1>1, <1>4, <1>5 DEF Handles
<1>7. DueSame(c)
  BY <1>2, ParentKept DEF StepOf
<1>8. KidInv(c)'
  BY <1>1, <1>3, <1>6, <1>7, KidFacts
     DEF KidInv, MeanInv, DueSame, ChildInv, PauseEnds, progVars
<1>9. MailInv'
  <2>1. Sent' = Sent
    BY SentKept DEF progVars
  <2> QED
    BY <1>2, <2>1, MailKept DEF ProgInv, StepOf
<1> QED
  BY <1>2, <1>8, <1>9, ChildFrame DEF progVars

(* The handler notes the mean.                                             *)
LEMMA Child_message_handler ==
  ASSUME SyncInv, ProgInv, NEW c \in Children, message_handler(c)
  PROVE  ProgInv'
<1>1. /\ handling[c]
      /\ pc[c] = "user" /\ pc'[c] = "call"
      /\ mean'[c] = hgot[c].msg /\ sreceived'[c]
      /\ \A d \in Procs \ {c} : pc'[d] = pc[d]
      /\ \A d \in Children \ {c} : mean'[d] = mean[d] /\ sreceived'[d] = sreceived[d]
      /\ DOMAIN mean' = Children /\ DOMAIN sreceived' = Children
      /\ UNCHANGED <<state, recv_multi_queue, pending_signals, handling, hgot, got, dests, msg,
                     killed, recv_queue, upc, received>>
  BY Facts, Family DEF message_handler, trap, Goto, procVars, queueVars, postVars
<1>2. StepOf(c) /\ recv_queue'[Parent] = recv_queue[Parent]
  BY <1>1, Facts, Family DEF StepOf, ParentSame, KidSame, PhaseSame, Rest
<1>3. Handles(c) /\ ~ Before /\ ~ StillDue(c) /\ ~ PostingTo(c)
  BY <1>1, KidFacts DEF MeanInv, Fresh, Queued, Signalled, Informed
<1>4. Handles(c)'
  BY <1>1, <1>3 DEF Handles, Signals
<1>5. DueSame(c)
  BY <1>2, ParentKept DEF StepOf
<1>6. KidInv(c)'
  BY <1>1, <1>3, <1>4, <1>5, KidFacts DEF KidInv, MeanInv, DueSame, ChildInv, PauseEnds
<1>7. MailInv'
  <2>1. Sent' = Sent
    BY <1>1, SentKept
  <2> QED
    BY <1>2, <2>1, MailKept DEF ProgInv, StepOf
<1> QED
  BY <1>1, <1>2, <1>6, <1>7, ChildFrame

(* The handler's sig_ret: the child has the mean from now on.              *)
LEMMA Child_HandlerReturn ==
  ASSUME SyncInv, ProgInv, NEW c \in Children, HandlerReturn(c)
  PROVE  ProgInv'
<1>1. /\ handling[c] /\ ~ handling'[c]
      /\ pc[c] = "call" /\ pc'[c] = "ret"
      /\ \A d \in Procs \ {c} : pc'[d] = pc[d] /\ handling'[d] = handling[d]
      /\ UNCHANGED <<state, recv_multi_queue, pending_signals, hgot, got, dests, msg,
                     killed, recv_queue, upc, received, sreceived, mean>>
  BY Facts, Family
     DEF HandlerReturn, ret_signal, InCall, Goto, procVars, queueVars, postVars, progVars
<1>2. StepOf(c) /\ recv_queue'[Parent] = recv_queue[Parent]
  BY <1>1, Facts, Family DEF StepOf, ParentSame, KidSame, PhaseSame, Rest
<1>3. Handles(c) /\ ~ Before /\ ~ StillDue(c) /\ ~ PostingTo(c)
  BY <1>1, KidFacts DEF MeanInv, Fresh, Queued, Signalled, Informed
<1>4. Informed(c)'
  BY <1>1, <1>3 DEF Handles, Informed, Signals
<1>5. DueSame(c)
  BY <1>2, ParentKept DEF StepOf
<1>6. KidInv(c)'
  BY <1>1, <1>3, <1>4, <1>5, KidFacts DEF KidInv, MeanInv, DueSame, ChildInv, PauseEnds
<1>7. MailInv'
  <2>1. Sent' = Sent
    BY <1>1, SentKept
  <2> QED
    BY <1>2, <2>1, MailKept DEF ProgInv, StepOf
<1> QED
  BY <1>1, <1>2, <1>6, <1>7, ChildFrame

(* The test of sreceived: a child that passes it has the mean.             *)
LEMMA Child_TestMean ==
  ASSUME SyncInv, ProgInv, NEW c \in Children, TestMean(c)
  PROVE  ProgInv'
<1>1. /\ pc[c] = "user" /\ ~ handling[c] /\ upc[c] = "test"
      /\ upc'[c] = (IF sreceived[c] THEN "send_var" ELSE "sig_pause")
      /\ \A d \in Procs \ {c} : upc'[d] = upc[d]
      /\ DOMAIN upc' = Procs
      /\ UNCHANGED <<pc, state, recv_multi_queue, pending_signals, handling, hgot, got, dests,
                     msg, killed, recv_queue, received, sreceived, mean>>
  BY Facts, Family DEF TestMean, InUser, Continue, vars
<1>2. Within(c) /\ PhaseSame(c)
  BY <1>1 DEF Within, PhaseSame
<1>3. ChildInv(c)'
  BY <1>1, KidFacts DEF ChildInv
<1>4. sreceived[c] => Informed(c)
  BY <1>1, KidFacts DEF MeanInv, Fresh, Queued, Signalled, Handles
<1>5. PauseEnds(c)'
  BY <1>1, <1>2, <1>4, PhasesKept DEF PauseEnds
<1> QED
  BY <1>1, <1>2, <1>3, <1>5, WithinFrame

LEMMA Child_EnterCall ==
  ASSUME SyncInv, ProgInv, NEW c \in Children, EnterCall(c)
  PROVE  ProgInv'
<1>1. Within(c) /\ pc[c] = "user" /\ pc'[c] = "call" /\ ~ handling[c] /\ UNCHANGED progVars
  BY Facts, Family DEF Within, EnterCall, trap, Goto, procVars, queueVars, postVars
<1>2. ChildInv(c)'
  BY <1>1, KidFacts DEF ChildInv, progVars
<1>3. PhaseSame(c)
  BY <1>1 DEF PhaseSame, Within, progVars
<1>4. PauseEnds(c)'
  BY <1>1, <1>3, KidFacts, PhasesKept DEF PauseEnds, progVars
<1> QED
  BY <1>1, <1>2, <1>4, WithinKernel

(* sig_pause: without a signal the child is on its way to sleep, with one  *)
(* on its way to handle_signals.                                           *)
LEMMA Child_sig_pause ==
  ASSUME SyncInv, ProgInv, NEW c \in Children, ~ handling[c], upc[c] = "sig_pause",
         pause_signal(c), Continue(c, "send_var"), UNCHANGED <<sreceived, mean, received>>
  PROVE  ProgInv'
<1>1. /\ pc[c] = "call" /\ upc'[c] = "send_var"
      /\ pc'[c] = "pause" \/ (pc'[c] = "ret" /\ ~ NoSignal(c))
      /\ \A d \in Procs \ {c} : pc'[d] = pc[d] /\ upc'[d] = upc[d]
      /\ DOMAIN upc' = Procs
      /\ UNCHANGED <<state, recv_multi_queue, pending_signals, handling, hgot, got, dests,
                     msg, killed, recv_queue>>
  BY Facts, Family
     DEF pause_signal, InCall, Goto, Continue, procVars, queueVars, postVars
<1>2. Within(c) /\ PhaseSame(c)
  BY <1>1 DEF Within, PhaseSame
<1>3. ChildInv(c)'
  BY <1>1, KidFacts DEF ChildInv
<1>4. ~ NoSignal(c) => Signalled(c)
  BY KidFacts, SMTT(20) DEF MeanInv, Fresh, Queued, Informed, Handles, Signals, NoSignal
<1>5. PauseEnds(c)'
  BY <1>1, <1>2, <1>4, PhasesKept DEF PauseEnds
<1> QED
  BY <1>1, <1>2, <1>3, <1>5, WithinFrame

LEMMA Child_exit ==
  ASSUME SyncInv, ProgInv, NEW c \in Children, ~ handling[c], upc[c] = "exit",
         exit(c), Continue(c, "done"), UNCHANGED <<sreceived, mean, received>>
  PROVE  ProgInv'
<1>1. /\ pc'[c] = "exited" /\ upc'[c] = "done"
      /\ \A d \in Procs \ {c} : pc'[d] = pc[d] /\ upc'[d] = upc[d] /\ state'[d] = state[d]
      /\ DOMAIN upc' = Procs
      /\ UNCHANGED <<recv_multi_queue, pending_signals, handling, hgot, got, dests,
                     msg, killed, recv_queue>>
  BY Facts, Family DEF exit, Exit, sched, Goto, Continue, queueVars, postVars
<1>2. Within(c) /\ PhaseSame(c)
  BY <1>1 DEF Within, PhaseSame
<1>3. ChildInv(c)' /\ PauseEnds(c)'
  BY <1>1 DEF ChildInv, PauseEnds
<1> QED
  BY <1>1, <1>2, <1>3, WithinFrame

-----------------------------------------------------------------------------
(* Sequences of messages, and how many messages there are.                 *)

(* Appending to a sequence adds one element.                               *)
LEMMA ElementsAppend ==
  ASSUME NEW S, NEW s \in Seq(S), NEW m \in S
  PROVE  /\ Elements(Append(s, m)) = Elements(s) \cup {m}
         /\ Distinct(s) /\ m \notin Elements(s) => Distinct(Append(s, m))
<1>1. /\ Len(s) \in Nat
      /\ Len(Append(s, m)) = Len(s) + 1
      /\ Append(s, m)[Len(s) + 1] = m
      /\ \A i \in 1 .. Len(s) : Append(s, m)[i] = s[i]
  BY AppendFacts, LengthFacts, SMTT(20)
<1>2. \A i : i \in 1 .. Len(s) + 1 <=> i \in 1 .. Len(s) \/ i = Len(s) + 1
  BY <1>1, SMTT(20)
<1> QED
  BY <1>1, <1>2 DEF Elements, Distinct

(* The elements of a sequence that is not empty are the first one and      *)
(* those of the rest.                                                      *)
LEMMA ElementsTail ==
  ASSUME NEW S, NEW s \in Seq(S), s # <<>>
  PROVE  /\ Elements(s) = {Head(s)} \cup Elements(Tail(s))
         /\ Distinct(s) => Distinct(Tail(s)) /\ Head(s) \notin Elements(Tail(s))
         /\ Tail(s) \in Seq(S)
<1>1. /\ Len(s) \in Nat /\ Len(s) > 0
      /\ Tail(s) \in Seq(S) /\ Len(Tail(s)) = Len(s) - 1
      /\ Head(s) = s[1]
      /\ \A i \in 1 .. Len(s) - 1 : Tail(s)[i] = s[i + 1]
  BY TailFacts, LengthFacts, EmptyFacts, SMTT(20)
<1>2. \A i \in 1 .. Len(s) - 1 : i + 1 \in 1 .. Len(s) /\ i + 1 # 1
  BY <1>1, SMTT(20)
<1>3. \A i \in 1 .. Len(s) : i = 1 \/ (i - 1 \in 1 .. Len(s) - 1 /\ s[i] = Tail(s)[i - 1])
  <2> TAKE i \in 1 .. Len(s)
  <2>1. i = 1 \/ (i - 1 \in 1 .. Len(s) - 1 /\ (i - 1) + 1 = i)
    BY <1>1, SMTT(20)
  <2> QED
    BY <1>1, <2>1, SMTT(20)
<1>4. 1 \in 1 .. Len(s)
  BY <1>1, SMTT(20)
<1>5. \A i, j \in 1 .. Len(s) - 1 : i + 1 = j + 1 => i = j
  BY <1>1, SMTT(20)
<1>6. Elements(s) = {Head(s)} \cup Elements(Tail(s))
  <2>1. \A x \in Elements(s) : x \in {Head(s)} \cup Elements(Tail(s))
    <3> TAKE x \in Elements(s)
    <3>1. PICK i \in 1 .. Len(s) : x = s[i]
      BY DEF Elements
    <3>2. CASE i = 1
      BY <1>1, <3>1, <3>2
    <3>3. CASE i - 1 \in 1 .. Len(Tail(s)) /\ s[i] = Tail(s)[i - 1]
      BY <3>1, <3>3 DEF Elements
    <3> QED
      BY <1>1, <1>3, <3>2, <3>3
  <2>2. Head(s) \in Elements(s)
    BY <1>1, <1>4 DEF Elements
  <2>3. \A x \in Elements(Tail(s)) : x \in Elements(s)
    <3> TAKE x \in Elements(Tail(s))
    <3>1. PICK i \in 1 .. Len(s) - 1 : x = Tail(s)[i]
      BY <1>1 DEF Elements
    <3>2. x = s[i + 1]
      BY <1>1, <3>1
    <3> QED
      BY <1>2, <3>2 DEF Elements
  <2> QED
    BY <2>1, <2>2, <2>3
<1>7. ASSUME Distinct(s) PROVE Distinct(Tail(s)) /\ Head(s) \notin Elements(Tail(s))
  <2>1. \A i, j \in 1 .. Len(s) - 1 : Tail(s)[i] = Tail(s)[j] => i = j
    <3> TAKE i, j \in 1 .. Len(s) - 1
    <3>1. Tail(s)[i] = s[i + 1] /\ Tail(s)[j] = s[j + 1]
      BY <1>1
    <3>2. s[i + 1] = s[j + 1] => i + 1 = j + 1
      BY <1>2, <1>7 DEF Distinct
    <3> QED
      BY <1>5, <3>1, <3>2
  <2>2. \A i \in 1 .. Len(s) - 1 : Tail(s)[i] # Head(s)
    BY <1>1, <1>2, <1>4, <1>7 DEF Distinct
  <2> QED
    BY <1>1, <2>1, <2>2 DEF Distinct, Elements
<1> QED
  BY <1>1, <1>6, <1>7

(* T has n elements: a sequence without repetitions over T is no longer    *)
(* than n, and as long only if it has all of T; and it is at least n long  *)
(* if it has all of T.                                                     *)
HasSize(T, n) ==
  \A S : \A s \in Seq(S) : Distinct(s) =>
    /\ Elements(s) \subseteq T => Len(s) <= n
    /\ Elements(s) \subseteq T /\ Len(s) = n => T \subseteq Elements(s)
    /\ T \subseteq Elements(s) => n <= Len(s)

(* There are as many partial sums as children, and as many variances.  The *)
(* lemma HowMany below proves it; what comes before it assumes it.         *)
Counts == HasSize(Sums, CHILDS) /\ HasSize(Sums \cup Vars, 2 * CHILDS)

LEMMA Kinds == CHILDS \in Nat \ {0} /\ Sums \cap Vars = {}
<1>1. CHILDS \in Nat \ {0}
  BY ProgAssumption, LengthFacts, SMTT(20) DEF CHILDS
<1>2. \A c, d \in Children : Sum(c) # Var(d)
  BY SMTT(20) DEF Sum, Var
<1> QED
  BY <1>1, <1>2 DEF Sums, Vars

-----------------------------------------------------------------------------
(* The messages of the children.                                           *)

(* What can have been sent.                                                *)
LEMMA SentType == Sent \subseteq Sums \cup Vars /\ Sums \cup Vars \subseteq Msgs
BY Family DEF Sent, Sums, Vars

(* A message that was not sent before goes to the end of the parent's      *)
(* queue, which has room for it.                                           *)
LEMMA SendMail ==
  ASSUME Counts, SyncInv, ProgInv, NEW m \in Sums \cup Vars, m \notin Sent, Sent' = Sent \cup {m},
         recv_queue' =
           [recv_queue EXCEPT ![Parent] = Enqueue(recv_queue[Parent], m, NUM_MSG)],
         ParentSame, received' = received,
         m \in Vars => CHILDS <= Len(received)
  PROVE  MailInv'
<1> DEFINE q == recv_queue[Parent]
           M == Msgs \cup {Junk}
<1>1. /\ q \in RingType(NUM_MSG, M) /\ NUM_MSG \in Nat \ {0} /\ m \in M
      /\ recv_queue'[Parent] = Enqueue(q, m, NUM_MSG)
  <2>1. recv_queue \in [Procs -> RingType(NUM_MSG, M)]
    BY DEF SyncInv, TypeInv, TypeOK, MessageQueues
  <2>2. NUM_MSG \in Nat \ {0}
    BY IpcAssumption
  <2> QED
    BY <2>1, <2>2, Family, SentType
<1>2. MailInv /\ Inbox = Contents(q, NUM_MSG)
  BY DEF ProgInv, Inbox
<1>3. Count(q, NUM_MSG) \in 0 .. (NUM_MSG - 1) /\ Len(Inbox) = Count(q, NUM_MSG)
  <2>1. Count(q, NUM_MSG) \in 0 .. (NUM_MSG - 1) /\ q.head \in Int
    BY <1>1, RingCount, SMTT(20)
  <2>2. Inbox = Window(q.messages, q.head, Count(q, NUM_MSG), NUM_MSG)
    BY <1>2 DEF Contents, Window
  <2> QED
    BY <2>1, <2>2, WindowLen, SMTT(20)
<1>4. m \notin Elements(Inbox) /\ Elements(Inbox) \subseteq Sent
  BY <1>2 DEF MailInv
<1>5. /\ Append(Inbox, m) \in Seq(M)
      /\ Elements(Append(Inbox, m)) = Elements(Inbox) \cup {m}
      /\ Distinct(Append(Inbox, m))
  <2>1. Inbox \in Seq(M) /\ Distinct(Inbox)
    BY <1>2 DEF MailInv
  <2> QED
    BY <1>1, <1>4, <2>1, ElementsAppend, SMTT(20)
<1>6. Count(q, NUM_MSG) + 1 < NUM_MSG
  <2>0. Inbox \in Seq(M)
    BY <1>2 DEF MailInv
  <2>1. Elements(Append(Inbox, m)) \subseteq Sums \cup Vars
    BY <1>4, <1>5, SentType
  <2>2. Len(Append(Inbox, m)) <= 2 * CHILDS
    BY <1>5, <2>1 DEF Counts, HasSize
  <2>3. Len(Append(Inbox, m)) = Len(Inbox) + 1
    BY <1>1, <2>0, AppendFacts, SMTT(20)
  <2> QED
    BY <1>1, <1>3, <2>2, <2>3, Kinds, ProgAssumption, SMTT(20) DEF CHILDS
<1>7. Inbox' = Append(Inbox, m)
  <2>1. Contents(Enqueue(q, m, NUM_MSG), NUM_MSG) = Append(Contents(q, NUM_MSG), m)
    BY <1>1, <1>6, RingPut, SMTT(20)
  <2> QED
    BY <1>1, <1>2, <2>1 DEF Inbox
<1> HIDE DEF q, M
<1>8. InHand' = InHand
  BY DEF InHand, ParentSame
<1>9. /\ Elements(received)' = Elements(received)
      /\ Distinct(received)' <=> Distinct(received)
      /\ Elements(Inbox)' = Elements(Inbox) \cup {m}
      /\ Distinct(Inbox)'
  BY <1>5, <1>7 DEF Elements, Distinct
<1>10. m \notin Elements(received) /\ m \notin InHand /\ m \notin Elements(Inbox)
  BY <1>2 DEF MailInv
<1>11. Sent' \cap Vars # {} => CHILDS <= Len(received')
  BY <1>2 DEF MailInv
<1>12. Inbox' \in Seq(Msgs \cup {Junk})
  BY <1>5, <1>7 DEF M
<1> QED
  BY <1>2, <1>8, <1>9, <1>10, <1>11, <1>12 DEF MailInv

(* A message of child c that it sends in call s and then goes on to t.     *)
LEMMA ChildSends ==
  ASSUME Counts, SyncInv, ProgInv, NEW c \in Children, ~ handling[c],
         NEW m \in Sums \cup Vars, send_mess(c, Parent, m),
         NEW t, Continue(c, t), UNCHANGED <<sreceived, mean, received>>,
         t \in {"test", "exit"}, t = "test" => type = 1,
         upc[c] # "done",
         m \notin Sent, Sent' = Sent \cup {m},
         m \in Vars => CHILDS <= Len(received)
  PROVE  ProgInv'
<1>1. /\ recv_queue' =
           [recv_queue EXCEPT ![Parent] = Enqueue(recv_queue[Parent], m, NUM_MSG)]
      /\ pc'[c] = "ret" /\ upc'[c] = t
      /\ \A d \in Procs \ {c} : pc'[d] = pc[d] /\ upc'[d] = upc[d]
      /\ \A d \in Children : state'[d] = state[d]
      /\ DOMAIN upc' = Procs
      /\ UNCHANGED <<recv_multi_queue, pending_signals, handling, hgot, got, dests,
                     msg, killed>>
  BY Facts, Family DEF send_mess, wakeup1, Goto, Continue, postVars
<1>2. StepOf(c) /\ PhaseSame(c)
  BY <1>1, Facts, Family DEF StepOf, ParentSame, KidSame, PhaseSame, Rest
<1>3. MailInv'
  BY <1>1, <1>2, SendMail DEF StepOf
<1>4. MeanInv(c)'
  BY <1>2, MeanKept, ParentKept, KidFacts DEF StepOf
<1>5. ChildInv(c)' /\ PauseEnds(c)'
  BY <1>1 DEF ChildInv, PauseEnds
<1> QED
  BY <1>2, <1>3, <1>4, <1>5, ChildFrame DEF KidInv

(* A partial sum is sent once.                                             *)
LEMMA Child_send_sum ==
  ASSUME Counts, SyncInv, ProgInv, NEW c \in Children, ~ handling[c], upc[c] = "send_sum",
         send_mess(c, Parent, Sum(c)), Continue(c, IF type = 1 THEN "test" ELSE "exit"),
         UNCHANGED <<sreceived, mean, received>>
  PROVE  ProgInv'
<1> DEFINE t == IF type = 1 THEN "test" ELSE "exit"
<1>1. Sum(c) \in Sums /\ Sum(c) \notin Vars
  BY Kinds DEF Sums
<1>2. \A d \in Children : Sum(c) = Sum(d) => c = d
  BY SMTT(20) DEF Sum
<1>3. Sum(c) \notin Sent
  BY <1>1, <1>2 DEF Sent, Vars
<1>4. /\ upc'[c] = t
      /\ \A d \in Procs \ {c} : upc'[d] = upc[d]
  BY Facts, Family DEF Continue
<1>5. Sent' = Sent \cup {Sum(c)}
  <2>1. {d \in Children : upc'[d] # "send_sum"} = {d \in Children : upc[d] # "send_sum"} \cup {c}
    BY <1>4, Family
  <2>2. {d \in Children : type = 1 /\ upc'[d] \in {"exit", "done"}} =
          {d \in Children : type = 1 /\ upc[d] \in {"exit", "done"}}
    BY <1>4, Family
  <2> QED
    BY <2>1, <2>2 DEF Sent
<1>6. t \in {"test", "exit"} /\ (t = "test" => type = 1)
  OBVIOUS
<1> HIDE DEF t
<1>7. Continue(c, t)
  BY DEF t
<1> QED
  BY <1>1, <1>3, <1>5, <1>6, <1>7, ChildSends

(* A variance is sent once, and only by a child that has the mean, when    *)
(* the parent has added up all the sums.                                   *)
LEMMA Child_send_var ==
  ASSUME Counts, SyncInv, ProgInv, NEW c \in Children, ~ handling[c], upc[c] = "send_var",
         send_mess(c, Parent, Var(c)), Continue(c, "exit"),
         UNCHANGED <<sreceived, mean, received>>
  PROVE  ProgInv'
<1>1. Var(c) \in Vars /\ Var(c) \notin Sums
  BY Kinds DEF Vars
<1>2. \A d \in Children : Var(c) = Var(d) => c = d
  BY SMTT(20) DEF Var
<1>3. Var(c) \notin Sent
  BY <1>1, <1>2 DEF Sent, Sums
<1>4. /\ upc'[c] = "exit"
      /\ \A d \in Procs \ {c} : upc'[d] = upc[d]
  BY Facts, Family DEF Continue
<1>5. type = 1
  BY KidFacts DEF ChildInv
<1>6. Sent' = Sent \cup {Var(c)}
  <2>1. {d \in Children : upc'[d] # "send_sum"} = {d \in Children : upc[d] # "send_sum"}
    BY <1>4, Family
  <2>2. {d \in Children : type = 1 /\ upc'[d] \in {"exit", "done"}} =
          {d \in Children : type = 1 /\ upc[d] \in {"exit", "done"}} \cup {c}
    BY <1>4, <1>5, Family
  <2> QED
    BY <2>1, <2>2 DEF Sent
<1>7. CHILDS <= Len(received)
  <2>1. pc[c] = "call"
    BY DEF send_mess, InCall
  <2>2. Informed(c)
    BY <2>1, KidFacts DEF PauseEnds, Handles, Signalled
  <2>3. ~ Before
    BY <2>2, KidFacts DEF MeanInv, Fresh, Informed
  <2>4. ParentInv
    BY DEF ProgInv
  <2>5. Len(received) \in Nat
    BY LengthFacts DEF ProgInv, MailInv
  <2> QED
    BY <2>3, <2>4, <2>5, Kinds, SMTT(20) DEF Before, ParentInv
<1> QED
  BY <1>1, <1>3, <1>4, <1>6, <1>7, ChildSends

-----------------------------------------------------------------------------
(* The steps of the parent.                                                *)

(* A step that leaves the multicast where it is.                           *)
LEMMA DueKept ==
  ASSUME dests'[Parent] = dests[Parent], Before' <=> Before,
         pc'[Parent] = "next" <=> pc[Parent] = "next",
         pc'[Parent] \in PostSteps <=> pc[Parent] \in PostSteps,
         pc'[Parent] \in {"post", "store"} <=> pc[Parent] \in {"post", "store"}
  PROVE  \A c : DueSame(c)
BY DEF DueSame, StillDue, PostingTo, Elements

(* A step of the parent preserves the invariant if it preserves the parts  *)
(* of the parent and the messages and touches no child.                    *)
LEMMA ParentFrame ==
  ASSUME ProgInv, Rest, ParentInv', MailInv',
         \A c \in Children : KidSame(c) /\ DueSame(c)
  PROVE  ProgInv'
<1>1. \A c \in Children : KidInv(c)'
  BY KidKept DEF ProgInv
<1> QED
  BY <1>1 DEF ProgInv, Rest

(* What the steps of the parent's calls other than send and the multicast  *)
(* leave alone.                                                            *)
ParentWithin ==
  /\ \A d \in Children : pc'[d] = pc[d] /\ state'[d] = state[d] /\ upc'[d] = upc[d]
  /\ UNCHANGED <<recv_multi_queue, pending_signals, handling, hgot, dests, msg, killed>>
  /\ UNCHANGED <<sreceived, mean>>
  /\ DOMAIN upc' = Procs

LEMMA ParentWithinFrame ==
  ASSUME SyncInv, ProgInv, ParentWithin, ParentInv', MailInv', \A c \in Children : DueSame(c)
  PROVE  ProgInv'
<1>1. Rest /\ \A c \in Children : KidSame(c)
  BY Facts DEF Rest, KidSame, PhaseSame, ParentWithin
<1> QED
  BY <1>1, ParentFrame

LEMMA ParentFacts ==
  ASSUME ProgInv
  PROVE  ParentInv /\ MailInv /\ Len(received) \in Nat
BY LengthFacts DEF ProgInv, MailInv

(* Steps of the parent between the places where it is in no call.          *)
LEMMA ParentQuiet ==
  ASSUME SyncInv, ProgInv, UNCHANGED progVars, ParentWithin, UNCHANGED <<recv_queue, got>>,
         \/ pc'[Parent] = pc[Parent]
         \/ pc[Parent] \in {"user", "ret", "trapret"} /\ pc'[Parent] \in {"user", "ret", "trapret"}
         \/ /\ pc[Parent] = "user" /\ pc'[Parent] = "call"
            /\ upc[Parent] \notin Adding
  PROVE  ProgInv'
<1>1. ParentInv'
  BY ParentFacts DEF ParentInv, ParentWithin, progVars, Posting, PostSteps, Signals, Distinct
<1>2. \A c \in Children : DueSame(c)
  BY DueKept DEF ParentWithin, progVars, Before, PostSteps
<1>3. MailInv'
  <2>1. InHand' = InHand
    BY DEF InHand, progVars
  <2>2. Sent' = Sent
    BY SentKept DEF progVars
  <2> QED
    BY <2>1, <2>2, ParentFacts, MailStays DEF progVars
<1> QED
  BY <1>1, <1>2, <1>3, ParentWithinFrame

LEMMA Parent_scheduler ==
  ASSUME SyncInv, ProgInv, scheduler(Parent), UNCHANGED progVars
  PROVE  ProgInv'
<1>1. ParentWithin /\ pc' = pc /\ UNCHANGED <<recv_queue, got>>
  BY Facts, Family DEF ParentWithin, scheduler, queueVars, postVars, progVars
<1> QED
  BY <1>1, ParentQuiet

LEMMA Parent_yield ==
  ASSUME SyncInv, ProgInv, yield(Parent), UNCHANGED progVars
  PROVE  ProgInv'
<1>1. /\ ParentWithin
      /\ pc'[Parent] = (IF pc[Parent] = "user" THEN "ret" ELSE pc[Parent])
      /\ UNCHANGED <<recv_queue, got>>
  BY Facts, Family
     DEF ParentWithin, yield, sched, Goto, queueVars, postVars, progVars
<1> QED
  BY <1>1, ParentQuiet

LEMMA Parent_TrapEnd ==
  ASSUME SyncInv, ProgInv, TrapEnd(Parent), UNCHANGED progVars
  PROVE  ProgInv'
<1>1. /\ ParentWithin /\ UNCHANGED <<recv_queue, got>>
      /\ pc[Parent] = "ret" /\ pc'[Parent] = "trapret"
  BY Facts, Family DEF ParentWithin, TrapEnd, Goto, procVars, queueVars, postVars, progVars
<1> QED
  BY <1>1, ParentQuiet

LEMMA Parent_trapret ==
  ASSUME SyncInv, ProgInv, trapret(Parent), UNCHANGED progVars
  PROVE  ProgInv'
<1>1. /\ ParentWithin /\ UNCHANGED <<recv_queue, got>>
      /\ pc[Parent] = "trapret" /\ pc'[Parent] = "user"
  BY Facts, Family DEF ParentWithin, trapret, Goto, procVars, queueVars, postVars, progVars
<1> QED
  BY <1>1, ParentQuiet

LEMMA Parent_EnterCall ==
  ASSUME SyncInv, ProgInv, EnterCall(Parent)
  PROVE  ProgInv'
<1>1. /\ ParentWithin /\ UNCHANGED progVars /\ UNCHANGED <<recv_queue, got>>
      /\ pc[Parent] = "user" /\ pc'[Parent] = "call"
      /\ upc[Parent] \notin Adding
  BY Facts, Family
     DEF ParentWithin, EnterCall, trap, Goto, procVars, queueVars, postVars, progVars, Adding
<1> QED
  BY <1>1, ParentQuiet

(* wait returns for each child when all have exited.                       *)
LEMMA Parent_WaitChildren ==
  ASSUME SyncInv, ProgInv, WaitChildren
  PROVE  ProgInv'
<1>1. /\ ParentWithin /\ UNCHANGED <<pc, recv_queue, got, received>>
      /\ pc[Parent] = "user" /\ upc[Parent] = "wait" /\ upc'[Parent] = "exit"
      /\ \A c \in Children : state[c] = "ZOMBIE"
  BY Facts, Family DEF ParentWithin, WaitChildren, InUser, Continue, vars
<1>2. \A c \in Children : upc'[c] = "done"
  <2>1. \A c \in Children : pc[c] = "exited"
    BY <1>1, Family DEF SyncInv, StateInv
  <2> QED
    BY <1>1, <2>1, KidFacts DEF ChildInv, ParentWithin
<1>3. ParentInv'
  BY <1>1, <1>2, ParentFacts
     DEF ParentInv, ParentWithin, Posting, PostSteps, Adding, Signals, Distinct
<1>4. \A c \in Children : DueSame(c)
  BY <1>1, DueKept DEF ParentWithin, Before
<1>5. MailInv'
  <2>1. InHand' = InHand
    BY <1>1 DEF InHand, Adding
  <2>2. Sent' = Sent
    BY <1>1, SentKept DEF ParentWithin
  <2> QED
    BY <1>1, <2>1, <2>2, ParentFacts, MailStays
<1> QED
  BY <1>1, <1>3, <1>4, <1>5, ParentWithinFrame

LEMMA Parent_exit ==
  ASSUME SyncInv, ProgInv, upc[Parent] = "exit", exit(Parent), Continue(Parent, "done"),
         UNCHANGED <<sreceived, mean, received>>
  PROVE  ProgInv'
<1>1. /\ ParentWithin /\ UNCHANGED <<recv_queue, got, received>>
      /\ pc[Parent] = "call" /\ pc'[Parent] = "exited" /\ upc'[Parent] = "done"
  BY Facts, Family
     DEF ParentWithin, exit, InCall, Exit, sched, Goto, Continue, queueVars, postVars
<1>2. ParentInv'
  BY <1>1, ParentFacts
     DEF ParentInv, ParentWithin, Posting, PostSteps, Adding, Signals, Distinct
<1>3. \A c \in Children : DueSame(c)
  BY <1>1, DueKept DEF ParentWithin, Before, PostSteps
<1>4. MailInv'
  <2>1. InHand' = InHand
    BY <1>1 DEF InHand, Adding
  <2>2. Sent' = Sent
    BY <1>1, SentKept DEF ParentWithin
  <2> QED
    BY <1>1, <2>1, <2>2, ParentFacts, MailStays
<1> QED
  BY <1>1, <1>2, <1>3, <1>4, ParentWithinFrame

(* recv: with nothing in the queue the parent sleeps, otherwise it has the *)
(* oldest message in hand.                                                 *)
LEMMA Parent_recv ==
  ASSUME SyncInv, ProgInv, RecvSleep(Parent) \/ RecvTake(Parent),
         UNCHANGED <<killed, recv_multi_queue, hgot, pending_signals, handling, postVars>>,
         UNCHANGED <<sreceived, mean, received>>,
         \/ pc[Parent] = "recv" /\ UNCHANGED upc
         \/ pc[Parent] = "call" /\ upc[Parent] = "recv_sum" /\ Continue(Parent, "add_sum")
         \/ pc[Parent] = "call" /\ upc[Parent] = "recv_var" /\ Continue(Parent, "add_var")
  PROVE  ProgInv'
<1>0. /\ DOMAIN upc' = Procs /\ \A d \in Children : upc'[d] = upc[d]
      /\ \/ upc'[Parent] = "add_sum" /\ upc[Parent] \in {"recv_sum", "add_sum"}
         \/ upc'[Parent] = "add_var" /\ upc[Parent] \in {"recv_var", "add_var"}
  <2>1. CASE pc[Parent] = "recv" /\ UNCHANGED upc
    BY <2>1, Facts, ParentFacts DEF ParentInv, Adding
  <2>2. CASE upc[Parent] = "recv_sum" /\ Continue(Parent, "add_sum")
    BY <2>2, Facts, Family DEF Continue
  <2>3. CASE upc[Parent] = "recv_var" /\ Continue(Parent, "add_var")
    BY <2>3, Facts, Family DEF Continue
  <2> QED
    BY <2>1, <2>2, <2>3
<1>1. ParentWithin
  <2>1. CASE RecvSleep(Parent)
    BY <1>0, <2>1, Facts, Family DEF ParentWithin, RecvSleep, sleep, sched, Goto, postVars
  <2>2. CASE RecvTake(Parent)
    BY <1>0, <2>2, Facts, Family DEF ParentWithin, RecvTake, Goto, postVars
  <2> QED
    BY <2>1, <2>2
<1>2. /\ pc'[Parent] \in {"recv", "ret"}
      /\ \/ upc'[Parent] = "add_sum" /\ upc[Parent] \in {"recv_sum", "add_sum"}
         \/ upc'[Parent] = "add_var" /\ upc[Parent] \in {"recv_var", "add_var"}
      /\ pc[Parent] \in {"recv", "call"}
  BY <1>0, Facts, Family DEF RecvSleep, RecvTake, Goto
<1>3. ParentInv'
  BY <1>1, <1>2, ParentFacts
     DEF ParentInv, ParentWithin, Posting, PostSteps, Adding, Signals, Distinct
<1>4. \A c \in Children : DueSame(c)
  BY <1>1, <1>2, DueKept DEF ParentWithin, Before, PostSteps
<1>5. InHand = {}
  BY ParentFacts DEF InHand, ParentInv
<1>6. Sent' = Sent
  BY <1>1, SentKept DEF ParentWithin
<1>7. CASE RecvSleep(Parent)
  <2>1. InHand' = {} /\ recv_queue' = recv_queue
    BY <1>7, Facts, Family DEF InHand, RecvSleep, Goto
  <2>2. MailInv'
    BY <1>5, <1>6, <2>1, ParentFacts, MailStays
  <2> QED
    BY <1>1, <1>3, <1>4, <2>2, ParentWithinFrame
<1>8. CASE RecvTake(Parent)
  <2> DEFINE q == recv_queue[Parent]
             M == Msgs \cup {Junk}
  <2>1. /\ q \in RingType(NUM_MSG, M) /\ NUM_MSG \in Nat \ {0}
        /\ ~ IsEmpty(q)
        /\ recv_queue'[Parent] = Dequeue(q, NUM_MSG)
        /\ got'[Parent].msg = Front(q)
        /\ pc'[Parent] = "ret"
    <3>1. recv_queue \in [Procs -> RingType(NUM_MSG, M)]
      BY DEF SyncInv, TypeInv, TypeOK, MessageQueues
    <3>2. NUM_MSG \in Nat \ {0}
      BY IpcAssumption
    <3> QED
      BY <1>8, <3>1, <3>2, Facts, Family DEF RecvTake, Goto
  <2>2. Inbox = Contents(q, NUM_MSG)
    BY DEF Inbox
  <2>3. Inbox # <<>> /\ Head(Inbox) = Front(q) /\ Inbox' = Tail(Inbox)
    <3>1. /\ Contents(q, NUM_MSG) # <<>>
          /\ Head(Contents(q, NUM_MSG)) = Front(q)
          /\ Contents(Dequeue(q, NUM_MSG), NUM_MSG) = Tail(Contents(q, NUM_MSG))
      BY <2>1, RingTake, SMTT(20)
    <3> QED
      BY <2>1, <2>2, <3>1 DEF Inbox
  <2> HIDE DEF q
  <2>4. Inbox \in Seq(M) /\ Distinct(Inbox)
    BY ParentFacts DEF MailInv
  <2>5. /\ Elements(Inbox) = {Head(Inbox)} \cup Elements(Tail(Inbox))
        /\ Distinct(Tail(Inbox)) /\ Head(Inbox) \notin Elements(Tail(Inbox))
        /\ Tail(Inbox) \in Seq(M)
    BY <2>3, <2>4, ElementsTail
  <2>6. InHand' = {Head(Inbox)}
    BY <1>2, <2>1, <2>3 DEF InHand, Adding
  <2>7. /\ Elements(received)' = Elements(received)
        /\ Distinct(received)' <=> Distinct(received)
        /\ Elements(Inbox)' = Elements(Tail(Inbox))
        /\ Distinct(Inbox)'
    <3>1. Elements(Inbox)' = Elements(Tail(Inbox)) /\ (Distinct(Inbox)' <=> Distinct(Tail(Inbox)))
      BY <2>3 DEF Elements, Distinct
    <3>2. Elements(received)' = Elements(received) /\ (Distinct(received)' <=> Distinct(received))
      BY DEF Elements, Distinct
    <3> QED
      BY <2>5, <3>1, <3>2
  <2>8. Inbox' \in Seq(Msgs \cup {Junk})
    BY <2>3, <2>5
  <2>9. MailInv'
    BY <1>5, <1>6, <2>5, <2>6, <2>7, <2>8, ParentFacts DEF MailInv
  <2> QED
    BY <1>1, <1>3, <1>4, <2>9, ParentWithinFrame
<1> QED
  BY <1>7, <1>8, SMTT(20)

(* The message that the parent adds up next is a partial sum until it has  *)
(* all of them, and a variance from then on.                               *)
LEMMA NextMessage ==
  ASSUME Counts, ProgInv, NEW m, InHand = {m}
  PROVE  m \in (IF Len(received) + 1 <= CHILDS THEN Sums ELSE Vars)
<1>1. MailInv /\ Len(received) \in Nat /\ CHILDS \in Nat
  BY ParentFacts, Kinds, SMTT(20)
<1>2. m \in Sent /\ m \notin Elements(received) /\ m \in Sums \cup Vars
  BY <1>1, SentType DEF MailInv
<1>3. CASE Len(received) + 1 <= CHILDS
  <2>1. ~ (CHILDS <= Len(received))
    BY <1>1, <1>3, SMTT(20)
  <2> QED
    BY <1>1, <1>2, <1>3, <2>1 DEF MailInv
<1>4. CASE ~ (Len(received) + 1 <= CHILDS)
  <2>1. CHILDS <= Len(received)
    BY <1>1, <1>4, SMTT(20)
  <2> DEFINE s == [i \in 1 .. CHILDS |-> received[i]]
  <2>2. \A i \in 1 .. CHILDS : i \in 1 .. Len(received) /\ i <= CHILDS
    BY <1>1, <2>1, SMTT(20)
  <2>3. s \in [1 .. CHILDS -> Sums]
    BY <1>1, <2>2 DEF MailInv
  <2>4. s \in Seq(Sums) /\ Len(s) = CHILDS /\ \A i \in 1 .. CHILDS : s[i] = received[i]
    BY <1>1, <2>3, ArrayFacts, SMTT(20)
  <2> HIDE DEF s
  <2>5. Distinct(s) /\ Elements(s) \subseteq Sums
    <3>1. Distinct(s)
      <4> SUFFICES ASSUME NEW i \in 1 .. CHILDS, NEW j \in 1 .. CHILDS, s[i] = s[j] PROVE i = j
        BY <2>4 DEF Distinct
      <4>1. received[i] = received[j]
        BY <2>4
      <4> QED
        BY <1>1, <2>2, <4>1 DEF MailInv, Distinct
    <3>2. \A i \in 1 .. CHILDS : s[i] \in Sums
      BY <2>3
    <3> QED
      BY <2>4, <3>1, <3>2 DEF Elements
  <2>6. Sums \subseteq Elements(s)
    BY <2>4, <2>5 DEF Counts, HasSize
  <2>7. Elements(s) \subseteq Elements(received)
    BY <2>2, <2>4 DEF Elements
  <2> QED
    BY <1>2, <1>4, <2>6, <2>7
<1> QED
  BY <1>3, <1>4, SMTT(20)

LEMMA Parent_AddUp ==
  ASSUME Counts, SyncInv, ProgInv, AddUp
  PROVE  ProgInv'
<1> DEFINE m == got[Parent].msg
           k == Len(received) + 1
<1>1. /\ ParentWithin /\ UNCHANGED <<pc, recv_queue, got>>
      /\ pc[Parent] = "user" /\ upc[Parent] \in Adding
      /\ received' = Append(received, m)
      /\ upc'[Parent] = (IF k < CHILDS THEN "recv_sum"
                         ELSE IF k = CHILDS /\ type = 1 THEN "send_multi"
                         ELSE IF k > CHILDS /\ k < 2 * CHILDS THEN "recv_var"
                         ELSE "wait")
  BY Facts, Family DEF ParentWithin, AddUp, InUser, Continue, vars, CHILDS, Adding
<1>2. InHand = {m} /\ InHand' = {}
  BY <1>1 DEF InHand, Adding
<1>3. /\ received \in Seq(Msgs) /\ m \in Msgs /\ m \notin Elements(received)
      /\ Elements(received) \cup {m} \cup Elements(Inbox) = Sent
      /\ Len(received) \in Nat /\ CHILDS \in Nat \ {0} /\ type \in {0, 1}
      /\ Distinct(received)
  BY <1>2, ParentFacts, SentType, Kinds, ProgAssumption DEF MailInv
<1>4. Len(received') = k /\ received' \in Seq(Msgs)
  BY <1>1, <1>3, AppendFacts, SMTT(20)
<1>5. /\ \/ upc[Parent] = "add_sum" /\ Len(received) < CHILDS
         \/ upc[Parent] = "add_var" /\ CHILDS <= Len(received) /\ Len(received) < 2 * CHILDS
            /\ type = 1
  BY <1>1, ParentFacts DEF ParentInv, Adding
<1>6. \/ upc'[Parent] = "recv_sum" /\ k < CHILDS
      \/ upc'[Parent] = "send_multi" /\ k = CHILDS /\ type = 1
      \/ upc'[Parent] = "recv_var" /\ CHILDS <= k /\ k < 2 * CHILDS /\ type = 1
      \/ upc'[Parent] = "wait" /\ CHILDS <= k
  BY <1>1, <1>3, <1>5, SMTT(20)
<1>7. ParentInv'
  <2>1. /\ upc'[Parent] \notin Adding \cup {"exit", "done"}
        /\ upc[Parent] # "done"
    BY <1>1 DEF Adding
  <2>2. /\ \/ upc'[Parent] \in {"recv_sum", "add_sum"} /\ Len(received') < CHILDS
           \/ upc'[Parent] = "send_multi" /\ Len(received') = CHILDS /\ type = 1
           \/ /\ upc'[Parent] \in {"recv_var", "add_var"}
              /\ CHILDS <= Len(received') /\ Len(received') < 2 * CHILDS /\ type = 1
           \/ upc'[Parent] \in {"wait", "exit", "done"} /\ CHILDS <= Len(received')
    BY <1>4, <1>6
  <2> QED
    BY <1>1, <2>1, <2>2, ParentFacts
       DEF ParentInv, ParentWithin, Posting, PostSteps, Signals, Distinct
<1>8. \A c \in Children : DueSame(c)
  <2>1. Before' <=> Before
    <3>1. type = 0 \/ type = 1
      BY <1>3
    <3>2. CASE type = 1 /\ upc[Parent] = "add_sum"
      BY <1>1, <1>3, <1>5, <3>2, SMTT(20) DEF Before
    <3>3. CASE type = 1 /\ upc[Parent] = "add_var"
      BY <1>1, <1>3, <1>5, <3>3, SMTT(20) DEF Before
    <3> QED
      BY <1>5, <3>1, <3>2, <3>3 DEF Before
  <2> QED
    BY <1>1, <2>1, DueKept DEF ParentWithin
<1>9. MailInv'
  <2>1. /\ Elements(Append(received, m)) = Elements(received) \cup {m}
        /\ Distinct(Append(received, m))
    BY <1>3, ElementsAppend
  <2>2. Inbox' = Inbox
    BY <1>1 DEF Inbox
  <2>3. /\ Elements(received)' = Elements(received) \cup {m} /\ Distinct(received)'
        /\ Elements(Inbox)' = Elements(Inbox) /\ (Distinct(Inbox)' <=> Distinct(Inbox))
    BY <1>1, <2>1, <2>2 DEF Elements, Distinct
  <2>4. Sent' = Sent
    BY <1>1, SentKept DEF ParentWithin
  <2>5. \A i \in 1 .. Len(received') : received'[i] \in (IF i <= CHILDS THEN Sums ELSE Vars)
    <3>1. m \in (IF Len(received) + 1 <= CHILDS THEN Sums ELSE Vars)
      BY <1>2, NextMessage
    <3>2. \A i \in 1 .. Len(received') :
            \/ i = Len(received) + 1 /\ received'[i] = m
            \/ i \in 1 .. Len(received) /\ received'[i] = received[i]
      BY <1>1, <1>3, <1>4, AppendFacts, SMTT(20)
    <3> QED
      BY <3>1, <3>2, ParentFacts DEF MailInv
  <2>6. CHILDS <= Len(received) => CHILDS <= Len(received')
    BY <1>3, <1>4, SMTT(20)
  <2>7. {m} \cap Elements(Inbox) = {} /\ Elements(received) \cap Elements(Inbox) = {}
    BY <1>2, ParentFacts DEF MailInv
  <2> QED
    BY <1>2, <1>3, <1>4, <2>2, <2>3, <2>4, <2>5, <2>6, <2>7, ParentFacts DEF MailInv
<1> QED
  BY <1>1, <1>7, <1>8, <1>9, ParentWithinFrame

-----------------------------------------------------------------------------
(* The multicast of the mean.                                              *)

(* The start of the multicast: the mean is due to every child.             *)
LEMMA Parent_send_multi ==
  ASSUME SyncInv, ProgInv, upc[Parent] = "send_multi", send_multicast(Parent, c_ids, Mean),
         Continue(Parent, "recv_var"), UNCHANGED <<sreceived, mean, received>>
  PROVE  ProgInv'
<1>1. /\ c_ids \in Seq(Children) /\ c_ids # <<>> /\ Distinct(c_ids)
      /\ Children \subseteq Elements(c_ids)
  <2>1. c_ids \in Seq(Children) /\ Distinct(c_ids) /\ Children \subseteq Elements(c_ids)
    BY ProgAssumption DEF Distinct, Elements
  <2>2. c_ids # <<>>
    BY ProgAssumption, SMTT(20)
  <2> QED
    BY <2>1, <2>2, SMTT(20)
<1>2. /\ pc[Parent] = "call" /\ pc'[Parent] = "next" /\ upc'[Parent] = "recv_var"
      /\ dests'[Parent] = c_ids /\ msg'[Parent] = Mean
      /\ \A d \in Children : pc'[d] = pc[d] /\ upc'[d] = upc[d]
      /\ DOMAIN upc' = Procs
      /\ UNCHANGED <<state, recv_multi_queue, pending_signals, handling, hgot, got, killed,
                     recv_queue>>
  BY <1>1, Facts, Family
     DEF send_multicast, InCall, Goto, Continue, procVars, queueVars
<1>3. ParentInv'
  <2>1. Len(received) = CHILDS /\ type = 1
    BY ParentFacts DEF ParentInv
  <2>2. CHILDS <= CHILDS /\ CHILDS < 2 * CHILDS
    BY Kinds, SMTT(20)
  <2>3. Len(received') = CHILDS
    BY <2>1
  <2>4. Distinct(dests[Parent])'
    BY <1>1, <1>2 DEF Distinct
  <2> QED
    BY <1>1, <1>2, <2>1, <2>2, <2>3, <2>4, ParentFacts
       DEF ParentInv, Posting, PostSteps, Adding, Signals
<1>4. ASSUME NEW c \in Children PROVE KidInv(c)'
  <2>1. PhaseSame(c) /\ Before /\ StillDue(c)'
    BY <1>1, <1>2 DEF PhaseSame, Before, StillDue, Elements
  <2>2. MeanInv(c)'
    BY <2>1, KidFacts, PhasesKept DEF MeanInv
  <2>3. ChildInv(c)' /\ PauseEnds(c)'
    BY <1>2, <2>1, KidFacts, PhasesKept DEF ChildInv, PauseEnds
  <2> QED
    BY <2>2, <2>3 DEF KidInv
<1>5. MailInv'
  <2>1. InHand' = InHand
    BY <1>2 DEF InHand, Adding
  <2>2. Sent' = Sent
    BY <1>2, SentKept
  <2> QED
    BY <1>2, <2>1, <2>2, ParentFacts, MailStays
<1> QED
  BY <1>2, <1>3, <1>4, <1>5, Facts DEF ProgInv

(* The child that the multicast is at.                                     *)
LEMMA Receiver ==
  ASSUME SyncInv, ProgInv, pc[Parent] \in Posting
  PROVE  /\ Head(dests[Parent]) \in Children
         /\ Elements(dests[Parent]) = {Head(dests[Parent])} \cup Elements(Tail(dests[Parent]))
         /\ Head(dests[Parent]) \notin Elements(Tail(dests[Parent]))
         /\ Distinct(Tail(dests[Parent])) /\ Tail(dests[Parent]) \in Seq(Children)
         /\ Len(dests[Parent]) > 1 \/ Tail(dests[Parent]) = <<>>
         /\ ~ Before
<1> DEFINE s == dests[Parent]
<1>1. s \in Seq(Children) /\ Distinct(s) /\ s # <<>>
  BY ParentFacts, Family DEF ParentInv, SyncInv, TypeInv, DestsInv, Posting
<1>2. ~ Before
  <2>1. upc[Parent] = "recv_var" /\ type = 1
    BY ParentFacts DEF ParentInv
  <2> QED
    BY <2>1, SMTT(20) DEF Before
<1> HIDE DEF s
<1>3. Head(s) \in Children /\ (Len(s) > 1 \/ Tail(s) = <<>>)
  <2>1. Head(s) \in Children /\ Tail(s) \in Seq(Children) /\ Len(Tail(s)) = Len(s) - 1
        /\ Len(s) \in Nat
    BY <1>1, TailFacts, LengthFacts, SMTT(20)
  <2> QED
    BY <2>1, EmptyFacts, SMTT(20)
<1>4. /\ Elements(s) = {Head(s)} \cup Elements(Tail(s))
      /\ Distinct(Tail(s)) /\ Head(s) \notin Elements(Tail(s)) /\ Tail(s) \in Seq(Children)
  BY <1>1, ElementsTail
<1> QED
  BY <1>2, <1>3, <1>4 DEF s

(* What a step of the multicast on the child q leaves alone.               *)
PostStep(q) ==
  /\ \A d \in Children : pc'[d] = pc[d] /\ upc'[d] = upc[d]
  /\ \A d \in Children \ {q} : KidSame(d)
  /\ UNCHANGED progVars
  /\ UNCHANGED <<handling, hgot, got, killed, recv_queue>>
  /\ pending_signals'[Parent] = pending_signals[Parent]

LEMMA PostFrame ==
  ASSUME SyncInv, ProgInv, NEW q \in Children, PostStep(q), pc[Parent] \in Posting,
         ParentInv', KidInv(q)', \A d \in Children \ {q} : DueSame(d),
         pc'[Parent] # "recv"
  PROVE  ProgInv'
<1>1. \A d \in Children : KidInv(d)'
  BY KidKept DEF ProgInv, PostStep
<1>2. InHand' = InHand
  BY ParentFacts DEF InHand, ParentInv, PostStep, progVars, Adding, Posting, PostSteps
<1>3. Sent' = Sent
  BY SentKept DEF PostStep
<1>4. MailInv'
  BY <1>2, <1>3, ParentFacts, MailStays DEF PostStep, progVars
<1> QED
  BY <1>1, <1>4, Facts DEF ProgInv, PostStep, progVars

(* The steps of the parent that stay at the receiver keep its part.        *)
LEMMA ParentStays ==
  ASSUME SyncInv, ProgInv, NEW q \in Children, PostStep(q), pc[Parent] \in Posting,
         dests'[Parent] = dests[Parent], msg'[Parent] = msg[Parent],
         pc'[Parent] \in PostSteps
  PROVE  ParentInv'
BY ParentFacts
   DEF ParentInv, PostStep, progVars, Posting, PostSteps, Signals, Distinct

(* The mean goes into the queue of the next child.                         *)
LEMMA Parent_MulticastNext ==
  ASSUME SyncInv, ProgInv, MulticastNext(Parent), UNCHANGED progVars
  PROVE  ProgInv'
<1>0. pc[Parent] = "next" /\ pc[Parent] \in Posting /\ msg[Parent] = Mean
  BY ParentFacts DEF MulticastNext, Posting, ParentInv
<1>1. PICK q \in Children : q = Head(dests[Parent])
  BY <1>0, Receiver, SMTT(20)
<1>2. /\ pc'[Parent] = "post"
      /\ recv_multi_queue'[q] = Enqueue(recv_multi_queue[q], Mean, NUM_MSG)
      /\ \A d \in Children \ {q} : recv_multi_queue'[d] = recv_multi_queue[d]
      /\ \A d \in Children : pc'[d] = pc[d]
      /\ UNCHANGED <<state, pending_signals, handling, hgot, got, killed, recv_queue, dests, msg>>
  BY <1>0, <1>1, Facts, Family DEF MulticastNext, Goto, procVars, postVars
<1>3. PostStep(q)
  BY <1>2 DEF PostStep, KidSame, PhaseSame, progVars
<1>4. Before' <=> Before
  BY DEF Before, progVars
<1>5. \A d \in Children \ {q} : DueSame(d)
  BY <1>0, <1>1, <1>2, <1>4, Receiver
     DEF DueSame, StillDue, PostingTo, Elements, PostSteps
<1>6. KidInv(q)'
  <2>1. StillDue(q) /\ ~ Before /\ ~ StillDue(q)' /\ PostingTo(q)'
    BY <1>0, <1>1, <1>2, Receiver DEF StillDue, PostingTo, Elements, PostSteps
  <2>2. Fresh(q)
    BY <2>1, KidFacts DEF MeanInv
  <2>3. Queued(q)'
    BY <1>2, <2>2 DEF Fresh, Queued, Waiting, Signals, progVars
  <2>4. MeanInv(q)'
    BY <1>4, <2>1, <2>3 DEF MeanInv
  <2>5. ChildInv(q)'
    BY <1>2, KidFacts DEF ChildInv, progVars
  <2>6. ~ Signalled(q) /\ ~ Handles(q) /\ ~ Informed(q)
    BY <2>2, SMTT(20) DEF Fresh, Signalled, Handles, Informed, Signals
  <2>7. PauseEnds(q)'
    BY <1>2, <2>6, KidFacts DEF PauseEnds, progVars
  <2> QED
    BY <2>4, <2>5, <2>7 DEF KidInv
<1>7. ParentInv'
  BY <1>0, <1>2, <1>3, ParentStays DEF PostSteps
<1> QED
  BY <1>0, <1>2, <1>3, <1>5, <1>6, <1>7, PostFrame

(* The steps of send_signal that change nothing of the receiver.           *)
LEMMA PostQuiet ==
  ASSUME SyncInv, ProgInv, UNCHANGED progVars,
         pc[Parent] \in PostSteps, pc'[Parent] \in PostSteps,
         pc'[Parent] \in {"post", "store"} <=> pc[Parent] \in {"post", "store"},
         \A d \in Children : pc'[d] = pc[d],
         UNCHANGED <<state, recv_multi_queue, pending_signals, handling, hgot, got, killed,
                     recv_queue, dests, msg>>
  PROVE  ProgInv'
<1>1. PICK q \in Children : q = Head(dests[Parent])
  BY Receiver DEF Posting
<1>2. PostStep(q) /\ KidSame(q)
  BY DEF PostStep, KidSame, PhaseSame, progVars
<1>3. \A d \in Children : DueSame(d)
  BY DueKept DEF Before, progVars, PostSteps
<1>4. KidInv(q)'
  BY <1>2, <1>3, KidKept DEF ProgInv
<1>5. ParentInv'
  BY <1>2, ParentStays DEF Posting
<1> QED
  BY <1>2, <1>3, <1>4, <1>5, PostFrame DEF Posting, PostSteps

LEMMA Parent_SignalLoad ==
  ASSUME SyncInv, ProgInv, SignalLoadTail(Parent) \/ SignalLoadChan(Parent), UNCHANGED progVars
  PROVE  ProgInv'
<1>1. /\ UNCHANGED <<state, recv_multi_queue, pending_signals, handling, hgot, got, killed,
                     recv_queue, dests, msg>>
      /\ \A d \in Children : pc'[d] = pc[d]
      /\ \/ pc[Parent] = "post" /\ pc'[Parent] = "store"
         \/ pc[Parent] = "chan" /\ pc'[Parent] = "wake"
  BY Facts, Family DEF SignalLoadTail, SignalLoadChan, Goto, procVars, queueVars
<1> QED
  BY <1>1, PostQuiet DEF PostSteps

(* The child has the signal.                                               *)
LEMMA Parent_SignalStoreTail ==
  ASSUME SyncInv, ProgInv, SignalStoreTail(Parent), UNCHANGED progVars
  PROVE  ProgInv'
<1>0. pc[Parent] = "store" /\ pc[Parent] \in Posting
  BY DEF SignalStoreTail, Posting, PostSteps
<1>1. PICK q \in Children : q = Head(dests[Parent])
  BY <1>0, Receiver, SMTT(20)
<1>2. /\ pc'[Parent] = "chan"
      /\ pending_signals' = [pending_signals EXCEPT ![q].tail = (rtail[Parent] + 1) % MAX_SIG]
      /\ \A d \in Procs \ {q} : pending_signals'[d] = pending_signals[d]
      /\ \A d \in Children : pc'[d] = pc[d]
      /\ UNCHANGED <<state, recv_multi_queue, handling, hgot, got, killed, recv_queue, dests, msg>>
  BY <1>0, <1>1, Facts, Family DEF SignalStoreTail, Goto, procVars
<1>3. PostStep(q)
  BY <1>2, Family DEF PostStep, KidSame, PhaseSame, progVars
<1>4. Before' <=> Before
  BY DEF Before, progVars
<1>5. \A d \in Children \ {q} : DueSame(d)
  BY <1>0, <1>1, <1>2, <1>4 DEF DueSame, StillDue, PostingTo, Elements, PostSteps
<1>6. KidInv(q)'
  <2>1. PostingTo(q) /\ ~ Before /\ ~ StillDue(q) /\ ~ StillDue(q)' /\ ~ PostingTo(q)'
    BY <1>0, <1>1, <1>2, Receiver DEF StillDue, PostingTo, Elements, PostSteps
  <2>2. Queued(q)
    BY <2>1, KidFacts DEF MeanInv
  <2>3. rtail[Parent] = 0
    BY <1>0, <1>1, <2>2, Family, SMTT(20) DEF SyncInv, PostInv, Queued, Signals
  <2>4. Signals(q, 0, 1)'
    <3>1. q \in DOMAIN pending_signals /\ pending_signals[q] = [head |-> 0, tail |-> 0]
      BY <2>2, Facts, Family DEF Queued, Signals
    <3> QED
      BY <1>2, <2>3, <3>1, SignalRoom, SMTT(20) DEF Signals
  <2>5. Signalled(q)'
    BY <1>2, <2>2, <2>4 DEF Queued, Signalled, progVars
  <2>6. MeanInv(q)'
    BY <1>4, <2>1, <2>5 DEF MeanInv
  <2>7. ChildInv(q)'
    BY <1>2, KidFacts DEF ChildInv, progVars
  <2>8. ~ Signalled(q) /\ ~ Handles(q) /\ ~ Informed(q)
    BY <2>2, SMTT(20) DEF Queued, Signalled, Handles, Informed, Signals
  <2>9. PauseEnds(q)'
    BY <1>2, <2>8, KidFacts DEF PauseEnds, progVars
  <2> QED
    BY <2>6, <2>7, <2>9 DEF KidInv
<1>7. ParentInv'
  BY <1>0, <1>2, <1>3, ParentStays DEF PostSteps
<1> QED
  BY <1>0, <1>2, <1>3, <1>5, <1>6, <1>7, PostFrame

(* The end of a send_signal: the next child, or the end of the multicast.  *)
LEMMA ParentMovesOn ==
  ASSUME SyncInv, ProgInv, NEW q \in Children, q = Head(dests[Parent]),
         pc[Parent] \in {"wake", "set"}, SignalDone(Parent),
         UNCHANGED progVars, UNCHANGED <<recv_multi_queue, pending_signals, handling, hgot, got,
                                         killed, recv_queue>>,
         \A d \in Children \ {q} : state'[d] = state[d],
         state'[q] = state[q] \/ (pc[q] = "paused" /\ state'[q] = "RUNNABLE")
  PROVE  ProgInv'
<1>0. pc[Parent] \in Posting
  BY DEF Posting, PostSteps
<1>1. /\ dests'[Parent] = Tail(dests[Parent])
      /\ \/ Len(dests[Parent]) > 1 /\ pc'[Parent] = "next" /\ msg'[Parent] = msg[Parent]
         \/ ~ (Len(dests[Parent]) > 1) /\ pc'[Parent] = "ret"
      /\ \A d \in Children : pc'[d] = pc[d]
  BY Facts, Family DEF SignalDone, Goto
<1>2. PostStep(q) /\ PhaseSame(q)
  BY <1>1 DEF PostStep, KidSame, PhaseSame, progVars
<1>3. ASSUME NEW d \in Children PROVE DueSame(d)
  <2>1. Before' <=> Before
    BY DEF Before, progVars
  <2>2. ~ PostingTo(d) /\ ~ PostingTo(d)'
    BY <1>1 DEF PostingTo
  <2>3. StillDue(d) <=> d \in Elements(Tail(dests[Parent]))
    BY DEF StillDue, PostSteps
  <2>4. CASE pc'[Parent] = "next"
    BY <1>1, <2>1, <2>2, <2>3, <2>4 DEF DueSame, StillDue, Elements, PostSteps
  <2>5. CASE pc'[Parent] = "ret" /\ Tail(dests[Parent]) = <<>>
    <3>1. ~ StillDue(d)'
      BY <2>5 DEF StillDue, PostSteps
    <3>2. Elements(<<>>) = {}
      BY SMTT(20) DEF Elements
    <3> QED
      BY <2>1, <2>2, <2>3, <2>5, <3>1, <3>2 DEF DueSame
  <2> QED
    BY <1>0, <1>1, <2>4, <2>5, Receiver
<1>4. KidInv(q)'
  <2>1. MeanInv(q)'
    BY <1>1, <1>2, <1>3, MeanKept, KidFacts
  <2>2. ChildInv(q)'
    BY <1>1, KidFacts DEF ChildInv, progVars
  <2>3. ~ Before /\ ~ StillDue(q) /\ ~ PostingTo(q)
    BY <1>0, Receiver DEF StillDue, PostingTo, PostSteps
  <2>4. Signalled(q) \/ Handles(q) \/ Informed(q)
    BY <2>3, KidFacts DEF MeanInv
  <2>5. PauseEnds(q)'
    BY <1>1, <1>2, <2>4, KidFacts, PhasesKept DEF PauseEnds, progVars
  <2> QED
    BY <2>1, <2>2, <2>5 DEF KidInv
<1>5. ParentInv'
  <2>1. Distinct(dests[Parent])' /\ dests'[Parent] \in Seq(Children)
    BY <1>0, <1>1, Receiver DEF Distinct
  <2>2. pc'[Parent] \notin Posting => dests'[Parent] = <<>>
    BY <1>0, <1>1, Receiver DEF Posting
  <2> QED
    BY <1>0, <1>1, <1>2, <2>1, <2>2, ParentFacts
       DEF ParentInv, PostStep, progVars, Posting, PostSteps, Adding, Signals
<1> QED
  BY <1>0, <1>1, <1>2, <1>3, <1>4, <1>5, PostFrame

LEMMA Parent_SignalTest ==
  ASSUME SyncInv, ProgInv, SignalTest(Parent), UNCHANGED progVars
  PROVE  ProgInv'
<1>0. pc[Parent] = "wake" /\ pc[Parent] \in Posting
  BY DEF SignalTest, Posting, PostSteps
<1>1. PICK q \in Children : q = Head(dests[Parent])
  BY <1>0, Receiver, SMTT(20)
<1>2. UNCHANGED <<state, recv_multi_queue, pending_signals, handling, hgot, got, killed,
                  recv_queue>>
  BY DEF SignalTest, procVars, queueVars
<1>3. CASE Goto(Parent, "set") /\ UNCHANGED <<lock, dests, msg, rchan>>
  <2>1. pc'[Parent] = "set" /\ \A d \in Children : pc'[d] = pc[d]
    BY <1>3, Facts, Family DEF Goto
  <2> QED
    BY <1>0, <1>2, <1>3, <2>1, PostQuiet DEF PostSteps
<1>4. CASE SignalDone(Parent)
  BY <1>0, <1>1, <1>2, <1>4, ParentMovesOn
<1> QED
  BY <1>3, <1>4 DEF SignalTest

LEMMA Parent_SignalWake ==
  ASSUME SyncInv, ProgInv, SignalWake(Parent), UNCHANGED progVars
  PROVE  ProgInv'
<1>0. pc[Parent] = "set" /\ pc[Parent] \in Posting
  BY DEF SignalWake, Posting, PostSteps
<1>1. PICK q \in Children : q = Head(dests[Parent])
  BY <1>0, Receiver, SMTT(20)
<1>2. /\ UNCHANGED <<recv_multi_queue, pending_signals, handling, hgot, got, killed, recv_queue>>
      /\ SignalDone(Parent)
      /\ state'[q] = "RUNNABLE"
      /\ \A d \in Children \ {q} : state'[d] = state[d]
  BY <1>1, Facts, Family DEF SignalWake, queueVars
<1>3. pc[q] = "paused"
  <2>1. state[q] = "SLEEPING"
    BY <1>0, <1>1, Family DEF SyncInv, PostInv
  <2>2. pc[q] \in {"recv", "paused"}
    BY <2>1, Family DEF SyncInv, StateInv
  <2> QED
    BY <2>2, KidFacts DEF ChildInv
<1> QED
  BY <1>0, <1>1, <1>2, <1>3, ParentMovesOn

-----------------------------------------------------------------------------
(* The invariant holds initially and every step preserves it.              *)

LEMMA ProgInit == InitProg => ProgInv
<1> SUFFICES ASSUME InitProg PROVE ProgInv
  OBVIOUS
<1>1. Init
  BY DEF InitProg
<1>2. /\ upc[Parent] = "recv_sum" /\ received = <<>>
      /\ DOMAIN upc = Procs /\ DOMAIN sreceived = Children /\ DOMAIN mean = Children
      /\ \A c \in Children : upc[c] = "send_sum" /\ ~ sreceived[c]
  BY Family DEF InitProg
<1>3. \A p \in Procs :
        /\ pc[p] = "trapret" /\ dests[p] = <<>> /\ ~ handling[p] /\ ~ killed[p]
        /\ recv_multi_queue[p] = Unsent /\ recv_queue[p] = Unsent /\ Signals(p, 0, 0)
  BY <1>1 DEF Init, Unsent, Signals
<1>4. \A c \in Children : KidInv(c)
  BY <1>2, <1>3, Family DEF KidInv, MeanInv, ChildInv, PauseEnds, Before, Fresh
<1>5. Len(received) = 0 /\ 0 < CHILDS /\ <<>> \in Seq(Children)
  BY <1>2, Kinds, EmptyFacts, SMTT(20)
<1>6. Distinct(<<>>) /\ Elements(<<>>) = {}
  BY SMTT(20) DEF Distinct, Elements
<1>7. ParentInv
  BY <1>2, <1>3, <1>5, <1>6, Family DEF ParentInv, Posting, PostSteps, Adding
<1>8. MailInv
  <2>1. Inbox = <<>>
    <3>1. NUM_MSG \in Nat \ {0}
      BY IpcAssumption
    <3> QED
      BY <1>3, <3>1, Family, RingInit DEF Inbox, Unsent
  <2>2. InHand = {}
    BY <1>2 DEF InHand, Adding
  <2>3. Sent = {}
    BY <1>2 DEF Sent
  <2>4. <<>> \in Seq(Msgs) /\ <<>> \in Seq(Msgs \cup {Junk}) /\ \A i : i \notin 1 .. Len(<<>>)
    BY EmptyFacts, SMTT(20)
  <2> QED
    BY <1>2, <1>6, <2>1, <2>2, <2>3, <2>4 DEF MailInv
<1> QED
  BY <1>2, <1>3, <1>4, <1>7, <1>8 DEF ProgInv

(* The steps of a child in the kernel.                                     *)
LEMMA Child_Kernel ==
  ASSUME SyncInv, ProgInv, NEW c \in Children, KernelStep(c), UNCHANGED progVars
  PROVE  ProgInv'
<1>1. /\ pc[c] \in {"user", "call", "ret", "trapret", "pause", "paused", "exited"}
      /\ ~ killed[c]
  BY KidFacts, Facts, Family DEF ChildInv
<1>2. PauseSleep(c) \/ PauseResume(c) \/ TrapEnd(c) \/ handle_signals(c) \/ trapret(c)
  BY <1>1 DEF KernelStep, RecvResume, MulticastNext, SignalLoadTail, SignalStoreTail,
     SignalLoadChan, SignalTest, SignalWake, ExitKilled
<1> QED
  BY <1>2, Child_PauseSleep, Child_PauseResume, Child_TrapEnd, Child_handle_signals,
     Child_trapret

(* The steps of the parent in the kernel.                                  *)
LEMMA Parent_Kernel ==
  ASSUME SyncInv, ProgInv, KernelStep(Parent), UNCHANGED progVars
  PROVE  ProgInv'
<1>1. /\ pc[Parent] \notin {"pause", "paused"}
      /\ ~ killed[Parent] /\ NoSignal(Parent)
  <2>1. pc[Parent] \notin {"pause", "paused"}
    BY ParentFacts DEF ParentInv, Posting, PostSteps
  <2>2. NoSignal(Parent)
    BY ParentFacts, SMTT(20) DEF ParentInv, Signals, NoSignal
  <2> QED
    BY <2>1, <2>2, Facts, Family
<1>2. CASE RecvResume(Parent)
  BY <1>2, Parent_recv DEF RecvResume, progVars
<1>3. CASE SignalLoadTail(Parent) \/ SignalLoadChan(Parent)
  BY <1>3, Parent_SignalLoad
<1>4. CASE MulticastNext(Parent) \/ SignalStoreTail(Parent)
  BY <1>4, Parent_MulticastNext, Parent_SignalStoreTail
<1>5. CASE SignalTest(Parent) \/ SignalWake(Parent)
  BY <1>5, Parent_SignalTest, Parent_SignalWake
<1>6. CASE TrapEnd(Parent) \/ trapret(Parent)
  BY <1>6, Parent_TrapEnd, Parent_trapret
<1> QED
  BY <1>1, <1>2, <1>3, <1>4, <1>5, <1>6
     DEF KernelStep, PauseSleep, PauseResume, ExitKilled, handle_signals

(* The system calls and the own steps of a child.                          *)
LEMMA Child_Step ==
  ASSUME Counts, SyncInv, ProgInv, NEW c \in Children, ChildStep(c)
  PROVE  ProgInv'
<1>1. CASE ChildCall(c)
  <2> USE <1>1 DEF ChildCall
  <2>1. CASE /\ upc[c] = "send_sum" /\ send_mess(c, Parent, Sum(c))
             /\ Continue(c, IF type = 1 THEN "test" ELSE "exit")
    BY <2>1, Child_send_sum
  <2>2. CASE upc[c] = "sig_pause" /\ pause_signal(c) /\ Continue(c, "send_var")
    BY <2>2, Child_sig_pause
  <2>3. CASE upc[c] = "send_var" /\ send_mess(c, Parent, Var(c)) /\ Continue(c, "exit")
    BY <2>3, Child_send_var
  <2>4. CASE upc[c] = "exit" /\ exit(c) /\ Continue(c, "done")
    BY <2>4, Child_exit
  <2> QED
    BY <2>1, <2>2, <2>3, <2>4
<1> QED
  BY <1>1, Child_TestMean, Child_message_handler, Child_EnterCall, Child_HandlerReturn
     DEF ChildStep

(* The system calls and the own steps of the parent.                       *)
LEMMA Parent_Step ==
  ASSUME Counts, SyncInv, ProgInv, ParentStep
  PROVE  ProgInv'
<1>1. CASE ParentCall
  <2> USE <1>1 DEF ParentCall
  <2>1. CASE recv_mess(Parent) /\ upc[Parent] = "recv_sum" /\ Continue(Parent, "add_sum")
    BY <2>1, Parent_recv DEF recv_mess, InCall
  <2>2. CASE recv_mess(Parent) /\ upc[Parent] = "recv_var" /\ Continue(Parent, "add_var")
    BY <2>2, Parent_recv DEF recv_mess, InCall
  <2>3. CASE /\ upc[Parent] = "send_multi" /\ send_multicast(Parent, c_ids, Mean)
             /\ Continue(Parent, "recv_var")
    BY <2>3, Parent_send_multi
  <2>4. CASE upc[Parent] = "exit" /\ exit(Parent) /\ Continue(Parent, "done")
    BY <2>4, Parent_exit
  <2> QED
    BY <2>1, <2>2, <2>3, <2>4
<1> QED
  BY <1>1, Parent_AddUp, Parent_WaitChildren, Parent_EnterCall DEF ParentStep

LEMMA ProgStep == Counts /\ SyncInv /\ ProgInv /\ [NextProg]_allVars => ProgInv'
<1> SUFFICES ASSUME Counts, SyncInv, ProgInv, [NextProg]_allVars PROVE ProgInv'
  OBVIOUS
<1>1. ASSUME NEW p \in Procs, Schedule(p) \/ Tick(p) \/ Kernel(p) PROVE ProgInv'
  <2>1. CASE p = Parent
    BY <1>1, <2>1, Parent_scheduler, Parent_yield, Parent_Kernel
       DEF Schedule, Tick, Kernel
  <2>2. CASE p \in Children
    BY <1>1, <2>2, Child_scheduler, Child_yield, Child_Kernel
       DEF Schedule, Tick, Kernel
  <2> QED
    BY <2>1, <2>2, Family
<1>2. CASE UNCHANGED allVars
  <2>1. UNCHANGED progVars /\ UNCHANGED vars
    BY <1>2 DEF allVars
  <2>2. /\ ParentWithin /\ UNCHANGED <<recv_queue, got>> /\ pc' = pc
    BY <2>1, Facts DEF ParentWithin, vars, progVars
  <2> QED
    BY <2>1, <2>2, ParentQuiet
<1> QED
  BY <1>1, <1>2, Child_Step, Parent_Step DEF NextProg, Done

(* A child that is about to send its variance has the mean.               *)
LEMMA HasMean == ASSUME ProgInv PROVE VarianceUsesMean
<1> SUFFICES ASSUME NEW c \in Children, upc[c] = "send_var", InUser(c)
             PROVE  mean[c] = Mean
  BY DEF VarianceUsesMean
<1> QED
  BY KidFacts DEF PauseEnds, InUser, Handles, Informed

(* What the parent has added up are the sums and then the variances.        *)
LEMMA AddedOnce == ASSUME ProgInv PROVE EachChildOnce
<1>1. MailInv
  BY ParentFacts
<1>2. DOMAIN received = 1 .. Len(received)
  BY <1>1, LengthFacts, SMTT(20) DEF MailInv
<1>3. \A i, j \in DOMAIN received : received[i] = received[j] => i = j
  BY <1>1, <1>2 DEF MailInv, Distinct
<1>4. ASSUME NEW i \in DOMAIN received
      PROVE  received[i] \in {(IF i <= CHILDS THEN Sum(c) ELSE Var(c)) : c \in Children}
  <2>1. received[i] \in (IF i <= CHILDS THEN Sums ELSE Vars)
    BY <1>1, <1>2 DEF MailInv
  <2>2. CASE i <= CHILDS
    BY <2>1, <2>2 DEF Sums
  <2>3. CASE ~ (i <= CHILDS)
    BY <2>1, <2>3 DEF Vars
  <2> QED
    BY <2>2, <2>3
<1> QED
  BY <1>3, <1>4 DEF EachChildOnce, CHILDS

(* No process can run any more only if all have ended, or a child waits    *)
(* for a signal that has come.                                             *)
LEMMA Stopped ==
  ASSUME Counts, SyncInv, ProgInv, RecvNoLostWakeup
  PROVE  StopsOnlyAtMissedMean
<1> SUFFICES ASSUME \A p \in Procs : state[p] \in {"SLEEPING", "ZOMBIE"},
                    ~ \E c \in Children : MissedMean(c)
             PROVE  \A p \in Procs : pc[p] = "exited"
  BY DEF StopsOnlyAtMissedMean
<1>1. \A p \in Procs : lock # p
  BY DEF SyncInv, LockInv
<1>2. \A p \in Procs :
        \/ pc[p] = "exited"
        \/ state[p] = "SLEEPING" /\ pc[p] \in {"recv", "paused"}
  BY DEF SyncInv, StateInv
<1>3. pc[Parent] \notin {"paused"}
  BY ParentFacts DEF ParentInv, Posting, PostSteps
<1>4. CASE pc[Parent] = "exited"
  <2>1. \A c \in Children : upc[c] = "done"
    BY <1>4, ParentFacts DEF ParentInv
  <2>2. \A c \in Children : pc[c] = "exited"
    BY <2>1, KidFacts DEF ChildInv
  <2> QED
    BY <1>4, <2>2, Family
<1>5. CASE pc[Parent] = "recv" /\ state[Parent] = "SLEEPING"
  <2>1. Elements(received) = Sent
    <3>1. IsEmpty(recv_queue[Parent])
      BY <1>5, Family DEF SyncInv, StateInv, RecvNoLostWakeup
    <3>2. Inbox = <<>>
      <4>1. recv_queue[Parent] \in RingType(NUM_MSG, Msgs \cup {Junk})
        BY Family DEF SyncInv, TypeInv, TypeOK, MessageQueues
      <4>2. NUM_MSG \in Nat \ {0}
        BY IpcAssumption
      <4>3. Count(recv_queue[Parent], NUM_MSG) = 0
        <5>1. recv_queue[Parent].tail - recv_queue[Parent].head = 0
          BY <3>1, <4>1, <4>2, SMTT(20) DEF IsEmpty, RingType, Slots
        <5>2. 0 % NUM_MSG = 0
          BY <4>2, ModSmall, SMTT(20)
        <5> QED
          BY <5>1, <5>2 DEF Count
      <4>4. Len(Inbox) = 0 /\ Inbox \in Seq(Msgs \cup {Junk})
        <5>1. Len(Inbox) = 0
          BY <4>3, SMTT(20) DEF Inbox, Contents
        <5> QED
          BY <5>1, ParentFacts DEF MailInv
      <4> QED
        BY <4>4, EmptyFacts, SMTT(20)
    <3>3. InHand = {}
      BY <1>5 DEF InHand
    <3>4. Elements(<<>>) = {}
      BY SMTT(20) DEF Elements
    <3> QED
      BY <3>2, <3>3, <3>4, ParentFacts DEF MailInv
  <2>2. received \in Seq(Msgs) /\ Distinct(received)
    BY ParentFacts DEF MailInv
  <2>3. \A c \in Children : pc[c] = "exited" \/ (pc[c] = "paused" /\ state[c] = "SLEEPING")
    BY <1>2, KidFacts, Family DEF ChildInv
  <2>4. CHILDS <= Len(received)
    <3>1. \A c \in Children : upc[c] \in {"done", "send_var"}
      BY <2>3, KidFacts DEF ChildInv
    <3>2. Sums \subseteq Elements(received)
      BY <2>1, <3>1 DEF Sums, Sent
    <3> QED
      BY <2>2, <3>2 DEF Counts, HasSize
  <2>5. type = 1 /\ upc[Parent] = "add_var" /\ Len(received) < 2 * CHILDS
    <3>1. ~ (Len(received) < CHILDS)
      BY <2>4, Kinds, ParentFacts, SMTT(20)
    <3> QED
      BY <1>5, <3>1, ParentFacts DEF ParentInv, Adding
  <2>6. \A c \in Children : ~ Before /\ ~ StillDue(c) /\ ~ PostingTo(c)
    <3>1. ~ Before
      BY <2>5, SMTT(20) DEF Before
    <3> QED
      BY <1>5, <3>1 DEF StillDue, PostingTo, PostSteps
  <2>7. ASSUME NEW c \in Children PROVE pc[c] = "exited"
    <3> SUFFICES ASSUME pc[c] = "paused", state[c] = "SLEEPING" PROVE FALSE
      BY <2>3
    <3>1. NoSignal(c)
      BY <1>1, Family DEF SyncInv, PauseInv
    <3>2. ~ Signalled(c)
      BY <3>1, SMTT(20) DEF NoSignal, Signalled, Signals
    <3>3. Informed(c)
      BY <2>6, <3>2, KidFacts DEF MeanInv, Handles
    <3> QED
      BY <3>1, <3>3 DEF MissedMean, Informed
  <2>8. Sums \cup Vars \subseteq Elements(received)
    <3>1. \A c \in Children : upc[c] = "done"
      BY <2>7, KidFacts DEF ChildInv
    <3> QED
      BY <2>1, <2>5, <3>1 DEF Sums, Vars, Sent
  <2>9. 2 * CHILDS <= Len(received)
    BY <2>2, <2>8 DEF Counts, HasSize
  <2> QED
    BY <2>5, <2>9, Kinds, ParentFacts, SMTT(20)
<1> QED
  BY <1>2, <1>3, <1>4, <1>5, Family

-----------------------------------------------------------------------------
(* Counting messages.  What is known of the sizes of finite sets is taken  *)
(* in only here, where it is needed.                                       *)

LOCAL INSTANCE FiniteSetTheorems

(* A sequence without repetitions over a finite set is no longer than the  *)
(* set is large, and as long only if it has all of its elements; and it is *)
(* at least as long as a set it covers.                                    *)
LEMMA LengthBound ==
  ASSUME NEW S, NEW s \in Seq(S), NEW T, IsFiniteSet(T), Distinct(s)
  PROVE  /\ Elements(s) \subseteq T => Len(s) <= Cardinality(T)
         /\ Elements(s) \subseteq T /\ Len(s) = Cardinality(T) => T \subseteq Elements(s)
         /\ T \subseteq Elements(s) => Cardinality(T) <= Len(s)
<1> DEFINE I == 1 .. Len(s)
<1>1. IsFiniteSet(I) /\ Cardinality(I) = Len(s) /\ s \in [I -> S] /\ Len(s) \in Nat
  <2>1. Len(s) \in Nat /\ s \in [I -> S]
    BY LengthFacts, SMTT(20)
  <2> QED
    BY <2>1, FS_Interval, SMTT(20)
<1> HIDE DEF I
<1>2. ASSUME Elements(s) \subseteq T
      PROVE  Len(s) <= Cardinality(T) /\ (Len(s) = Cardinality(T) => T \subseteq Elements(s))
  <2>1. s \in Injection(I, T)
    BY <1>1, <1>2 DEF Injection, IsInjective, Elements, Distinct, I
  <2>2. /\ Cardinality(I) <= Cardinality(T)
        /\ Cardinality(I) = Cardinality(T) <=> s \in Surjection(I, T)
    BY <2>1, FS_Injection
  <2>3. s \in Surjection(I, T) => T \subseteq Elements(s)
    BY DEF Surjection, Elements, I
  <2> QED
    BY <1>1, <2>2, <2>3
<1>3. ASSUME T \subseteq Elements(s) PROVE Cardinality(T) <= Len(s)
  <2>1. s \in Surjection(I, Elements(s))
    BY <1>1 DEF Surjection, Elements, I
  <2>2. IsFiniteSet(Elements(s)) /\ Cardinality(Elements(s)) <= Len(s)
    <3>1. IsFiniteSet(Elements(s)) /\ Cardinality(Elements(s)) <= Cardinality(I)
      BY <1>1, <2>1, FS_Surjection, SMTT(20)
    <3> QED
      BY <1>1, <3>1
  <2>3. Cardinality(T) <= Cardinality(Elements(s))
    BY <1>3, <2>2, FS_Subset
  <2>4. Cardinality(T) \in Nat /\ Cardinality(Elements(s)) \in Nat
    BY <2>2, FS_CardinalityType
  <2> QED
    BY <1>1, <2>2, <2>3, <2>4, SMTT(20)
<1> QED
  BY <1>2, <1>3

(* The numbers up to n, a set in which every element of another has its    *)
(* own, and two sets without a common element.                             *)
LEMMA IndexSize ==
  ASSUME NEW n \in Nat
  PROVE  IsFiniteSet(1 .. n) /\ Cardinality(1 .. n) = n
BY FS_Interval, SMTT(20)

LEMMA SameSize ==
  ASSUME NEW S, IsFiniteSet(S), NEW T, NEW f \in [S -> T],
         \A x, y \in S : f[x] = f[y] => x = y,
         \A t \in T : \E x \in S : f[x] = t
  PROVE  IsFiniteSet(T) /\ Cardinality(T) = Cardinality(S)
<1>1. f \in Bijection(S, T)
  BY DEF Bijection, Injection, Surjection, IsInjective
<1> QED
  BY <1>1, FS_Bijection DEF ExistsBijection

LEMMA DisjointSize ==
  ASSUME NEW S, NEW T, IsFiniteSet(S), IsFiniteSet(T), S \cap T = {}
  PROVE  /\ IsFiniteSet(S \cup T)
         /\ Cardinality(S \cup T) = Cardinality(S) + Cardinality(T)
<1>1. /\ IsFiniteSet(S \cup T)
      /\ Cardinality(S \cup T) = Cardinality(S) + Cardinality(T) - Cardinality(S \cap T)
  BY FS_Union
<1>2. Cardinality(S \cap T) = 0
  BY FS_EmptySet
<1>3. Cardinality(S) \in Nat /\ Cardinality(T) \in Nat
  BY FS_CardinalityType
<1> QED
  BY <1>1, <1>2, <1>3, SMTT(20)

(* There are as many partial sums as children, and as many variances.      *)
LEMMA HowMany == Counts
<1>1. CHILDS \in Nat \ {0} /\ c_ids \in Seq(Children)
  BY Kinds, ProgAssumption
<1>2. IsFiniteSet(Children) /\ Cardinality(Children) = CHILDS
  <2>1. IsFiniteSet(1 .. CHILDS) /\ Cardinality(1 .. CHILDS) = CHILDS
    BY <1>1, IndexSize, SMTT(20)
  <2>2. c_ids \in [1 .. CHILDS -> Children]
    BY <1>1, LengthFacts DEF CHILDS
  <2>3. /\ \A x, y \in 1 .. CHILDS : c_ids[x] = c_ids[y] => x = y
        /\ \A t \in Children : \E x \in 1 .. CHILDS : c_ids[x] = t
    BY ProgAssumption DEF CHILDS
  <2> QED
    BY <2>1, <2>2, <2>3, SameSize
<1>3. IsFiniteSet(Sums) /\ Cardinality(Sums) = CHILDS
  <2> DEFINE f == [c \in Children |-> Sum(c)]
  <2>1. f \in [Children -> Sums] /\ \A c \in Children : f[c] = Sum(c)
    BY DEF Sums
  <2>2. \A c, d \in Children : Sum(c) = Sum(d) => c = d
    BY SMTT(20) DEF Sum
  <2> HIDE DEF f
  <2>3. /\ \A x, y \in Children : f[x] = f[y] => x = y
        /\ \A t \in Sums : \E x \in Children : f[x] = t
    BY <2>1, <2>2 DEF Sums
  <2> QED
    BY <1>2, <2>1, <2>3, SameSize
<1>4. IsFiniteSet(Vars) /\ Cardinality(Vars) = CHILDS
  <2> DEFINE f == [c \in Children |-> Var(c)]
  <2>1. f \in [Children -> Vars] /\ \A c \in Children : f[c] = Var(c)
    BY DEF Vars
  <2>2. \A c, d \in Children : Var(c) = Var(d) => c = d
    BY SMTT(20) DEF Var
  <2> HIDE DEF f
  <2>3. /\ \A x, y \in Children : f[x] = f[y] => x = y
        /\ \A t \in Vars : \E x \in Children : f[x] = t
    BY <2>1, <2>2 DEF Vars
  <2> QED
    BY <1>2, <2>1, <2>3, SameSize
<1>5. IsFiniteSet(Sums \cup Vars) /\ Cardinality(Sums \cup Vars) = 2 * CHILDS
  <2>1. /\ IsFiniteSet(Sums \cup Vars)
        /\ Cardinality(Sums \cup Vars) = Cardinality(Sums) + Cardinality(Vars)
    BY <1>3, <1>4, Kinds, DisjointSize
  <2> QED
    BY <1>1, <1>3, <1>4, <2>1, SMTT(20)
<1> QED
  BY <1>3, <1>5, LengthBound DEF Counts, HasSize

-----------------------------------------------------------------------------
(* The kernel's invariants hold of the program, and so does the program's. *)
LEMMA ProgCorrect == SpecProg => [](SyncInv /\ ProgInv /\ RecvNoLostWakeup)
<1>1. SpecProg => Spec
  <2>1. InitProg => Init
    BY DEF InitProg
  <2> QED
    BY <2>1, ProgramStep, PTL DEF SpecProg, Spec
<1>2. Spec => []SyncInv
  BY NoBareSignals, SyncCorrect
<1> QED
  BY <1>1, <1>2, RecvSafe, HowMany, ProgInit, ProgStep, PTL DEF SpecProg

-----------------------------------------------------------------------------
(* What the program is for.                                                *)

(* A child computes its variance from the mean the parent has sent it, for *)
(* every number of children and every schedule (assig1_8.c 118-124).       *)
THEOREM VarianceCorrect == SpecProg => []VarianceUsesMean
<1>1. ProgInv => VarianceUsesMean
  BY HasMean
<1> QED
  BY <1>1, ProgCorrect, PTL

(* The parent adds up the partial sum of every child once, and after them  *)
(* the partial variance of every child once (assig1_8.c 76-96).            *)
THEOREM SumsCorrect == SpecProg => []EachChildOnce
<1>1. ProgInv => EachChildOnce
  BY AddedOnce
<1> QED
  BY <1>1, ProgCorrect, PTL

(* When no process can run any more, the program has ended or a child has  *)
(* missed the mean between its test and sig_pause (assig1_8.c 117-118).    *)
THEOREM StopsSafe == SpecProg => []StopsOnlyAtMissedMean
<1>1. SyncInv /\ ProgInv /\ RecvNoLostWakeup => StopsOnlyAtMissedMean
  BY HowMany, Stopped
<1> QED
  BY <1>1, ProgCorrect, PTL
=============================================================================
