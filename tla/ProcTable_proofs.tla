-------------------------- MODULE ProcTable_proofs --------------------------
(***************************************************************************)
(* Proofs about ProcTable, for every size of the process table, every      *)
(* number of CPUs and every choice of pids: kernel stacks are not shared,  *)
(* wait loses no wakeup and no killed process sleeps.                      *)
(***************************************************************************)
EXTENDS ProcTable, TLAPS

(* The time the provers are given, where a step does not say.              *)
USE SMTT(20), ZenonT(20)

Forking == {"kalloc", "copy", "publish"}
Switching == {"sched_exit", "sched_wait"}

Types ==
  /\ lock \in Slots \cup {Nobody}
  /\ state \in [Slots -> ProcStates]
  /\ parent \in [Slots -> Slots \cup {Nobody}]
  /\ killed \in [Slots -> BOOLEAN]
  /\ chan \in [Slots -> Slots \cup {Nobody}]
  /\ oncpu \in [Slots -> Int]
  /\ pc \in [Slots -> Locations]
  /\ np \in [Slots -> Slots \cup {Nobody}]

(* A CPU is on the stack of a process that is RUNNING or about to swtch.   *)
CpuInv ==
  \A p \in Slots :
    oncpu[p] = (IF state[p] = "RUNNING" \/ pc[p] \in Switching THEN 1 ELSE 0)

(* What the state of a slot says about the code its process is in.         *)
CodeInv ==
  \A p \in Slots :
    /\ state[p] = "UNUSED" => pc[p] = "none"
    /\ state[p] = "EMBRYO" => pc[p] \in {"none", "forkret"}
    /\ state[p] = "SLEEPING" => pc[p] \in {"sched_wait", "waiting"}
    /\ state[p] = "RUNNABLE" => pc[p] \in {"forkret", "call", "ret", "exit", "waiting"} \cup Forking
    /\ state[p] = "RUNNING" => pc[p] \in {"user", "call", "ret", "exit", "waiting"} \cup Forking
    /\ state[p] = "ZOMBIE" => pc[p] \in {"none", "sched_exit"}

(* Who holds ptable.lock between two steps: a process about to swtch, or   *)
(* one that is back in the sleep of wait.                                  *)
LockInv ==
  \A p \in Slots :
    lock = p <=> pc[p] \in Switching \/ (pc[p] = "waiting" /\ state[p] = "RUNNING")

(* The slot fork has allocated is an EMBRYO, its own, and has a context    *)
(* once it has a stack.                                                    *)
ForkInv ==
  \A p \in Slots :
    /\ pc[p] \in Forking =>
         /\ np[p] \in Slots
         /\ state[np[p]] = "EMBRYO"
         /\ pc[np[p]] = (IF pc[p] = "kalloc" THEN "none" ELSE "forkret")
         /\ \A q \in Slots : pc[q] \in Forking /\ np[q] = np[p] => q = p
    /\ pc[p] \in {"kalloc", "copy"} => parent[np[p]] = Nobody

(* init has no parent and never exits; a slot is nobody's child before     *)
(* fork makes it one, and nobody is its own child.                         *)
ParentInv ==
  /\ parent[initproc] = Nobody
  /\ ~ killed[initproc]
  /\ pc[initproc] # "exit"
  /\ state[initproc] \notin {"UNUSED", "EMBRYO", "ZOMBIE"}
  /\ \A p \in Slots :
       /\ parent[p] # p
       /\ state[p] = "UNUSED" => parent[p] = Nobody

(* Who sleeps does so on its own slot, with a child, none of its children  *)
(* a zombie, and not killed.                                               *)
SleepInv ==
  \A p \in Slots :
    state[p] = "SLEEPING" =>
      /\ chan[p] = p
      /\ ~ killed[p]
      /\ \E q \in Slots : parent[q] = p
      /\ \A q \in Slots : parent[q] = p => state[q] # "ZOMBIE"

Sync == CpuInv /\ CodeInv /\ LockInv /\ ForkInv /\ ParentInv /\ SleepInv

Inv == Types /\ Sync

-----------------------------------------------------------------------------
(* Steps that change only the place of a process that executes outside of  *)
(* sleep and swtch: trap, its end, and calls that find nothing to do.      *)
Quiet == {"user", "call", "ret", "exit"}

QuietStep(p) ==
  /\ state[p] = "RUNNING"
  /\ pc[p] \in Quiet
  /\ pc'[p] \in Quiet
  /\ p = initproc => pc'[p] # "exit"
  /\ \A q \in Slots \ {p} : pc'[q] = pc[q]
  /\ UNCHANGED <<lock, state, parent, killed, chan, oncpu, np>>

(* A quiet step preserves the invariant.                                   *)
LEMMA QuietSafe ==
  ASSUME Sync, NEW p \in Slots, QuietStep(p)
  PROVE  Sync'
<1>1. CpuInv'
  BY Zenon DEF Sync, QuietStep, Quiet, CpuInv, Switching
<1>2. CodeInv'
  BY Zenon DEF Sync, QuietStep, Quiet, CodeInv
<1>3. LockInv'
  BY Zenon DEF Sync, QuietStep, Quiet, LockInv, Switching
<1>4. ForkInv'
  <2>1. \A q \in Slots : pc[q] \in Forking => np[q] # p
    BY Zenon DEF Sync, QuietStep, ForkInv
  <2> QED
    BY <2>1 DEF Sync, QuietStep, Quiet, ForkInv, Forking
<1>5. ParentInv'
  BY ProcAssumption, Zenon DEF Sync, QuietStep, ParentInv
<1>6. SleepInv'
  BY Zenon DEF Sync, QuietStep, SleepInv
<1> QED
  BY <1>1, <1>2, <1>3, <1>4, <1>5, <1>6, Zenon DEF Sync

(* What executes and is not about to swtch is RUNNING.                     *)
LEMMA ExecutingRuns ==
  ASSUME Sync, NEW p \in Slots, Executing(p), pc[p] \notin Switching
  PROVE  state[p] = "RUNNING"
BY DEF Sync, CpuInv, Executing

-----------------------------------------------------------------------------
(* The scheduler preserves the invariant.                                  *)
LEMMA Inv_scheduler ==
  ASSUME Types, Sync, NEW p \in Slots, scheduler(p)
  PROVE  Sync'
<1>1. /\ lock = Nobody /\ Nobody # p
      /\ state[p] = "RUNNABLE"
      /\ lock' = (IF pc[p] = "waiting" THEN p ELSE Nobody)
      /\ state'[p] = "RUNNING"
      /\ oncpu'[p] = oncpu[p] + 1
      /\ pc'[p] = (IF pc[p] = "forkret" THEN "ret" ELSE pc[p])
      /\ \A q \in Slots \ {p} : state'[q] = state[q] /\ oncpu'[q] = oncpu[q] /\ pc'[q] = pc[q]
      /\ UNCHANGED <<parent, killed, chan, np>>
  BY ProcAssumption, Zenon DEF Types, scheduler, Goto
<1>2. \A q \in Slots : lock # q /\ Nobody # q /\ pc[q] \notin Switching
  BY <1>1, ProcAssumption, Zenon DEF Sync, LockInv
<1>3. CpuInv'
  BY <1>1, <1>2 DEF Sync, CpuInv, Switching
<1>4. CodeInv'
  BY <1>1, <1>2 DEF Sync, CodeInv, Switching
<1>5. LockInv'
  BY <1>1, <1>2, Zenon DEF Sync, LockInv, Switching
<1>6. ForkInv'
  <2>1. \A q \in Slots : pc[q] \in Forking => np[q] # p
    BY <1>1, Zenon DEF Sync, ForkInv
  <2>2. \A q \in Slots : pc'[q] \in Forking => pc[q] \in Forking /\ pc'[q] = pc[q]
    BY <1>1, Zenon DEF Forking
  <2> QED
    BY <1>1, <2>1, <2>2 DEF Sync, ForkInv, Forking
<1>7. ParentInv'
  BY <1>1, ProcAssumption, Zenon DEF Sync, ParentInv
<1>8. SleepInv'
  BY <1>1 DEF Sync, SleepInv
<1> QED
  BY <1>3, <1>4, <1>5, <1>6, <1>7, <1>8, Zenon DEF Sync

(* The switch to the scheduler preserves the invariant.                    *)
LEMMA Inv_sched ==
  ASSUME Types, Sync, NEW p \in Slots, sched(p)
  PROVE  Sync'
<1>1. /\ pc[p] \in Switching
      /\ lock = p /\ lock' = Nobody /\ Nobody # p
      /\ oncpu'[p] = oncpu[p] - 1
      /\ pc'[p] = (IF pc[p] = "sched_exit" THEN "none" ELSE "waiting")
      /\ \A q \in Slots \ {p} : oncpu'[q] = oncpu[q] /\ pc'[q] = pc[q]
      /\ UNCHANGED <<state, parent, killed, chan, np>>
  BY ProcAssumption, Zenon DEF Types, sched, Goto, Switching
<1>2. state[p] = (IF pc[p] = "sched_exit" THEN "ZOMBIE" ELSE "SLEEPING")
  BY <1>1, Zenon DEF Sync, CodeInv, Switching, Forking, Types, ProcStates
<1>3. \A q \in Slots \ {p} : lock # q /\ Nobody # q /\ pc[q] \notin Switching
  BY <1>1, ProcAssumption, Zenon DEF Sync, LockInv
<1>4. CpuInv'
  BY <1>1, <1>2, <1>3 DEF Sync, CpuInv, Switching
<1>5. CodeInv'
  BY <1>1, <1>2, Zenon DEF Sync, CodeInv
<1>6. LockInv'
  BY <1>1, <1>2, <1>3, Zenon DEF Sync, LockInv, Switching
<1>7. ForkInv'
  <2>1. \A q \in Slots : pc[q] \in Forking => np[q] # p
    BY <1>2, Zenon DEF Sync, ForkInv
  <2>2. \A q \in Slots : pc'[q] \in Forking => pc[q] \in Forking /\ pc'[q] = pc[q]
    BY <1>1, Zenon DEF Forking
  <2> QED
    BY <1>1, <2>1, <2>2 DEF Sync, ForkInv, Forking
<1>8. ParentInv'
  BY <1>1, ProcAssumption, Zenon DEF Sync, ParentInv
<1>9. SleepInv'
  BY <1>1, Zenon DEF Sync, SleepInv
<1> QED
  BY <1>4, <1>5, <1>6, <1>7, <1>8, <1>9, Zenon DEF Sync

(* A timer interrupt preserves the invariant.                              *)
LEMMA Inv_yield ==
  ASSUME Types, Sync, NEW p \in Slots, yield(p)
  PROVE  Sync'
<1>1. /\ lock = Nobody /\ lock' = Nobody
      /\ state[p] = "RUNNING"
      /\ state'[p] = "RUNNABLE"
      /\ oncpu'[p] = oncpu[p] - 1
      /\ pc'[p] = (IF pc[p] = "user" THEN "ret" ELSE pc[p])
      /\ \A q \in Slots \ {p} : state'[q] = state[q] /\ oncpu'[q] = oncpu[q] /\ pc'[q] = pc[q]
      /\ UNCHANGED <<parent, killed, chan, np>>
  BY Zenon DEF Types, yield, Goto
<1>2. \A q \in Slots : lock # q /\ Nobody # q /\ pc[q] \notin Switching
  BY <1>1, ProcAssumption, Zenon DEF Sync, LockInv
<1>3. CpuInv'
  BY <1>1, <1>2 DEF Sync, CpuInv, Switching
<1>4. CodeInv'
  BY <1>1 DEF Sync, CodeInv
<1>5. LockInv'
  BY <1>1, <1>2, Zenon DEF Sync, LockInv, Switching
<1>6. ForkInv'
  <2>1. \A q \in Slots : pc[q] \in Forking => np[q] # p
    BY <1>1, Zenon DEF Sync, ForkInv
  <2>2. \A q \in Slots : pc'[q] \in Forking => pc[q] \in Forking /\ pc'[q] = pc[q]
    BY <1>1, Zenon DEF Forking
  <2> QED
    BY <1>1, <2>1, <2>2 DEF Sync, ForkInv, Forking
<1>7. ParentInv'
  BY <1>1, ProcAssumption, Zenon DEF Sync, ParentInv
<1>8. SleepInv'
  BY <1>1 DEF Sync, SleepInv
<1> QED
  BY <1>3, <1>4, <1>5, <1>6, <1>7, <1>8, Zenon DEF Sync


-----------------------------------------------------------------------------
(* allocproc taking a slot preserves the invariant: the slot it finds      *)
(* belongs to nobody.                                                      *)
LEMMA Inv_fork ==
  ASSUME Types, Sync, NEW p \in Slots, fork(p)
  PROVE  Sync'
<1>1. PICK q \in Slots :
        /\ state[q] = "UNUSED"
        /\ state' = [state EXCEPT ![q] = "EMBRYO"]
        /\ np' = [np EXCEPT ![p] = q]
  BY Zenon DEF fork, Unused
<1>2. /\ pc[p] = "call" /\ state[p] = "RUNNING"
      /\ pc'[p] = "kalloc"
      /\ \A r \in Slots \ {p} : pc'[r] = pc[r] /\ np'[r] = np[r]
      /\ UNCHANGED <<lock, parent, killed, chan, oncpu>>
  BY <1>1, ExecutingRuns, Zenon DEF Types, fork, Goto, Switching
<1>3. /\ state'[q] = "EMBRYO" /\ np'[p] = q
      /\ \A r \in Slots \ {q} : state'[r] = state[r]
      /\ p # q /\ pc[q] = "none" /\ parent[q] = Nobody
  BY <1>1, <1>2 DEF Types, Sync, CodeInv, ParentInv
<1>4. CpuInv'
  BY <1>1, <1>2, <1>3, Zenon DEF Sync, CpuInv, Switching
<1>5. CodeInv'
  BY <1>1, <1>2, <1>3 DEF Sync, CodeInv, Forking
<1>6. LockInv'
  BY <1>1, <1>2, <1>3 DEF Sync, LockInv, Switching
<1>7. ForkInv'
  <2>1. \A r \in Slots : pc[r] \in Forking => np[r] \notin {p, q} /\ r \notin {p, q}
    BY <1>1, <1>2, <1>3, Zenon DEF Sync, ForkInv, Forking
  <2>2. \A r \in Slots \ {p} : pc'[r] \in Forking =>
          pc[r] \in Forking /\ pc'[r] = pc[r] /\ np'[r] = np[r]
    BY <1>2, Zenon DEF Forking
  <2> QED
    BY <1>2, <1>3, <2>1, <2>2 DEF Sync, ForkInv, Forking
<1>8. ParentInv'
  BY <1>1, <1>2, <1>3, ProcAssumption, Zenon DEF Sync, ParentInv
<1>9. SleepInv'
  BY <1>2, <1>3 DEF Sync, SleepInv
<1> QED
  BY <1>4, <1>5, <1>6, <1>7, <1>8, <1>9, Zenon DEF Sync

(* The end of allocproc preserves the invariant.                           *)
LEMMA Inv_ForkStack ==
  ASSUME Types, Sync, NEW p \in Slots, ForkStack(p)
  PROVE  Sync'
<1> DEFINE q == np[p]
<1>1. /\ pc[p] = "kalloc" /\ state[p] = "RUNNING"
      /\ q \in Slots /\ state[q] = "EMBRYO" /\ pc[q] = "none" /\ parent[q] = Nobody /\ p # q
  BY ExecutingRuns, Zenon DEF ForkStack, Switching, Sync, ForkInv, Forking
<1>2. /\ pc'[p] = "copy" /\ pc'[q] = "forkret"
      /\ \A r \in Slots \ {p, q} : pc'[r] = pc[r]
      /\ UNCHANGED <<lock, state, parent, killed, chan, oncpu, np>>
  BY <1>1, Zenon DEF ForkStack, Types
<1>3. \A r \in Slots : pc[r] \in Forking => np[r] # p /\ r # q /\ (r # p => np[r] # q)
  BY <1>1, Zenon DEF Sync, ForkInv, Forking
<1> HIDE DEF q
<1>4. CpuInv'
  BY <1>1, <1>2, Zenon DEF Sync, CpuInv, Switching
<1>5. CodeInv'
  BY <1>1, <1>2, Zenon DEF Sync, CodeInv, Forking
<1>6. LockInv'
  BY <1>1, <1>2, Zenon DEF Sync, LockInv, Switching
<1>7. ForkInv'
  <2>1. \A r \in Slots \ {p} : pc'[r] \in Forking => pc[r] \in Forking /\ pc'[r] = pc[r]
    BY <1>2, Zenon DEF Forking
  <2>2. np[p] = q
    BY Zenon DEF q
  <2> QED
    BY <1>1, <1>2, <1>3, <2>1, <2>2 DEF Sync, ForkInv, Forking
<1>8. ParentInv'
  BY <1>1, <1>2, ProcAssumption, Zenon DEF Sync, ParentInv
<1>9. SleepInv'
  BY <1>2, Zenon DEF Sync, SleepInv
<1> QED
  BY <1>4, <1>5, <1>6, <1>7, <1>8, <1>9, Zenon DEF Sync

(* A fork that fails preserves the invariant: it gives back, without the   *)
(* lock, a slot that nobody else has.                                      *)
LEMMA Inv_ForkFail ==
  ASSUME Types, Sync, NEW p \in Slots, ForkFail(p)
  PROVE  Sync'
<1> DEFINE q == np[p]
<1>1. /\ pc[p] \in {"kalloc", "copy"} /\ state[p] = "RUNNING"
      /\ q \in Slots /\ state[q] = "EMBRYO" /\ pc[q] \in {"none", "forkret"}
      /\ parent[q] = Nobody /\ p # q
  BY ExecutingRuns, Zenon DEF ForkFail, Switching, Sync, ForkInv, Forking
<1>2. /\ pc'[p] = "ret" /\ pc'[q] = "none" /\ state'[q] = "UNUSED"
      /\ \A r \in Slots \ {p, q} : pc'[r] = pc[r]
      /\ \A r \in Slots \ {q} : state'[r] = state[r]
      /\ \A r \in Slots \ {p} : np'[r] = np[r]
      /\ UNCHANGED <<lock, parent, killed, chan, oncpu>>
  BY <1>1, Zenon DEF ForkFail, Types
<1>3. \A r \in Slots : pc[r] \in Forking => np[r] # p /\ r # q /\ (r # p => np[r] # q)
  BY <1>1, Zenon DEF Sync, ForkInv, Forking
<1> HIDE DEF q
<1>4. CpuInv'
  BY <1>1, <1>2, Zenon DEF Sync, CpuInv, Switching
<1>5. CodeInv'
  BY <1>1, <1>2 DEF Sync, CodeInv, Forking
<1>6. LockInv'
  BY <1>1, <1>2 DEF Sync, LockInv, Switching
<1>7. ForkInv'
  <2>1. \A r \in Slots : pc'[r] \in Forking =>
          r # p /\ pc[r] \in Forking /\ pc'[r] = pc[r] /\ np'[r] = np[r]
    BY <1>2, Zenon DEF Forking
  <2> QED
    BY <1>1, <1>2, <1>3, <2>1 DEF Sync, ForkInv, Forking
<1>8. ParentInv'
  BY <1>1, <1>2, ProcAssumption, Zenon DEF Sync, ParentInv
<1>9. SleepInv'
  BY <1>1, <1>2 DEF Sync, SleepInv
<1> QED
  BY <1>4, <1>5, <1>6, <1>7, <1>8, <1>9, Zenon DEF Sync

(* Setting the parent of the child preserves the invariant.                *)
LEMMA Inv_ForkCopy ==
  ASSUME Types, Sync, NEW p \in Slots, ForkCopy(p)
  PROVE  Sync'
<1> DEFINE q == np[p]
<1>1. /\ pc[p] = "copy" /\ state[p] = "RUNNING"
      /\ q \in Slots /\ state[q] = "EMBRYO" /\ pc[q] = "forkret" /\ parent[q] = Nobody /\ p # q
  BY ExecutingRuns, Zenon DEF ForkCopy, Switching, Sync, ForkInv, Forking
<1>2. /\ pc'[p] = "publish" /\ parent'[q] = p
      /\ \A r \in Slots \ {p} : pc'[r] = pc[r]
      /\ \A r \in Slots \ {q} : parent'[r] = parent[r]
      /\ UNCHANGED <<lock, state, killed, chan, oncpu, np>>
  BY <1>1, Zenon DEF ForkCopy, Goto, Types
<1>3. \A r \in Slots : pc[r] \in Forking => np[r] # p /\ r # q /\ (r # p => np[r] # q)
  BY <1>1, Zenon DEF Sync, ForkInv, Forking
<1> HIDE DEF q
<1>4. CpuInv'
  BY <1>1, <1>2, Zenon DEF Sync, CpuInv, Switching
<1>5. CodeInv'
  BY <1>1, <1>2 DEF Sync, CodeInv, Forking
<1>6. LockInv'
  BY <1>1, <1>2, Zenon DEF Sync, LockInv, Switching
<1>7. ForkInv'
  <2>1. \A r \in Slots : pc'[r] \in Forking => pc[r] \in Forking /\ (r # p => pc'[r] = pc[r])
    BY <1>1, <1>2, Zenon DEF Forking
  <2>2. np[p] = q
    BY Zenon DEF q
  <2> QED
    BY <1>1, <1>2, <1>3, <2>1, <2>2 DEF Sync, ForkInv, Forking
<1>8. ParentInv'
  BY <1>1, <1>2, ProcAssumption DEF Sync, ParentInv
<1>9. SleepInv'
  BY <1>1, <1>2, ProcAssumption DEF Sync, SleepInv
<1> QED
  BY <1>4, <1>5, <1>6, <1>7, <1>8, <1>9, Zenon DEF Sync

(* Making the child RUNNABLE preserves the invariant.                      *)
LEMMA Inv_ForkPublish ==
  ASSUME Types, Sync, NEW p \in Slots, ForkPublish(p)
  PROVE  Sync'
<1> DEFINE q == np[p]
<1>1. /\ pc[p] = "publish" /\ state[p] = "RUNNING"
      /\ q \in Slots /\ state[q] = "EMBRYO" /\ pc[q] = "forkret" /\ p # q
  BY ExecutingRuns, Zenon DEF ForkPublish, Switching, Sync, ForkInv, Forking
<1>2. /\ pc'[p] = "ret" /\ state'[q] = "RUNNABLE"
      /\ \A r \in Slots \ {p} : pc'[r] = pc[r] /\ np'[r] = np[r]
      /\ \A r \in Slots \ {q} : state'[r] = state[r]
      /\ UNCHANGED <<lock, parent, killed, chan, oncpu>>
  BY <1>1, Zenon DEF ForkPublish, Goto, Types
<1>3. \A r \in Slots : pc[r] \in Forking => np[r] # p /\ r # q /\ (r # p => np[r] # q)
  BY <1>1, Zenon DEF Sync, ForkInv, Forking
<1> HIDE DEF q
<1>4. CpuInv'
  BY <1>1, <1>2, Zenon DEF Sync, CpuInv, Switching
<1>5. CodeInv'
  BY <1>1, <1>2 DEF Sync, CodeInv, Forking
<1>6. LockInv'
  BY <1>1, <1>2, Zenon DEF Sync, LockInv, Switching
<1>7. ForkInv'
  <2>1. \A r \in Slots : pc'[r] \in Forking =>
          r # p /\ pc[r] \in Forking /\ pc'[r] = pc[r] /\ np'[r] = np[r]
    BY <1>2, Zenon DEF Forking
  <2> QED
    BY <1>1, <1>2, <1>3, <2>1 DEF Sync, ForkInv, Forking
<1>8. ParentInv'
  BY <1>1, <1>2, ProcAssumption, Zenon DEF Sync, ParentInv
<1>9. SleepInv'
  BY <1>1, <1>2 DEF Sync, SleepInv
<1> QED
  BY <1>4, <1>5, <1>6, <1>7, <1>8, <1>9, Zenon DEF Sync

-----------------------------------------------------------------------------
(* exit preserves the invariant: the parent is awake when p becomes a      *)
(* zombie, and init when it inherits one.                                  *)
LEMMA Inv_exit ==
  ASSUME Types, Sync, NEW p \in Slots, exit(p)
  PROVE  Sync'
<1> DEFINE C == {parent[p]} \cup IF Zombies(p) # {} THEN {initproc} ELSE {}
<1>1. /\ pc[p] = "exit" /\ state[p] = "RUNNING" /\ lock = Nobody /\ Nobody # p /\ p # initproc
  BY ExecutingRuns, ProcAssumption, Zenon DEF exit, ExitWith, Switching, Sync, ParentInv
<1>2. /\ lock' = p /\ state'[p] = "ZOMBIE" /\ pc'[p] = "sched_exit"
      /\ \A q \in Slots \ {p} :
           /\ state'[q] = (IF state[q] = "SLEEPING" /\ chan[q] \in C THEN "RUNNABLE" ELSE state[q])
           /\ pc'[q] = pc[q]
      /\ \A q \in Slots : parent'[q] = (IF parent[q] = p THEN initproc ELSE parent[q])
      /\ UNCHANGED <<killed, chan, oncpu, np>>
  BY Zenon DEF exit, ExitWith, wakeup1, PassToInit, Goto, Types
<1>3. /\ parent[p] \in C
      /\ \A q \in Slots : parent[q] = p /\ state[q] = "ZOMBIE" => initproc \in C
  BY Zenon DEF Zombies, Children
<1> HIDE DEF C
<1>4. \A q \in Slots : lock # q /\ Nobody # q /\ pc[q] \notin Switching
  BY <1>1, ProcAssumption, Zenon DEF Sync, LockInv
<1>5. CpuInv'
  BY <1>1, <1>2, <1>4, Zenon DEF Sync, CpuInv, Switching
<1>6. CodeInv'
  BY <1>1, <1>2, <1>4 DEF Sync, CodeInv, Switching, Forking
<1>7. LockInv'
  BY <1>1, <1>2, <1>4, Zenon DEF Sync, LockInv, Switching
<1>8. ForkInv'
  <2>1. \A q \in Slots : pc[q] \in Forking => np[q] # p
    BY <1>1, Zenon DEF Sync, ForkInv
  <2>2. \A q \in Slots : pc'[q] \in Forking => pc[q] \in Forking /\ pc'[q] = pc[q]
    BY <1>2, Zenon DEF Forking
  <2> QED
    BY <1>1, <1>2, <2>1, <2>2 DEF Sync, ForkInv, Forking
<1>9. ParentInv'
  BY <1>1, <1>2, ProcAssumption DEF Sync, ParentInv
<1>10. SleepInv'
  <2> SUFFICES ASSUME NEW q \in Slots, state'[q] = "SLEEPING"
               PROVE  /\ chan'[q] = q
                      /\ ~ killed'[q]
                      /\ \E r \in Slots : parent'[r] = q
                      /\ \A r \in Slots : parent'[r] = q => state'[r] # "ZOMBIE"
    BY Zenon DEF SleepInv
  <2>1. /\ state[q] = "SLEEPING" /\ q # p /\ chan[q] = q /\ ~ killed[q] /\ q \notin C
        /\ \E r \in Slots : parent[r] = q
        /\ \A r \in Slots : parent[r] = q => state[r] # "ZOMBIE"
    BY <1>2, Zenon DEF Sync, SleepInv
  <2>2. \A r \in Slots : parent'[r] = q => state'[r] # "ZOMBIE"
    BY <1>2, <1>3, <2>1 DEF Sync, ParentInv
  <2> QED
    BY <1>2, <2>1, <2>2, Zenon
<1> QED
  BY <1>5, <1>6, <1>7, <1>8, <1>9, <1>10, Zenon DEF Sync

(* Where the body of wait's loop is entered.                               *)
WaitEntry(p) ==
  /\ state[p] = "RUNNING"
  /\ \/ pc[p] = "call" /\ lock = Nobody
     \/ pc[p] = "waiting" /\ lock = p
  /\ UNCHANGED <<oncpu, np>>

(* Reaping a zombie preserves the invariant: its CPU has left its stack,   *)
(* or it would hold the lock.                                              *)
LEMMA Inv_WaitReap ==
  ASSUME Types, Sync, NEW p \in Slots, WaitEntry(p), WaitReap(p)
  PROVE  Sync'
<1>1. PICK q \in Slots :
        /\ parent[q] = p /\ state[q] = "ZOMBIE"
        /\ parent' = [parent EXCEPT ![q] = Nobody]
        /\ killed' = [killed EXCEPT ![q] = FALSE]
        /\ state' = [state EXCEPT ![q] = "UNUSED"]
  BY ZenonT(30), Zenon DEF WaitReap, Zombies, Children
<1>2. /\ state[p] = "RUNNING" /\ pc[p] \in {"call", "waiting"} /\ p # q
      /\ lock' = Nobody /\ pc'[p] = "ret" /\ chan'[p] = Nobody
      /\ parent'[q] = Nobody /\ ~ killed'[q] /\ state'[q] = "UNUSED"
      /\ \A r \in Slots \ {p} : pc'[r] = pc[r] /\ chan'[r] = chan[r]
      /\ \A r \in Slots \ {q} :
           parent'[r] = parent[r] /\ killed'[r] = killed[r] /\ state'[r] = state[r]
      /\ UNCHANGED <<oncpu, np>>
  <2>1. /\ state[p] = "RUNNING" /\ pc[p] \in {"call", "waiting"} /\ p # q
        /\ UNCHANGED <<oncpu, np>>
    BY <1>1, Zenon DEF WaitEntry
  <2>2. /\ lock' = Nobody /\ pc'[p] = "ret" /\ chan'[p] = Nobody
        /\ \A r \in Slots \ {p} : pc'[r] = pc[r] /\ chan'[r] = chan[r]
    BY DEF WaitReap, Goto, Types
  <2>3. /\ parent'[q] = Nobody /\ ~ killed'[q] /\ state'[q] = "UNUSED"
        /\ \A r \in Slots \ {q} :
             parent'[r] = parent[r] /\ killed'[r] = killed[r] /\ state'[r] = state[r]
    BY <1>1, Zenon DEF Types
  <2> QED
    BY <2>1, <2>2, <2>3, Zenon
<1>3. \A r \in Slots \ {p} : lock # r /\ Nobody # r /\ pc[r] \notin Switching
                             /\ ~ (pc[r] = "waiting" /\ state[r] = "RUNNING")
  BY ProcAssumption DEF Sync, LockInv, WaitEntry
<1>4. pc[q] = "none"
  BY <1>1, <1>2, <1>3 DEF Sync, CodeInv, Switching
<1>5. CpuInv'
  BY <1>1, <1>2, <1>4 DEF Sync, CpuInv, Switching
<1>6. CodeInv'
  BY <1>1, <1>2, <1>4 DEF Sync, CodeInv, Forking
<1>7. LockInv'
  BY <1>1, <1>2, <1>3, <1>4, ProcAssumption DEF Sync, LockInv, Switching
<1>8. ForkInv'
  <2>1. \A r \in Slots : pc[r] \in Forking => np[r] # p /\ np[r] # q
    BY <1>1, <1>2, Zenon DEF Sync, ForkInv
  <2>2. \A r \in Slots : pc'[r] \in Forking => pc[r] \in Forking /\ pc'[r] = pc[r]
    BY <1>2, Zenon DEF Forking
  <2> QED
    BY <1>2, <2>1, <2>2 DEF Sync, ForkInv, Forking
<1>9. ParentInv'
  BY <1>1, <1>2, ProcAssumption DEF Sync, ParentInv
<1>10. SleepInv'
  BY <1>1, <1>2 DEF Sync, SleepInv
<1> QED
  BY <1>5, <1>6, <1>7, <1>8, <1>9, <1>10, Zenon DEF Sync

(* Giving up preserves the invariant.                                      *)
LEMMA Inv_WaitGiveUp ==
  ASSUME Types, Sync, NEW p \in Slots, WaitEntry(p), WaitGiveUp(p)
  PROVE  Sync'
<1>1. /\ state[p] = "RUNNING" /\ pc[p] \in {"call", "waiting"}
      /\ lock' = Nobody /\ pc'[p] = "ret" /\ chan'[p] = Nobody
      /\ \A r \in Slots \ {p} : pc'[r] = pc[r] /\ chan'[r] = chan[r]
      /\ UNCHANGED <<state, parent, killed, oncpu, np>>
  BY Zenon DEF WaitEntry, WaitGiveUp, Goto, Types
<1>2. \A r \in Slots \ {p} : lock # r /\ Nobody # r /\ pc[r] \notin Switching
                             /\ ~ (pc[r] = "waiting" /\ state[r] = "RUNNING")
  BY ProcAssumption DEF Sync, LockInv, WaitEntry
<1>3. CpuInv'
  BY <1>1, Zenon DEF Sync, CpuInv, Switching
<1>4. CodeInv'
  BY <1>1, Zenon DEF Sync, CodeInv, Forking
<1>5. LockInv'
  BY <1>1, <1>2, ProcAssumption, Zenon DEF Sync, LockInv, Switching
<1>6. ForkInv'
  <2>1. \A r \in Slots : pc[r] \in Forking => np[r] # p
    BY <1>1, Zenon DEF Sync, ForkInv
  <2>2. \A r \in Slots : pc'[r] \in Forking => pc[r] \in Forking /\ pc'[r] = pc[r]
    BY <1>1, Zenon DEF Forking
  <2> QED
    BY <1>1, <2>1, <2>2 DEF Sync, ForkInv, Forking
<1>7. ParentInv'
  BY <1>1, ProcAssumption, Zenon DEF Sync, ParentInv
<1>8. SleepInv'
  BY <1>1, Zenon DEF Sync, SleepInv
<1> QED
  BY <1>3, <1>4, <1>5, <1>6, <1>7, <1>8, Zenon DEF Sync

(* Going to sleep preserves the invariant: the lock is held from the scan  *)
(* of the children to swtch.                                               *)
LEMMA Inv_WaitSleep ==
  ASSUME Types, Sync, NEW p \in Slots, WaitEntry(p), WaitSleep(p)
  PROVE  Sync'
<1>1. /\ state[p] = "RUNNING" /\ pc[p] \in {"call", "waiting"}
      /\ lock' = p /\ pc'[p] = "sched_wait" /\ chan'[p] = p /\ state'[p] = "SLEEPING" /\ ~ killed[p]
      /\ \A r \in Slots \ {p} : pc'[r] = pc[r] /\ chan'[r] = chan[r] /\ state'[r] = state[r]
      /\ UNCHANGED <<parent, killed, oncpu, np>>
  BY Zenon DEF WaitEntry, WaitSleep, Goto, Types
<1>2. \A r \in Slots \ {p} : lock # r /\ Nobody # r /\ pc[r] \notin Switching
                             /\ ~ (pc[r] = "waiting" /\ state[r] = "RUNNING")
  BY ProcAssumption DEF Sync, LockInv, WaitEntry
<1>3. /\ \E r \in Slots : parent[r] = p
      /\ \A r \in Slots : parent[r] = p => state[r] # "ZOMBIE"
  BY Zenon DEF WaitSleep, Zombies, Children
<1>4. CpuInv'
  BY <1>1, Zenon DEF Sync, CpuInv, Switching
<1>5. CodeInv'
  BY <1>1 DEF Sync, CodeInv, Forking
<1>6. LockInv'
  BY <1>1, <1>2, Zenon DEF Sync, LockInv, Switching
<1>7. ForkInv'
  <2>1. \A r \in Slots : pc[r] \in Forking => np[r] # p
    BY <1>1, Zenon DEF Sync, ForkInv
  <2>2. \A r \in Slots : pc'[r] \in Forking => pc[r] \in Forking /\ pc'[r] = pc[r]
    BY <1>1, Zenon DEF Forking
  <2> QED
    BY <1>1, <2>1, <2>2 DEF Sync, ForkInv, Forking
<1>8. ParentInv'
  BY <1>1, ProcAssumption, Zenon DEF Sync, ParentInv
<1>9. SleepInv'
  BY <1>1, <1>3 DEF Sync, SleepInv
<1> QED
  BY <1>4, <1>5, <1>6, <1>7, <1>8, <1>9, Zenon DEF Sync

(* kill preserves the invariant.                                           *)
LEMMA Inv_kill ==
  ASSUME Types, Sync, NEW p \in Slots, NEW n, kill(p, n)
  PROVE  Sync'
<1>1. PICK q \in Slots \ {initproc} :
        /\ killed' = [killed EXCEPT ![q] = TRUE]
        /\ state' = [state EXCEPT ![q] = IF @ = "SLEEPING" THEN "RUNNABLE" ELSE @]
  BY Zenon DEF kill
<1>2. /\ pc[p] = "call" /\ lock = Nobody /\ pc'[p] = "ret" /\ killed'[q]
      /\ state'[q] = (IF state[q] = "SLEEPING" THEN "RUNNABLE" ELSE state[q])
      /\ \A r \in Slots \ {p} : pc'[r] = pc[r]
      /\ \A r \in Slots \ {q} : killed'[r] = killed[r] /\ state'[r] = state[r]
      /\ UNCHANGED <<lock, parent, chan, oncpu, np>>
  <2>1. /\ pc[p] = "call" /\ lock = Nobody /\ pc'[p] = "ret"
        /\ \A r \in Slots \ {p} : pc'[r] = pc[r]
        /\ UNCHANGED <<lock, parent, chan, oncpu, np>>
    BY Zenon DEF kill, Goto, Types
  <2> QED
    BY <1>1, <2>1, Zenon DEF Types
<1>3. state[p] = "RUNNING" /\ state'[p] = "RUNNING"
  BY <1>2, ExecutingRuns, Zenon DEF kill, Switching
<1>4. \A r \in Slots : lock # r /\ Nobody # r /\ pc[r] \notin Switching
                       /\ ~ (pc[r] = "waiting" /\ state[r] = "RUNNING")
  BY <1>2, ProcAssumption, Zenon DEF Sync, LockInv
<1>5. CpuInv'
  BY <1>2, <1>3 DEF Sync, CpuInv, Switching
<1>6. CodeInv'
  BY <1>2, <1>3, <1>4 DEF Sync, CodeInv, Switching, Forking
<1>7. LockInv'
  BY <1>2, <1>4 DEF Sync, LockInv, Switching
<1>8. ForkInv'
  <2>1. \A r \in Slots : pc[r] \in Forking => np[r] # p
    BY <1>3, Zenon DEF Sync, ForkInv
  <2>2. \A r \in Slots : pc'[r] \in Forking => pc[r] \in Forking /\ pc'[r] = pc[r]
    BY <1>2, Zenon DEF Forking
  <2>3. \A r \in Slots : state[r] = "EMBRYO" => state'[r] = "EMBRYO"
    BY <1>2, Zenon
  <2> QED
    BY <1>2, <2>1, <2>2, <2>3 DEF Sync, ForkInv, Forking
<1>9. ParentInv'
  <2>1. /\ state'[initproc] = state[initproc] /\ killed'[initproc] = killed[initproc]
        /\ pc'[initproc] = "exit" => pc[initproc] = "exit"
        /\ \A r \in Slots : state'[r] = "UNUSED" => state[r] = "UNUSED"
    BY <1>2, ProcAssumption, Zenon
  <2> QED
    BY <1>2, <2>1, Zenon DEF Sync, ParentInv
<1>10. SleepInv'
  BY <1>2 DEF Sync, SleepInv
<1> QED
  BY <1>5, <1>6, <1>7, <1>8, <1>9, <1>10, Zenon DEF Sync

-----------------------------------------------------------------------------
(* The steps that only move the process.                                   *)
LEMMA Inv_quiet ==
  ASSUME Types, Sync, NEW p \in Slots,
         \/ TrapKilled(p) \/ TrapReturn(p) \/ trap(p) \/ ForkNoSlot(p) \/ ExitCall(p)
         \/ \E n \in KillPids : KillNone(p, n)
  PROVE  Sync'
<1>1. /\ pc[p] \in Quiet /\ Executing(p) /\ pc'[p] \in Quiet
      /\ pc'[p] = "exit" => killed[p] \/ p # initproc
      /\ \A q \in Slots \ {p} : pc'[q] = pc[q]
      /\ UNCHANGED <<lock, state, parent, killed, chan, oncpu, np>>
  BY Zenon DEF TrapKilled, TrapReturn, trap, ForkNoSlot, ExitCall, KillNone, Goto, Types, Quiet
<1>2. state[p] = "RUNNING"
  BY <1>1, ExecutingRuns, Zenon DEF Quiet, Switching
<1>3. QuietStep(p)
  BY <1>1, <1>2, Zenon DEF QuietStep, Sync, ParentInv
<1> QED
  BY <1>3, QuietSafe, Zenon

(* The invariant holds at the start.                                       *)
LEMMA Inv_Init ==
  ASSUME Init
  PROVE  Inv
<1>1. Types
  BY ProcAssumption DEF Init, Types, ProcStates, Locations
<1>2. Sync
  BY ProcAssumption, Zenon
     DEF Init, Sync, CpuInv, CodeInv, LockInv, ForkInv, ParentInv, SleepInv, Switching, Forking
<1> QED
  BY <1>1, <1>2, Zenon DEF Inv

(* Every step keeps the types.                                             *)
LEMMA TypesStep ==
  ASSUME Types, Sync, NEW p \in Slots,
         scheduler(p) \/ yield(p) \/ trap(p) \/ CallStep(p) \/ KernelStep(p)
  PROVE  Types'
<1> USE ProcAssumption DEF Types
<1>1. ASSUME scheduler(p)
      PROVE  Types'
  BY <1>1 DEF scheduler, Goto, ProcStates, Locations
<1>2. ASSUME yield(p)
      PROVE  Types'
  BY <1>2 DEF yield, Goto, ProcStates, Locations
<1>3. ASSUME sched(p) \/ trap(p)
      PROVE  Types'
  BY <1>3 DEF sched, trap, Goto, Locations
<1>4. ASSUME fork(p)
      PROVE  Types'
  <2>1. PICK q \in Slots :
          /\ state' = [state EXCEPT ![q] = "EMBRYO"]
          /\ np' = [np EXCEPT ![p] = q]
    BY <1>4, Zenon DEF fork, Unused
  <2>2. /\ pc' = [pc EXCEPT ![p] = "kalloc"]
        /\ UNCHANGED <<lock, parent, killed, chan, oncpu>>
    BY <1>4, Zenon DEF fork, Goto
  <2> QED
    BY <2>1, <2>2, Zenon DEF ProcStates, Locations
<1>5. ASSUME ForkNoSlot(p) \/ ExitCall(p) \/ TrapKilled(p) \/ TrapReturn(p)
      PROVE  Types'
  BY <1>5, Zenon DEF ForkNoSlot, ExitCall, TrapKilled, TrapReturn, Goto, Locations
<1>6. ASSUME ForkStack(p) \/ ForkFail(p) \/ ForkCopy(p) \/ ForkPublish(p)
      PROVE  Types'
  <2>1. ASSUME ForkStack(p) \/ ForkCopy(p)
        PROVE  Types'
    BY <2>1 DEF ForkStack, ForkCopy, Goto, Locations
  <2>2. ASSUME ForkFail(p)
        PROVE  Types'
    BY <2>2, Zenon DEF ForkFail, ProcStates, Locations
  <2>3. ASSUME ForkPublish(p)
        PROVE  Types'
    BY <2>3, ZenonT(30), Zenon DEF ForkPublish, Goto, ProcStates, Locations
  <2> QED
    BY <1>6, <2>1, <2>2, <2>3, Zenon
<1>7. ASSUME exit(p)
      PROVE  Types'
  BY <1>7, Zenon DEF exit, ExitWith, wakeup1, PassToInit, Goto, ProcStates, Locations
<1>8. ASSUME wait(p) \/ WaitResume(p)
      PROVE  Types'
  <2>1. UNCHANGED <<oncpu, np>> /\ (WaitReap(p) \/ WaitGiveUp(p) \/ WaitSleep(p))
    BY <1>8, Zenon DEF wait, WaitResume
  <2>2. ASSUME WaitReap(p)
        PROVE  Types'
    BY <2>1, <2>2, Zenon DEF WaitReap, Zombies, Children, Goto, ProcStates, Locations
  <2>3. ASSUME WaitGiveUp(p) \/ WaitSleep(p)
        PROVE  Types'
    BY <2>1, <2>3 DEF WaitGiveUp, WaitSleep, Goto, ProcStates, Locations
  <2> QED
    BY <2>1, <2>2, <2>3, Zenon
<1>9. ASSUME NEW k \in KillPids, kill(p, k) \/ KillNone(p, k)
      PROVE  Types'
  <2>1. ASSUME kill(p, k)
        PROVE  Types'
    <3>1. state' \in [Slots -> ProcStates] /\ killed' \in [Slots -> BOOLEAN]
      BY <2>1, Zenon DEF kill, ProcStates
    <3>2. pc' \in [Slots -> Locations] /\ UNCHANGED <<lock, parent, chan, oncpu, np>>
      BY <2>1, Zenon DEF kill, Goto, Locations
    <3> QED
      BY <3>1, <3>2, Zenon
  <2>2. ASSUME KillNone(p, k)
        PROVE  Types'
    BY <2>2, Zenon DEF KillNone, Goto, Locations
  <2> QED
    BY <1>9, <2>1, <2>2, Zenon
<1> QED
  BY <1>1, <1>2, <1>3, <1>4, <1>5, <1>6, <1>7, <1>8, <1>9, Zenon DEF CallStep, KernelStep

(* Every step preserves the invariant.                                     *)
LEMMA Inv_Next ==
  ASSUME Inv, [Next]_vars
  PROVE  Inv'
<1> USE DEF Inv
<1>1. ASSUME UNCHANGED vars
      PROVE  Inv'
  <2>1. UNCHANGED <<lock, state, parent, killed, chan, oncpu, pc, np>>
    BY <1>1, Zenon DEF vars
  <2>2. Types'
    BY <2>1, Zenon DEF Types
  <2>3. CpuInv' /\ CodeInv' /\ LockInv'
    BY <2>1, Zenon DEF Sync, CpuInv, CodeInv, LockInv
  <2>4. ForkInv'
    BY <2>1, Zenon DEF Sync, ForkInv
  <2>5. ParentInv' /\ SleepInv'
    BY <2>1, Zenon DEF Sync, ParentInv, SleepInv
  <2> QED
    BY <2>2, <2>3, <2>4, <2>5, Zenon DEF Sync
<1>2. ASSUME NEW p \in Slots,
             scheduler(p) \/ yield(p) \/ trap(p) \/ CallStep(p) \/ KernelStep(p)
      PROVE  Inv'
  <2>1. Types'
    BY <1>2, TypesStep, Zenon
  <2>2. ASSUME wait(p) \/ WaitResume(p)
        PROVE  Sync'
    <3>1. pc[p] \in {"call", "waiting"} /\ Executing(p)
      BY <2>2, Zenon DEF wait, WaitResume
    <3>2. state[p] = "RUNNING"
      BY <3>1, ExecutingRuns, Zenon DEF Switching
    <3>3. WaitEntry(p) /\ (WaitReap(p) \/ WaitGiveUp(p) \/ WaitSleep(p))
      BY <2>2, <3>2, Zenon DEF wait, WaitResume, WaitEntry
    <3> QED
      BY <3>3, Inv_WaitReap, Inv_WaitGiveUp, Inv_WaitSleep, Zenon
  <2>3. ASSUME CallStep(p)
        PROVE  Sync'
    BY <2>2, <2>3, Inv_fork, Inv_quiet, Inv_kill, Zenon DEF CallStep
  <2>4. ASSUME KernelStep(p)
        PROVE  Sync'
    BY <2>2, <2>4, Inv_sched, Inv_ForkStack, Inv_ForkFail, Inv_ForkCopy, Inv_ForkPublish,
       Inv_quiet, Inv_exit, Zenon DEF KernelStep
  <2> QED
    BY <1>2, <2>1, <2>3, <2>4, Inv_scheduler, Inv_yield, Inv_quiet, Zenon
<1> QED
  BY <1>1, <1>2, Zenon DEF Next

(* The invariant holds in every reachable state.                           *)
LEMMA Invariance == Spec => []Inv
BY Inv_Init, Inv_Next, PTL DEF Spec

-----------------------------------------------------------------------------
(* No kernel stack is used by two CPUs, nor after wait may have freed it:  *)
(* exit holds ptable.lock until swtch has left the stack (proc.c 250-291). *)
THEOREM StacksSafe == Spec => []StackNotShared
<1>1. Inv => StackNotShared
  BY ProcAssumption, Zenon DEF Inv, Sync, CpuInv, CodeInv, LockInv, StackNotShared, Switching,
     Forking
<1> QED
  BY <1>1, Invariance, PTL

(* A process that sleeps in wait has a child and no zombie: exit and the   *)
(* inheritance by init wake it under the lock with which it slept          *)
(* (proc.c 250-336).                                                       *)
THEOREM WaitSafe == Spec => []WaitNoLostWakeup
<1>1. Inv => WaitNoLostWakeup
  BY Zenon DEF Inv, Sync, SleepInv, WaitNoLostWakeup, Zombies, Children
<1> QED
  BY <1>1, Invariance, PTL

(* No killed process sleeps: wait tests killed under the lock, and kill    *)
(* makes the process RUNNABLE (proc.c 295-336, 502-523).                   *)
THEOREM KillSafe == Spec => []KilledNotAsleep
<1>1. Inv => KilledNotAsleep
  BY Zenon DEF Inv, Sync, SleepInv, KilledNotAsleep
<1> QED
  BY <1>1, Invariance, PTL
=============================================================================
