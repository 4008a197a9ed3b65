----------------------------- MODULE ProcTable ------------------------------
(***************************************************************************)
(* The life of a process (proc.c 73-135, 200-520): a slot of ptable is     *)
(* allocated by fork, made RUNNABLE, scheduled, put to sleep in wait,      *)
(* killed, turned into a ZOMBIE by exit, inherited by init when its parent *)
(* is gone, and freed by wait.                                             *)
(*                                                                         *)
(* ptable.lock is explicit.  A section that ends in sched() takes two      *)
(* steps: until swtch is done the CPU still runs on the process's kernel   *)
(* stack, which wait frees.  fork writes to the slot of the child without  *)
(* the lock.                                                               *)
(***************************************************************************)
EXTENDS Integers, FiniteSets

CONSTANTS
  Slots,       \* the entries of ptable.proc
  Nobody,      \* the null pointer, and "the lock is free"
  initproc,    \* the slot of init
  NCPU,        \* number of CPUs
  KillPids,    \* the pids programs pass to kill
  MaxPid       \* bound: pids given out

ASSUME ProcAssumption ==
  /\ initproc \in Slots
  /\ Nobody \notin Slots
  /\ NCPU \in Nat \ {0}
  /\ KillPids \subseteq Nat
  /\ MaxPid \in Nat

VARIABLES
  lock,      \* the process that holds ptable.lock
  state,     \* p->state
  pid,       \* p->pid
  parent,    \* p->parent
  killed,    \* p->killed
  chan,      \* p->chan: the process whose slot is the channel of wait
  oncpu,     \* CPUs that execute on p's kernel stack
  pc,        \* where p is
  np,        \* fork: the slot it has allocated
  nextpid    \* the next pid

vars == <<lock, state, pid, parent, killed, chan, oncpu, pc, np, nextpid>>

ProcStates == {"UNUSED", "EMBRYO", "SLEEPING", "RUNNABLE", "RUNNING", "ZOMBIE"}

(* "user": in user space.  "call": at the start of a system call, after    *)
(* trap has tested killed.  "ret": in trap, before its last test of killed. *)
(* "kalloc", "copy", "publish": in fork, after allocproc has taken a slot, *)
(* after it has a kernel stack, and after the parent is set.  "forkret":   *)
(* not scheduled yet.  "sched_exit", "sched_wait": state changed, lock     *)
(* held, about to swtch.  "waiting": in the sleep of wait.  "none": the    *)
(* slot runs no code.                                                      *)
Locations ==
  {"none", "forkret", "user", "call", "ret", "kalloc", "copy", "publish", "exit", "sched_exit",
   "sched_wait", "waiting"}

Executing(p) == oncpu[p] > 0

Children(p) == {q \in Slots : parent[q] = p}

Zombies(p) == {q \in Children(p) : state[q] = "ZOMBIE"}

Goto(p, loc) == pc' = [pc EXCEPT ![p] = loc]

(* wakeup1 on each of the channels C.                                      *)
wakeup1(C) ==
  [q \in Slots |-> IF state[q] = "SLEEPING" /\ chan[q] \in C THEN "RUNNABLE" ELSE state[q]]

-----------------------------------------------------------------------------
(* userinit has made init RUNNABLE.                                        *)
Init ==
  /\ lock = Nobody
  /\ state = [p \in Slots |-> IF p = initproc THEN "RUNNABLE" ELSE "UNUSED"]
  /\ pid = [p \in Slots |-> IF p = initproc THEN 1 ELSE 0]
  /\ parent = [p \in Slots |-> Nobody]
  /\ killed = [p \in Slots |-> FALSE]
  /\ chan = [p \in Slots |-> Nobody]
  /\ oncpu = [p \in Slots |-> 0]
  /\ pc = [p \in Slots |-> IF p = initproc THEN "forkret" ELSE "none"]
  /\ np = [p \in Slots |-> Nobody]
  /\ nextpid = 2

(* A process that resumes inside sleep still holds the lock; yield and     *)
(* forkret release it.                                                     *)
scheduler(p) ==
  /\ lock = Nobody
  /\ state[p] = "RUNNABLE"
  /\ Cardinality({q \in Slots : Executing(q)}) < NCPU
  /\ state' = [state EXCEPT ![p] = "RUNNING"]
  /\ oncpu' = [oncpu EXCEPT ![p] = @ + 1]
  /\ lock' = IF pc[p] = "waiting" THEN p ELSE Nobody
  /\ Goto(p, IF pc[p] = "forkret" THEN "ret" ELSE pc[p])
  /\ UNCHANGED <<pid, parent, killed, chan, np, nextpid>>

(* swtch to the scheduler of this CPU, which releases the lock.            *)
sched(p) ==
  /\ pc[p] \in {"sched_exit", "sched_wait"}
  /\ lock = p
  /\ lock' = Nobody
  /\ oncpu' = [oncpu EXCEPT ![p] = @ - 1]
  /\ Goto(p, IF pc[p] = "sched_exit" THEN "none" ELSE "waiting")
  /\ UNCHANGED <<state, pid, parent, killed, chan, np, nextpid>>

(* A timer interrupt, in user space or in the kernel while interrupts are  *)
(* on: yield() gives up the CPU.                                           *)
yield(p) ==
  /\ Executing(p)
  /\ state[p] = "RUNNING"
  /\ lock = Nobody
  /\ state' = [state EXCEPT ![p] = "RUNNABLE"]
  /\ oncpu' = [oncpu EXCEPT ![p] = @ - 1]
  /\ Goto(p, IF pc[p] = "user" THEN "ret" ELSE pc[p])
  /\ UNCHANGED <<lock, pid, parent, killed, chan, np, nextpid>>

-----------------------------------------------------------------------------
(* fork: allocproc takes a slot under the lock; the stack and the memory   *)
(* may be refused, and then the slot is given back without the lock, its   *)
(* pid and killed as they are.  The scan always finds the same one of the  *)
(* unused slots.                                                           *)
Unused == {q \in Slots : state[q] = "UNUSED"}

fork(p) ==
  /\ pc[p] = "call"
  /\ Executing(p)
  /\ lock = Nobody
  /\ nextpid <= MaxPid
  /\ Unused # {}
  /\ LET q == CHOOSE s \in Unused : TRUE IN
       /\ state' = [state EXCEPT ![q] = "EMBRYO"]
       /\ pid' = [pid EXCEPT ![q] = nextpid]
       /\ np' = [np EXCEPT ![p] = q]
  /\ nextpid' = nextpid + 1
  /\ Goto(p, "kalloc")
  /\ UNCHANGED <<lock, parent, killed, chan, oncpu>>

ForkNoSlot(p) ==
  /\ pc[p] = "call"
  /\ Executing(p)
  /\ lock = Nobody
  /\ Unused = {}
  /\ Goto(p, "ret")
  /\ UNCHANGED <<lock, state, pid, parent, killed, chan, oncpu, np, nextpid>>

(* The rest of allocproc: the context that makes the child start in        *)
(* forkret.                                                                *)
ForkStack(p) ==
  /\ pc[p] = "kalloc"
  /\ Executing(p)
  /\ pc' = [pc EXCEPT ![p] = "copy", ![np[p]] = "forkret"]
  /\ UNCHANGED <<lock, state, pid, parent, killed, chan, oncpu, np, nextpid>>

(* kalloc or copyuvm has returned 0.                                       *)
ForkFail(p) ==
  /\ pc[p] \in {"kalloc", "copy"}
  /\ Executing(p)
  /\ state' = [state EXCEPT ![np[p]] = "UNUSED"]
  /\ np' = [np EXCEPT ![p] = Nobody]
  /\ pc' = [pc EXCEPT ![p] = "ret", ![np[p]] = "none"]
  /\ UNCHANGED <<lock, pid, parent, killed, chan, oncpu, nextpid>>

ForkCopy(p) ==
  /\ pc[p] = "copy"
  /\ Executing(p)
  /\ parent' = [parent EXCEPT ![np[p]] = p]
  /\ Goto(p, "publish")
  /\ UNCHANGED <<lock, state, pid, killed, chan, oncpu, np, nextpid>>

ForkPublish(p) ==
  /\ pc[p] = "publish"
  /\ Executing(p)
  /\ lock = Nobody
  /\ state' = [state EXCEPT ![np[p]] = "RUNNABLE"]
  /\ np' = [np EXCEPT ![p] = Nobody]
  /\ Goto(p, "ret")
  /\ UNCHANGED <<lock, pid, parent, killed, chan, oncpu, nextpid>>

-----------------------------------------------------------------------------
(* exit, called by the program or by trap when the process is killed.      *)
ExitCall(p) ==
  /\ pc[p] = "call"
  /\ Executing(p)
  /\ p # initproc
  /\ Goto(p, "exit")
  /\ UNCHANGED <<lock, state, pid, parent, killed, chan, oncpu, np, nextpid>>

(* trap: a killed process exits when it enters the kernel from user space  *)
(* or goes back to it.                                                     *)
TrapKilled(p) ==
  /\ pc[p] \in {"user", "ret"}
  /\ Executing(p)
  /\ killed[p]
  /\ Goto(p, "exit")
  /\ UNCHANGED <<lock, state, pid, parent, killed, chan, oncpu, np, nextpid>>

trap(p) ==
  /\ pc[p] = "user"
  /\ Executing(p)
  /\ ~ killed[p]
  /\ Goto(p, "call")
  /\ UNCHANGED <<lock, state, pid, parent, killed, chan, oncpu, np, nextpid>>

TrapReturn(p) ==
  /\ pc[p] = "ret"
  /\ Executing(p)
  /\ ~ killed[p]
  /\ Goto(p, "user")
  /\ UNCHANGED <<lock, state, pid, parent, killed, chan, oncpu, np, nextpid>>

(* The body of exit, given the processes it wakes, the parents it leaves   *)
(* and who holds the lock after it.                                        *)
ExitWith(p, woken, newParent, lk) ==
  /\ pc[p] = "exit"
  /\ Executing(p)
  /\ lock = Nobody
  /\ lock' = lk
  /\ state' = [wakeup1(woken) EXCEPT ![p] = "ZOMBIE"]
  /\ parent' = newParent
  /\ Goto(p, "sched_exit")
  /\ UNCHANGED <<pid, killed, chan, oncpu, np, nextpid>>

PassToInit(p) == [q \in Slots |-> IF parent[q] = p THEN initproc ELSE parent[q]]

(* Faulty: init is not woken for a zombie it inherits; the lock is         *)
(* released before sched.                                                  *)
ExitNoInitWake(p) == ExitWith(p, {parent[p]}, PassToInit(p), p)

ExitUnlocked(p) == ExitWith(p, {parent[p], initproc}, PassToInit(p), Nobody)

(* The parent is woken first; then the children go to init, which is woken *)
(* if one of them is a zombie.                                             *)
exit(p) ==
  LET zombies == IF Zombies(p) # {} THEN {initproc} ELSE {}
  IN  ExitWith(p, {parent[p]} \cup zombies, PassToInit(p), p)

(* The body of wait's loop, entered with the lock free or held by p: reap  *)
(* a zombie, give up, or sleep on the process's own slot.                  *)
WaitReap(p) ==
  /\ \E q \in Zombies(p) :
       /\ pid' = [pid EXCEPT ![q] = 0]
       /\ parent' = [parent EXCEPT ![q] = Nobody]
       /\ killed' = [killed EXCEPT ![q] = FALSE]
       /\ state' = [state EXCEPT ![q] = "UNUSED"]
  /\ chan' = [chan EXCEPT ![p] = Nobody]
  /\ lock' = Nobody
  /\ Goto(p, "ret")

(* Faulty: wait does not wait for children that have been killed.          *)
WaitGiveUpKilled(p) ==
  /\ killed[p] \/ \A q \in Children(p) : killed[q]
  /\ chan' = [chan EXCEPT ![p] = Nobody]
  /\ lock' = Nobody
  /\ Goto(p, "ret")
  /\ UNCHANGED <<pid, parent, killed, state>>

WaitGiveUp(p) ==
  /\ Zombies(p) = {}
  /\ Children(p) = {} \/ killed[p]
  /\ chan' = [chan EXCEPT ![p] = Nobody]
  /\ lock' = Nobody
  /\ Goto(p, "ret")
  /\ UNCHANGED <<pid, parent, killed, state>>

WaitSleep(p) ==
  /\ Zombies(p) = {}
  /\ Children(p) # {} /\ ~ killed[p]
  /\ chan' = [chan EXCEPT ![p] = p]
  /\ state' = [state EXCEPT ![p] = "SLEEPING"]
  /\ lock' = p
  /\ Goto(p, "sched_wait")
  /\ UNCHANGED <<pid, parent, killed>>

wait(p) ==
  /\ pc[p] = "call"
  /\ Executing(p)
  /\ lock = Nobody
  /\ WaitReap(p) \/ WaitGiveUp(p) \/ WaitSleep(p)
  /\ UNCHANGED <<oncpu, np, nextpid>>

WaitResume(p) ==
  /\ pc[p] = "waiting"
  /\ Executing(p)
  /\ lock = p
  /\ WaitReap(p) \/ WaitGiveUp(p) \/ WaitSleep(p)
  /\ UNCHANGED <<oncpu, np, nextpid>>

(* Faulty: a sleeping process is not woken.                                *)
KillNoWake(p, n) ==
  /\ pc[p] = "call"
  /\ Executing(p)
  /\ lock = Nobody
  /\ \E q \in Slots \ {initproc} :
       /\ pid[q] = n
       /\ killed' = [killed EXCEPT ![q] = TRUE]
  /\ Goto(p, "ret")
  /\ UNCHANGED <<lock, state, pid, parent, chan, oncpu, np, nextpid>>

(* kill looks for the pid in every slot, whatever its state; the slots are *)
(* scanned in order, and a pid is in one slot at most: nextpid only grows. *)
kill(p, n) ==
  /\ pc[p] = "call"
  /\ Executing(p)
  /\ lock = Nobody
  /\ \E q \in Slots \ {initproc} :
       /\ pid[q] = n
       /\ killed' = [killed EXCEPT ![q] = TRUE]
       /\ state' = [state EXCEPT ![q] = IF @ = "SLEEPING" THEN "RUNNABLE" ELSE @]
  /\ Goto(p, "ret")
  /\ UNCHANGED <<lock, pid, parent, chan, oncpu, np, nextpid>>

(* No process has this pid.                                                *)
KillNone(p, n) ==
  /\ pc[p] = "call"
  /\ Executing(p)
  /\ lock = Nobody
  /\ \A q \in Slots : pid[q] # n
  /\ Goto(p, "ret")
  /\ UNCHANGED <<lock, state, pid, parent, killed, chan, oncpu, np, nextpid>>

-----------------------------------------------------------------------------
KernelStep(p) ==
  \/ sched(p) \/ ForkStack(p) \/ ForkFail(p) \/ ForkCopy(p) \/ ForkPublish(p)
  \/ TrapKilled(p) \/ TrapReturn(p) \/ exit(p) \/ WaitResume(p)

CallStep(p) ==
  \/ fork(p) \/ ForkNoSlot(p) \/ ExitCall(p) \/ wait(p)
  \/ \E n \in KillPids : kill(p, n) \/ KillNone(p, n)

Next ==
  \E p \in Slots : scheduler(p) \/ yield(p) \/ trap(p) \/ CallStep(p) \/ KernelStep(p)

Spec == Init /\ [][Next]_vars

(* What a process that executes does sooner or later: go on in the kernel, *)
(* be interrupted by the timer in user space or make a system call there.  *)
Run(p) == CallStep(p) \/ KernelStep(p) \/ (pc[p] = "user" /\ (yield(p) \/ trap(p)))

(* Every process that executes goes on, and the timer keeps ticking.  The  *)
(* scheduler comes back to init, which gets the lock in the end and calls  *)
(* wait again and again (init.c 24-36).                                    *)
FairSpec ==
  /\ Spec
  /\ \A p \in Slots : WF_vars(Run(p))
  /\ SF_vars(\E p \in Slots : yield(p))
  /\ SF_vars(scheduler(initproc)) /\ SF_vars(Run(initproc))
  /\ SF_vars(trap(initproc)) /\ SF_vars(wait(initproc))

-----------------------------------------------------------------------------
(* Properties.                                                             *)

(* A kernel stack is used by one CPU at most and by none once wait may     *)
(* have freed it: exit holds ptable.lock from the moment the process is a  *)
(* ZOMBIE until its CPU has left the stack.                                *)
StackNotShared ==
  \A p \in Slots :
    /\ oncpu[p] \in {0, 1}
    /\ state[p] \in {"UNUSED", "EMBRYO"} => oncpu[p] = 0
    /\ state[p] = "RUNNABLE" /\ lock = Nobody => oncpu[p] = 0

(* wait loses no wakeup: a process that sleeps in wait has a child, and    *)
(* none of its children is a ZOMBIE, whether it forked them or inherited   *)
(* them as init.                                                           *)
WaitNoLostWakeup ==
  \A p \in Slots :
    state[p] = "SLEEPING" => Children(p) # {} /\ Zombies(p) = {}

(* A kill takes effect: no killed process sleeps, because wait tests       *)
(* killed under the lock with which it goes to sleep, and kill wakes it.   *)
KilledNotAsleep ==
  \A p \in Slots : state[p] = "SLEEPING" => ~ killed[p]

(* Orphans do not stay zombies: init reaps them.                           *)
OrphansReaped ==
  \A p \in Slots : (state[p] = "ZOMBIE" /\ parent[p] = initproc) ~> state[p] = "UNUSED"
=============================================================================
