-------------------------------- MODULE Ipc ---------------------------------
(***************************************************************************)
(* Messages, multicasts and signals between the processes of the kernel    *)
(* (proc.c 586-850): send and recv, send_multi, sig_send, sig_pause, the   *)
(* delivery of signals on the way back to user space (handle_signals,      *)
(* called by trapret) and sig_ret, with the parts of sleep, wakeup1, kill, *)
(* yield, exit and the scheduler they rest on.                             *)
(*                                                                         *)
(* A section of code that runs under ptable.lock and touches nothing that  *)
(* is also accessed without it is one step.  send_signal takes no lock of  *)
(* its own: sig_send runs it bare, so every access it makes to data of     *)
(* another process is a step, and so are the sections it can interleave    *)
(* with (the test and the sleep of pause_signal).                          *)
(***************************************************************************)
EXTENDS Ring, FiniteSets

CONSTANTS
  Procs,        \* the live processes; a process stands for its pid
  Msgs,         \* 8-byte messages
  Junk,         \* what an unwritten slot of a queue holds
  Free,         \* ptable.lock is not held
  NUM_MSG,      \* slots of a message queue
  MAX_SIG,      \* slots of the queue of pending signals
  DestLists,    \* the arrays of pids that send_multi may be given
  Calls,        \* the calls processes make: <<caller, call, target>>
  MaxPending,   \* bound: messages waiting for one process
  MaxSignals    \* bound: signals waiting for one process or on their way to it

PidLists == Seq(Procs)

CallNames == {"send", "recv", "send_multi", "sig_send", "sig_pause", "kill", "exit"}

ASSUME IpcAssumption ==
  /\ NUM_MSG \in Nat \ {0}
  /\ MAX_SIG \in Nat \ {0}
  /\ MaxPending \in Nat
  /\ MaxSignals \in Nat
  /\ Junk \notin Msgs
  /\ Free \notin Procs
  /\ Calls \subseteq Procs \X CallNames \X Procs
  /\ DestLists \subseteq PidLists

VARIABLES
  lock,              \* who holds ptable.lock
  state,             \* p->state
  oncpu,             \* number of CPUs executing p
  chan,              \* p->chan: 0, or which of p's own queues p sleeps on
  killed,            \* p->killed
  recv_queue,        \* p->recv_queue
  recv_multi_queue,  \* p->recv_multi_queue
  pending_signals,   \* head and tail of p->pending_signals
  handling,          \* p->handling
  got,               \* the message recv last copied to p's buffer
  hgot,              \* the message last copied to p's stack for its handler
  pc,                \* where p is, in user space or in the kernel
  dests,             \* send_multicast, send_signal: receivers still to serve
  msg,               \* send_multicast: the message
  rtail,             \* send_signal: the tail it has read
  rchan              \* send_signal: the chan it has read

vars == <<lock, state, oncpu, chan, killed, recv_queue, recv_multi_queue,
          pending_signals, handling, got, hgot, pc, dests, msg, rtail, rchan>>

procVars == <<state, oncpu, chan>>
queueVars == <<recv_queue, got, recv_multi_queue, hgot, pending_signals>>
postVars == <<dests, msg, rtail, rchan>>

States == {"SLEEPING", "RUNNABLE", "RUNNING", "ZOMBIE"}
Chans == {"0", "recv_queue", "pending_signals"}

(* The code p is in.  "call": in a system call, whose first statements are *)
(* still to run.  "ret": back in trap, before its last test of p->killed.  *)
(* "trapret": after that test.  "recv" and "paused": inside sleep.         *)
(* "pause": pause_signal has seen no signal and goes on to sleep, holding  *)
(* the lock.  "next": send_multicast starts on the next receiver.  "post"  *)
(* to "set": the statements of send_signal.                                *)
PostSteps == {"post", "store", "chan", "wake", "set"}
Locations ==
  {"user", "call", "ret", "trapret", "recv", "pause", "paused", "next", "exited"} \cup PostSteps

SigCount(p) == (pending_signals[p].tail - pending_signals[p].head) % MAX_SIG
NoSignal(p) == pending_signals[p].head = pending_signals[p].tail

-----------------------------------------------------------------------------
(* Helpers.                                                                *)

Executing(p) == oncpu[p] > 0

InCall(p) == pc[p] = "call" /\ Executing(p)

Goto(p, loc) == pc' = [pc EXCEPT ![p] = loc]

(* Faulty: a send that wakes nobody.                                       *)
WakeNobody(q, c) == state

(* wakeup1(chan) for a channel that lies inside q's own struct proc: only  *)
(* q can be sleeping on it.                                                *)
wakeup1(q, c) ==
  [state EXCEPT ![q] = IF @ = "SLEEPING" /\ chan[q] = c THEN "RUNNABLE" ELSE @]

(* sched(): p stops executing in state s and the lock it held is released  *)
(* by the scheduler it switches to.                                        *)
sched(p, s) ==
  /\ state' = [state EXCEPT ![p] = s]
  /\ oncpu' = [oncpu EXCEPT ![p] = @ - 1]
  /\ lock' = Free

sleep(p, c) ==
  /\ chan' = [chan EXCEPT ![p] = c]
  /\ sched(p, "SLEEPING")

-----------------------------------------------------------------------------
Init ==
  /\ lock = Free
  /\ state = [p \in Procs |-> "RUNNABLE"]
  /\ oncpu = [p \in Procs |-> 0]
  /\ chan = [p \in Procs |-> "0"]
  /\ killed = [p \in Procs |-> FALSE]
  /\ recv_queue = [p \in Procs |-> EmptyRing(NUM_MSG, Junk)]
  /\ recv_multi_queue = [p \in Procs |-> EmptyRing(NUM_MSG, Junk)]
  /\ pending_signals = [p \in Procs |-> [head |-> 0, tail |-> 0]]
  /\ handling = [p \in Procs |-> FALSE]
  /\ got = [p \in Procs |-> [msg |-> Junk, flip |-> FALSE]]
  /\ hgot = got
  /\ pc = [p \in Procs |-> "trapret"]
  /\ dests = [p \in Procs |-> <<>>]
  /\ msg = [p \in Procs |-> Junk]
  /\ rtail = [p \in Procs |-> 0]
  /\ rchan = [p \in Procs |-> "0"]

(* The scheduler picks a RUNNABLE process under ptable.lock.  One that     *)
(* resumes inside sleep still holds the lock; the others release it first  *)
(* thing (yield, forkret).                                                 *)
scheduler(p) ==
  /\ lock = Free
  /\ state[p] = "RUNNABLE"
  /\ state' = [state EXCEPT ![p] = "RUNNING"]
  /\ oncpu' = [oncpu EXCEPT ![p] = @ + 1]
  /\ lock' = IF pc[p] \in {"recv", "paused"} THEN p ELSE Free
  /\ UNCHANGED <<chan, killed, queueVars, handling, pc, postVars>>

(* A timer interrupt: trap() calls yield(), and trapret runs on the way    *)
(* back.  Interrupts are off while the lock is held.                       *)
yield(p) ==
  /\ lock = Free
  /\ Executing(p)
  /\ state[p] = "RUNNING"
  /\ sched(p, "RUNNABLE")
  /\ Goto(p, IF pc[p] = "user" THEN "ret" ELSE pc[p])
  /\ UNCHANGED <<chan, killed, queueVars, handling, postVars>>

-----------------------------------------------------------------------------
(* Unicast.                                                                *)

send_mess(p, q, m) ==
  /\ InCall(p)
  /\ lock = Free
  /\ Count(recv_queue[q], NUM_MSG) < MaxPending
  /\ recv_queue' = [recv_queue EXCEPT ![q] = Enqueue(@, m, NUM_MSG)]
  /\ state' = wakeup1(q, chan[q])
  /\ Goto(p, "ret")
  /\ UNCHANGED <<lock, oncpu, chan, killed, got, recv_multi_queue, hgot,
                 pending_signals, handling, postVars>>

(* The body of recv_mess's loop, entered with the lock free or held by p.  *)
RecvSleep(p) ==
  /\ IsEmpty(recv_queue[p])
  /\ sleep(p, "recv_queue")
  /\ Goto(p, "recv")
  /\ UNCHANGED <<recv_queue, got>>

RecvTake(p) ==
  /\ ~ IsEmpty(recv_queue[p])
  /\ got' = [got EXCEPT ![p] = [msg |-> Front(recv_queue[p]), flip |-> ~ @.flip]]
  /\ recv_queue' = [recv_queue EXCEPT ![p] = Dequeue(@, NUM_MSG)]
  /\ chan' = [chan EXCEPT ![p] = "0"]
  /\ lock' = Free
  /\ Goto(p, "ret")
  /\ UNCHANGED <<state, oncpu>>

recv_mess(p) ==
  /\ InCall(p)
  /\ lock = Free
  /\ RecvSleep(p) \/ RecvTake(p)
  /\ UNCHANGED <<killed, recv_multi_queue, hgot, pending_signals, handling, postVars>>

(* Back from sleep: the loop tests the queue again and looks at nothing    *)
(* else, p->killed included.                                               *)
RecvResume(p) ==
  /\ pc[p] = "recv"
  /\ Executing(p)
  /\ lock = p
  /\ RecvSleep(p) \/ RecvTake(p)
  /\ UNCHANGED <<killed, recv_multi_queue, hgot, pending_signals, handling, postVars>>

-----------------------------------------------------------------------------
(* Signals.                                                                *)

(* pause_signal: the test and the sleep are under the lock, but send_signal *)
(* may run between them without it.                                        *)
pause_signal(p) ==
  /\ InCall(p)
  /\ lock = Free
  /\ \/ NoSignal(p) /\ lock' = p /\ Goto(p, "pause")
     \/ ~ NoSignal(p) /\ Goto(p, "ret") /\ UNCHANGED lock
  /\ UNCHANGED <<procVars, killed, queueVars, handling, postVars>>

PauseSleep(p) ==
  /\ pc[p] = "pause"
  /\ sleep(p, "pending_signals")
  /\ Goto(p, "paused")
  /\ UNCHANGED <<killed, queueVars, handling, postVars>>

(* There is no loop around this sleep: any wakeup ends the pause.          *)
PauseResume(p) ==
  /\ pc[p] = "paused"
  /\ Executing(p)
  /\ lock = p
  /\ chan' = [chan EXCEPT ![p] = "0"]
  /\ lock' = Free
  /\ Goto(p, "ret")
  /\ UNCHANGED <<state, oncpu, killed, queueVars, handling, postVars>>

sig_send(p, q) ==
  /\ InCall(p)
  /\ SigCount(q) < MaxSignals
  /\ dests' = [dests EXCEPT ![p] = <<q>>]
  /\ Goto(p, "post")
  /\ UNCHANGED <<lock, procVars, killed, queueVars, handling, msg, rtail, rchan>>

send_multicast(p, list, m) ==
  /\ InCall(p)
  /\ dests' = [dests EXCEPT ![p] = list]
  /\ msg' = [msg EXCEPT ![p] = IF list = <<>> THEN Junk ELSE m]
  /\ Goto(p, IF list = <<>> THEN "ret" ELSE "next")
  /\ UNCHANGED <<lock, procVars, killed, queueVars, handling, rtail, rchan>>

(* The next receiver of a multicast: the message goes into its queue, then *)
(* send_signal runs, all under the lock.                                   *)
MulticastNext(p) ==
  LET q == Head(dests[p])
  IN  /\ pc[p] = "next"
      /\ Executing(p)
      /\ lock = Free
      /\ SigCount(q) < MaxSignals
      /\ lock' = p
      /\ recv_multi_queue' = [recv_multi_queue EXCEPT ![q] = Enqueue(@, msg[p], NUM_MSG)]
      /\ Goto(p, "post")
      /\ UNCHANGED <<procVars, killed, recv_queue, got, hgot, pending_signals, handling,
                     postVars>>

(* send_signal, one access to the receiver at a time:                      *)
(*   tail = (tail + 1) % MAX_SIG                    (a load, then a store) *)
(*   wakeup1(p->chan)      (a load of chan, then a test of state and chan, *)
(*                          then a store to state)                         *)
SignalLoadTail(p) ==
  /\ pc[p] = "post"
  /\ Executing(p)
  /\ rtail' = [rtail EXCEPT ![p] = pending_signals[Head(dests[p])].tail]
  /\ Goto(p, "store")
  /\ UNCHANGED <<lock, procVars, killed, queueVars, handling, dests, msg, rchan>>

SignalStoreTail(p) ==
  /\ pc[p] = "store"
  /\ Executing(p)
  /\ pending_signals' =
       [pending_signals EXCEPT ![Head(dests[p])].tail = (rtail[p] + 1) % MAX_SIG]
  /\ rtail' = [rtail EXCEPT ![p] = 0]
  /\ Goto(p, "chan")
  /\ UNCHANGED <<lock, procVars, killed, recv_queue, got, recv_multi_queue, hgot,
                 handling, dests, msg, rchan>>

(* Faulty: wakeup1 on the channel of recv instead of p->chan.              *)
SignalLoadChanRecv(p) ==
  /\ pc[p] = "chan"
  /\ Executing(p)
  /\ rchan' = [rchan EXCEPT ![p] = "recv_queue"]
  /\ Goto(p, "wake")
  /\ UNCHANGED <<lock, procVars, killed, queueVars, handling, dests, msg, rtail>>

SignalLoadChan(p) ==
  /\ pc[p] = "chan"
  /\ Executing(p)
  /\ rchan' = [rchan EXCEPT ![p] = chan[Head(dests[p])]]
  /\ Goto(p, "wake")
  /\ UNCHANGED <<lock, procVars, killed, queueVars, handling, dests, msg, rtail>>

(* The end of send_signal: a multicast releases the lock and goes on to    *)
(* its next receiver, sig_send returns.  Locals out of scope are reset.    *)
SignalDone(p) ==
  /\ dests' = [dests EXCEPT ![p] = Tail(@)]
  /\ msg' = [msg EXCEPT ![p] = IF Len(dests[p]) > 1 THEN @ ELSE Junk]
  /\ rchan' = [rchan EXCEPT ![p] = "0"]
  /\ lock' = IF lock = p THEN Free ELSE lock
  /\ Goto(p, IF Len(dests[p]) > 1 THEN "next" ELSE "ret")

SignalTest(p) ==
  LET q == Head(dests[p])
      asleep == state[q] = "SLEEPING" /\ chan[q] = rchan[p]
  IN  /\ pc[p] = "wake"
      /\ Executing(p)
      /\ \/ asleep /\ Goto(p, "set") /\ UNCHANGED <<lock, dests, msg, rchan>>
         \/ ~ asleep /\ SignalDone(p)
      /\ UNCHANGED <<procVars, killed, queueVars, handling, rtail>>

SignalWake(p) ==
  /\ pc[p] = "set"
  /\ Executing(p)
  /\ state' = [state EXCEPT ![Head(dests[p])] = "RUNNABLE"]
  /\ SignalDone(p)
  /\ UNCHANGED <<oncpu, chan, killed, queueVars, handling, rtail>>

-----------------------------------------------------------------------------
(* Between user space and the kernel: trap() makes a killed process exit   *)
(* before and after a system call, then trapret calls handle_signals,      *)
(* which takes no lock.  A kill may land after each of the two tests.      *)

Exit(p) ==
  /\ lock = Free
  /\ sched(p, "ZOMBIE")
  /\ Goto(p, "exited")
  /\ UNCHANGED <<chan, killed, queueVars, handling, postVars>>

exit(p) == InCall(p) /\ Exit(p)

ExitKilled(p) ==
  /\ pc[p] \in {"user", "ret"}
  /\ Executing(p)
  /\ killed[p]
  /\ Exit(p)

trap(p) ==
  /\ pc[p] = "user"
  /\ Executing(p)
  /\ ~ killed[p]
  /\ Goto(p, "call")
  /\ UNCHANGED <<lock, procVars, killed, queueVars, handling, postVars>>

TrapEnd(p) ==
  /\ pc[p] = "ret"
  /\ Executing(p)
  /\ ~ killed[p]
  /\ Goto(p, "trapret")
  /\ UNCHANGED <<lock, procVars, killed, queueVars, handling, postVars>>

(* Faulty: the message stays in recv_multi_queue.                          *)
HandleSignalsKeep(p) ==
  /\ pc[p] = "trapret"
  /\ Executing(p)
  /\ ~ handling[p]
  /\ ~ NoSignal(p)
  /\ handling' = [handling EXCEPT ![p] = TRUE]
  /\ hgot' = [hgot EXCEPT ![p] = [msg |-> Front(recv_multi_queue[p]), flip |-> ~ @.flip]]
  /\ pending_signals' = [pending_signals EXCEPT ![p].head = (@ + 1) % MAX_SIG]
  /\ Goto(p, "user")
  /\ UNCHANGED <<lock, procVars, killed, recv_queue, got, recv_multi_queue, postVars>>

(* Both queues advance: the signal is consumed, and the message at the     *)
(* head of recv_multi_queue is what the handler is given.                  *)
handle_signals(p) ==
  /\ pc[p] = "trapret"
  /\ Executing(p)
  /\ ~ handling[p]
  /\ ~ NoSignal(p)
  /\ handling' = [handling EXCEPT ![p] = TRUE]
  /\ hgot' = [hgot EXCEPT ![p] = [msg |-> Front(recv_multi_queue[p]), flip |-> ~ @.flip]]
  /\ recv_multi_queue' = [recv_multi_queue EXCEPT ![p] = Dequeue(@, NUM_MSG)]
  /\ pending_signals' = [pending_signals EXCEPT ![p].head = (@ + 1) % MAX_SIG]
  /\ Goto(p, "user")
  /\ UNCHANGED <<lock, procVars, killed, recv_queue, got, postVars>>

trapret(p) ==
  /\ pc[p] = "trapret"
  /\ Executing(p)
  /\ handling[p] \/ NoSignal(p)
  /\ Goto(p, "user")
  /\ UNCHANGED <<lock, procVars, killed, queueVars, handling, postVars>>

(* sig_ret, called by the code the kernel put below the handler's frame.   *)
ret_signal(p) ==
  /\ InCall(p)
  /\ lock = Free
  /\ handling[p]
  /\ handling' = [handling EXCEPT ![p] = FALSE]
  /\ Goto(p, "ret")
  /\ UNCHANGED <<lock, procVars, killed, queueVars, postVars>>

(* Faulty: kill without its test for SLEEPING, and with one that zombies   *)
(* pass.                                                                   *)
KillStates(p, q, S) ==
  /\ InCall(p)
  /\ lock = Free
  /\ killed' = [killed EXCEPT ![q] = TRUE]
  /\ state' = [state EXCEPT ![q] = IF @ \in S THEN "RUNNABLE" ELSE @]
  /\ Goto(p, "ret")
  /\ UNCHANGED <<lock, oncpu, chan, queueVars, handling, postVars>>

KillAny(p, q) == KillStates(p, q, States)

KillZombie(p, q) == KillStates(p, q, {"SLEEPING", "ZOMBIE"})

kill(p, q) ==
  /\ InCall(p)
  /\ lock = Free
  /\ killed' = [killed EXCEPT ![q] = TRUE]
  /\ state' = [state EXCEPT ![q] = IF @ = "SLEEPING" THEN "RUNNABLE" ELSE @]
  /\ Goto(p, "ret")
  /\ UNCHANGED <<lock, oncpu, chan, queueVars, handling, postVars>>

-----------------------------------------------------------------------------
(* What a process does next once it is in the kernel, and the calls a      *)
(* program may make.                                                       *)
KernelStep(p) ==
  \/ RecvResume(p) \/ PauseSleep(p) \/ PauseResume(p) \/ MulticastNext(p)
  \/ SignalLoadTail(p) \/ SignalStoreTail(p) \/ SignalLoadChan(p)
  \/ SignalTest(p) \/ SignalWake(p)
  \/ ExitKilled(p) \/ TrapEnd(p) \/ handle_signals(p) \/ trapret(p)

Call(p, call, q) ==
  \/ call = "send" /\ \E m \in Msgs : send_mess(p, q, m)
  \/ call = "recv" /\ recv_mess(p)
  \/ call = "send_multi" /\ \E list \in DestLists, m \in Msgs : send_multicast(p, list, m)
  \/ call = "sig_send" /\ sig_send(p, q)
  \/ call = "sig_pause" /\ pause_signal(p)
  \/ call = "kill" /\ kill(p, q)
  \/ call = "exit" /\ exit(p)

Next ==
  \/ \E p \in Procs : scheduler(p) \/ yield(p) \/ trap(p) \/ KernelStep(p) \/ ret_signal(p)
  \/ \E c \in Calls : Call(c[1], c[2], c[3])

Spec == Init /\ [][Next]_vars

-----------------------------------------------------------------------------
(* Properties.                                                             *)

MessageQueues == RingType(NUM_MSG, Msgs \cup {Junk})
SignalQueues == [head : Slots(MAX_SIG), tail : Slots(MAX_SIG)]
Delivered == [msg : Msgs \cup {Junk}, flip : BOOLEAN]

(* Type invariant: every variable keeps its type; in particular head and   *)
(* tail stay inside the arrays of message_list and signals.                *)
TypeOK ==
  /\ lock \in Procs \cup {Free}
  /\ state \in [Procs -> States]
  /\ oncpu \in [Procs -> Int]
  /\ chan \in [Procs -> Chans]
  /\ killed \in [Procs -> BOOLEAN]
  /\ recv_queue \in [Procs -> MessageQueues]
  /\ recv_multi_queue \in [Procs -> MessageQueues]
  /\ pending_signals \in [Procs -> SignalQueues]
  /\ handling \in [Procs -> BOOLEAN]
  /\ got \in [Procs -> Delivered]
  /\ hgot \in [Procs -> Delivered]
  /\ pc \in [Procs -> Locations]
  /\ dests \in [Procs -> PidLists]
  /\ msg \in [Procs -> Msgs \cup {Junk}]
  /\ rtail \in [Procs -> Slots(MAX_SIG)]
  /\ rchan \in [Procs -> Chans]

(* recv loses no wakeup: a process asleep in recv_mess has an empty queue, *)
(* because send_mess appends and wakes within one hold of ptable.lock.     *)
RecvNoLostWakeup ==
  \A p \in Procs :
    state[p] = "SLEEPING" /\ chan[p] = "recv_queue" => IsEmpty(recv_queue[p])

(* Someone who has stored p's new tail is about to wake p: the chan it has *)
(* loaded, or will load, is the one p sleeps on.                           *)
WakeupComing(p) ==
  \E q \in Procs :
    /\ dests[q] # <<>> /\ Head(dests[q]) = p
    /\ \/ pc[q] \in {"chan", "set"}
       \/ pc[q] = "wake" /\ rchan[q] = chan[p]

(* sig_pause loses no wakeup: "Once we hold ptable.lock, we can be         *)
(* guaranteed that we won't miss any wakeup" (sleep, proc.c 453-456).  A   *)
(* process asleep in pause_signal has no pending signal, unless whoever    *)
(* posted it is on its way to wake the process.                            *)
PauseNoLostWakeup ==
  \A p \in Procs :
    state[p] = "SLEEPING" /\ chan[p] = "pending_signals" => NoSignal(p) \/ WakeupComing(p)

(* A process executes on one CPU at most, and on one exactly while its     *)
(* state is RUNNING: no wakeup, kill or yield makes a process that is      *)
(* executing look RUNNABLE to another CPU's scheduler.                     *)
RunsOnOneCpu ==
  \A p \in Procs : oncpu[p] = (IF state[p] = "RUNNING" THEN 1 ELSE 0)

(* "An exited process remains in the zombie state until its parent calls   *)
(* wait()" (exit, proc.c 248-249); wait is not one of the calls here.      *)
ZombieStays ==
  [][\A p \in Procs : state[p] = "ZOMBIE" => state'[p] = "ZOMBIE"]_vars

(* The processes whose signals all come from multicasts: sig_send posts a  *)
(* signal without a message.                                               *)
MulticastOnly == Procs \ {c[3] : c \in {d \in Calls : d[2] = "sig_send"}}

(* recv_queue implements a FIFO mailbox: what recv hands to a process is   *)
(* what was sent to it, once each and in order.                            *)
Unicast == INSTANCE Mailbox WITH
  box <- [p \in Procs |-> Contents(recv_queue[p], NUM_MSG)], got <- got

UnicastFifo == Unicast!Spec

(* recv_multi_queue implements a FIFO mailbox: what handlers are given is  *)
(* what was multicast, once each and in order.                             *)
Multicast == INSTANCE Mailbox WITH
  Procs <- MulticastOnly,
  box <- [p \in MulticastOnly |-> Contents(recv_multi_queue[p], NUM_MSG)],
  got <- [p \in MulticastOnly |-> hgot[p]]

MulticastFifo == Multicast!Spec
=============================================================================
