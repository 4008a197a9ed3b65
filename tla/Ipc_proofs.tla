----------------------------- MODULE Ipc_proofs -----------------------------
(***************************************************************************)
(* Proofs about Ipc for every number of processes, every size of the       *)
(* queues and every set of calls.  The last part is about the systems in   *)
(* which signals are sent by multicasts alone: there every access to       *)
(* another process's state, chan and pending signals is made under         *)
(* ptable.lock.                                                            *)
(***************************************************************************)
EXTENDS Ipc, CircularLemmas, TLAPS

(* The time the provers are given, where a step does not say.              *)
USE SMTT(20), ZenonT(20)

-----------------------------------------------------------------------------
(* Facts about the circular queue.                                         *)

(* The successor of an index is an index.                                  *)
LEMMA SuccessorType ==
  ASSUME NEW n \in Nat \ {0}, NEW i \in Slots(n)
  PROVE  (i + 1) % n \in Slots(n)
BY DEF Slots

(* Appending keeps a queue well formed: the new tail is inside the array.  *)
LEMMA EnqueueType ==
  ASSUME NEW n \in Nat \ {0}, NEW S, NEW q \in RingType(n, S), NEW m \in S
  PROVE  Enqueue(q, m, n) \in RingType(n, S)
BY SuccessorType, Zenon DEF Enqueue, RingType

(* Removing keeps a queue well formed, and hands over one of its entries.  *)
LEMMA DequeueType ==
  ASSUME NEW n \in Nat \ {0}, NEW S, NEW q \in RingType(n, S)
  PROVE  Dequeue(q, n) \in RingType(n, S) /\ Front(q) \in S
BY SuccessorType, Zenon DEF Dequeue, Front, RingType

-----------------------------------------------------------------------------
(* Inside send_multicast and send_signal there is a receiver left.         *)
DestsInv ==
  \A p \in Procs : pc[p] \in PostSteps \cup {"next"} => dests[p] # <<>>

TypeInv == TypeOK /\ DestsInv

(* What remains of a non-empty list of receivers.                          *)
LEMMA ListFacts ==
  ASSUME NEW s \in PidLists, s # <<>>
  PROVE  /\ Head(s) \in Procs
         /\ Tail(s) \in PidLists
         /\ Len(s) > 1 => Tail(s) # <<>>
<1> USE DEF PidLists
<1>1. Head(s) \in Procs /\ Tail(s) \in Seq(Procs) /\ Len(Tail(s)) = Len(s) - 1
  OBVIOUS
<1>2. Len(s) > 1 => Len(Tail(s)) # Len(<<>>)
  BY <1>1
<1> QED
  BY <1>1, <1>2, Zenon

(* The parts of the assumption on the constants that typing needs.         *)
LEMMA Sizes ==
  /\ NUM_MSG \in Nat \ {0}
  /\ MAX_SIG \in Nat \ {0}
  /\ DestLists \subseteq PidLists
BY IpcAssumption, Zenon

(* Appending to and removing from a message queue of a process, and        *)
(* advancing an index of its signals, keep their types.                    *)
LEMMA QueueTypes ==
  /\ \A q \in MessageQueues, m \in Msgs \cup {Junk} : Enqueue(q, m, NUM_MSG) \in MessageQueues
  /\ \A q \in MessageQueues : Dequeue(q, NUM_MSG) \in MessageQueues /\ Front(q) \in Msgs \cup {Junk}
  /\ \A i \in Slots(MAX_SIG) : (i + 1) % MAX_SIG \in Slots(MAX_SIG)
  /\ 0 \in Slots(MAX_SIG)
<1>1. ASSUME NEW q \in MessageQueues, NEW m \in Msgs \cup {Junk}
      PROVE  Enqueue(q, m, NUM_MSG) \in MessageQueues
  BY Sizes, EnqueueType, Zenon DEF MessageQueues
<1>2. ASSUME NEW q \in MessageQueues
      PROVE  Dequeue(q, NUM_MSG) \in MessageQueues /\ Front(q) \in Msgs \cup {Junk}
  BY Sizes, DequeueType, Zenon DEF MessageQueues
<1>3. ASSUME NEW i \in Slots(MAX_SIG) PROVE (i + 1) % MAX_SIG \in Slots(MAX_SIG)
  BY Sizes, SuccessorType, Zenon
<1>4. 0 \in Slots(MAX_SIG)
  BY Sizes DEF Slots
<1> QED
  BY <1>1, <1>2, <1>3, <1>4, Zenon

(* The names of states, channels and locations that actions assign.        *)
LEMMA Names ==
  /\ {"SLEEPING", "RUNNABLE", "RUNNING", "ZOMBIE"} \subseteq States
  /\ {"0", "recv_queue", "pending_signals"} \subseteq Chans
  /\ {"user", "call", "ret", "trapret", "recv", "pause", "paused", "next", "exited"}
       \subseteq Locations
  /\ {"post", "store", "chan", "wake", "set"} \subseteq Locations
  /\ {"user", "call", "ret", "trapret", "recv", "pause", "paused", "exited"}
       \cap (PostSteps \cup {"next"}) = {}
  /\ {"post", "store", "chan", "wake", "set"} = PostSteps
BY Zenon DEF States, Chans, Locations, PostSteps

(* The type invariant holds initially.                                     *)
LEMMA TypeInit == Init => TypeInv
BY IpcAssumption
   DEF Init, PidLists, TypeInv, TypeOK, DestsInv, EmptyRing, RingType, Slots, States, Chans,
       Locations, PostSteps, Delivered, MessageQueues, SignalQueues

(* Every step preserves the type invariant.                                *)
LEMMA TypeStep == TypeInv /\ [Next]_vars => TypeInv'
<1> SUFFICES ASSUME TypeInv, [Next]_vars PROVE TypeInv'
  BY Zenon
<1> USE Names DEF TypeInv, TypeOK, DestsInv
<1>1. ASSUME NEW p \in Procs, scheduler(p) PROVE TypeInv'
  <2>1. oncpu' \in [Procs -> Int]
    BY <1>1 DEF scheduler
  <2> QED
    BY <1>1, <2>1, Zenon DEF scheduler, queueVars, postVars
<1>2. ASSUME NEW p \in Procs, yield(p) PROVE TypeInv'
  <2>1. oncpu' \in [Procs -> Int]
    BY <1>2 DEF yield, sched
  <2> QED
    BY <1>2, <2>1, Zenon DEF yield, sched, Goto, queueVars, postVars
<1>3. ASSUME NEW p \in Procs, trap(p) PROVE TypeInv'
  BY <1>3, Zenon DEF trap, Goto, procVars, queueVars, postVars
<1>23. ASSUME NEW p \in Procs, TrapEnd(p) PROVE TypeInv'
  BY <1>23, Zenon DEF TrapEnd, Goto, procVars, queueVars, postVars
<1>4. ASSUME NEW p \in Procs, NEW q \in Procs, NEW m \in Msgs, send_mess(p, q, m)
      PROVE TypeInv'
  <2>1. recv_queue' \in [Procs -> MessageQueues]
    BY <1>4, QueueTypes, Zenon DEF send_mess
  <2> QED
    BY <1>4, <2>1, Zenon DEF send_mess, wakeup1, Goto, postVars
<1>5. ASSUME NEW p \in Procs, RecvSleep(p) \/ RecvTake(p),
             UNCHANGED <<killed, recv_multi_queue, hgot, pending_signals, handling, postVars>>
      PROVE TypeInv'
  <2>1. CASE RecvSleep(p)
    <3>1. oncpu' \in [Procs -> Int]
      BY <2>1 DEF RecvSleep, sleep, sched
    <3> QED
      BY <1>5, <2>1, <3>1, Zenon DEF RecvSleep, sleep, sched, Goto, postVars
  <2>2. CASE RecvTake(p)
    <3>1. recv_queue' \in [Procs -> MessageQueues]
      BY <2>2, QueueTypes, Zenon DEF RecvTake
    <3>2. got' \in [Procs -> Delivered]
      BY <2>2, QueueTypes, Zenon DEF RecvTake, Delivered
    <3> QED
      BY <1>5, <2>2, <3>1, <3>2, Zenon DEF RecvTake, Goto, postVars
  <2> QED
    BY <1>5, <2>1, <2>2, Zenon
<1>6. ASSUME NEW p \in Procs, pause_signal(p) PROVE TypeInv'
  <2>1. lock' \in Procs \cup {Free}
    BY <1>6, Zenon DEF pause_signal
  <2>2. pc' \in [Procs -> Locations] /\ DestsInv'
    <3>1. pc' = [pc EXCEPT ![p] = "pause"] \/ pc' = [pc EXCEPT ![p] = "ret"]
      BY <1>6, Zenon DEF pause_signal, Goto
    <3>2. dests' = dests
      BY <1>6, Zenon DEF pause_signal, postVars
    <3>3. CASE pc' = [pc EXCEPT ![p] = "pause"]
      BY <3>2, <3>3, Zenon
    <3>4. CASE pc' = [pc EXCEPT ![p] = "ret"]
      BY <3>2, <3>4, Zenon
    <3> QED
      BY <3>1, <3>3, <3>4, Zenon
  <2> QED
    BY <1>6, <2>1, <2>2, Zenon DEF pause_signal, procVars, queueVars, postVars
<1>7. ASSUME NEW p \in Procs, PauseSleep(p) PROVE TypeInv'
  <2>1. oncpu' \in [Procs -> Int]
    BY <1>7 DEF PauseSleep, sleep, sched
  <2> QED
    BY <1>7, <2>1, Zenon DEF PauseSleep, sleep, sched, Goto, queueVars, postVars
<1>8. ASSUME NEW p \in Procs, PauseResume(p) PROVE TypeInv'
  BY <1>8, Zenon DEF PauseResume, Goto, queueVars, postVars
<1>9. ASSUME NEW p \in Procs, NEW q \in Procs, sig_send(p, q) PROVE TypeInv'
  <2>1. <<q>> \in PidLists /\ <<q>> # <<>>
    BY DEF PidLists
  <2> QED
    BY <1>9, <2>1, Zenon DEF sig_send, Goto, procVars, queueVars
<1>10. ASSUME NEW p \in Procs, NEW list \in DestLists, NEW m \in Msgs,
              send_multicast(p, list, m)
       PROVE TypeInv'
  BY <1>10, Sizes, Zenon DEF send_multicast, Goto, procVars, queueVars
<1>11. ASSUME NEW p \in Procs, MulticastNext(p) PROVE TypeInv'
  <2>1. recv_multi_queue' \in [Procs -> MessageQueues]
    BY <1>11, QueueTypes, ZenonT(30), Zenon DEF MulticastNext
  <2> QED
    BY <1>11, <2>1, Zenon DEF MulticastNext, Goto, procVars, postVars
<1>12. ASSUME NEW p \in Procs, SignalLoadTail(p) PROVE TypeInv'
  <2>1. rtail' \in [Procs -> Slots(MAX_SIG)]
    BY <1>12, ListFacts, Zenon DEF SignalLoadTail, SignalQueues
  <2> QED
    BY <1>12, <2>1, Zenon DEF SignalLoadTail, Goto, procVars, queueVars
<1>13. ASSUME NEW p \in Procs, SignalStoreTail(p) PROVE TypeInv'
  <2>1. pending_signals' \in [Procs -> SignalQueues]
    <3> DEFINE q == Head(dests[p])
    <3>1. q \in Procs /\ pending_signals[q] \in SignalQueues
      BY <1>13, ListFacts, Zenon DEF SignalStoreTail
    <3>2. (rtail[p] + 1) % MAX_SIG \in Slots(MAX_SIG)
      BY QueueTypes, Zenon
    <3>3. [pending_signals[q] EXCEPT !.tail = (rtail[p] + 1) % MAX_SIG] \in SignalQueues
      BY <3>1, <3>2, Zenon DEF SignalQueues
    <3> QED
      BY <1>13, <3>1, <3>3, Zenon DEF SignalStoreTail
  <2>2. rtail' \in [Procs -> Slots(MAX_SIG)]
    BY <1>13, QueueTypes, Zenon DEF SignalStoreTail
  <2> QED
    BY <1>13, <2>1, <2>2, Zenon DEF SignalStoreTail, Goto, procVars
<1>14. ASSUME NEW p \in Procs, SignalLoadChan(p) PROVE TypeInv'
  BY <1>14, ListFacts, Zenon DEF SignalLoadChan, Goto, procVars, queueVars
<1>15. ASSUME NEW p \in Procs, SignalTest(p) PROVE TypeInv'
  <2>1. CASE SignalDone(p)
    BY <1>15, <2>1, ListFacts, Zenon DEF SignalTest, SignalDone, Goto, procVars, queueVars
  <2>2. CASE Goto(p, "set") /\ UNCHANGED <<lock, dests, msg, rchan>>
    BY <1>15, <2>2, Zenon DEF SignalTest, Goto, procVars, queueVars
  <2> QED
    BY <1>15, <2>1, <2>2, Zenon DEF SignalTest
<1>16. ASSUME NEW p \in Procs, SignalWake(p) PROVE TypeInv'
  <2>1. state' \in [Procs -> States]
    BY <1>16, ListFacts, Zenon DEF SignalWake
  <2> QED
    BY <1>16, <2>1, ListFacts, ZenonT(30), Zenon DEF SignalWake, SignalDone, Goto, queueVars
<1>17. ASSUME NEW p \in Procs, Exit(p) PROVE TypeInv'
  <2>1. oncpu' \in [Procs -> Int]
    BY <1>17 DEF Exit, sched
  <2> QED
    BY <1>17, <2>1, Zenon DEF Exit, sched, Goto, queueVars, postVars
<1>18. ASSUME NEW p \in Procs, handle_signals(p) PROVE TypeInv'
  <2>1. recv_multi_queue' \in [Procs -> MessageQueues]
    BY <1>18, QueueTypes, Zenon DEF handle_signals
  <2>2. hgot' \in [Procs -> Delivered]
    BY <1>18, QueueTypes, Zenon DEF handle_signals, Delivered
  <2>3. pending_signals' \in [Procs -> SignalQueues]
    <3>1. pending_signals[p] \in SignalQueues
      BY Zenon
    <3>2. (pending_signals[p].head + 1) % MAX_SIG \in Slots(MAX_SIG)
      BY <3>1, QueueTypes, Zenon DEF SignalQueues
    <3>3. [pending_signals[p] EXCEPT !.head = (pending_signals[p].head + 1) % MAX_SIG]
            \in SignalQueues
      BY <3>1, <3>2, ZenonT(30), Zenon DEF SignalQueues
    <3> QED
      BY <1>18, <3>3, Zenon DEF handle_signals
  <2> QED
    BY <1>18, <2>1, <2>2, <2>3 DEF handle_signals, Goto, procVars, postVars
<1>19. ASSUME NEW p \in Procs, trapret(p) PROVE TypeInv'
  BY <1>19, Zenon DEF trapret, Goto, procVars, queueVars, postVars
<1>20. ASSUME NEW p \in Procs, ret_signal(p) PROVE TypeInv'
  BY <1>20, Zenon DEF ret_signal, Goto, procVars, queueVars, postVars
<1>21. ASSUME NEW p \in Procs, NEW q \in Procs, kill(p, q) PROVE TypeInv'
  BY <1>21, Zenon DEF kill, Goto, queueVars, postVars
<1>22. CASE UNCHANGED vars
  BY <1>22, Zenon DEF vars
<1> HIDE Names DEF TypeInv, TypeOK, DestsInv
<1>24. ASSUME NEW p \in Procs, KernelStep(p) PROVE TypeInv'
  BY <1>24, <1>5, <1>7, <1>8, <1>11, <1>12, <1>13, <1>14, <1>15, <1>16, <1>17, <1>18,
     <1>19, <1>23, ZenonT(30), Zenon
     DEF KernelStep, RecvResume, ExitKilled
<1>25. ASSUME NEW p \in Procs, NEW call, NEW q \in Procs, Call(p, call, q) PROVE TypeInv'
  BY <1>25, <1>4, <1>5, <1>6, <1>9, <1>10, <1>17, <1>21, Zenon DEF Call, recv_mess, exit
<1>26. ASSUME NEW c \in Calls, Call(c[1], c[2], c[3]) PROVE TypeInv'
  <2>1. c[1] \in Procs /\ c[3] \in Procs
    BY IpcAssumption, Zenon
  <2> QED
    BY <1>25, <1>26, <2>1, Zenon
<1> QED
  BY <1>1, <1>2, <1>3, <1>20, <1>22, <1>24, <1>26, Zenon DEF Next

(* Every variable keeps its type under every action of Ipc, whatever the   *)
(* bounds and whoever makes which call: the indices of the queues of       *)
(* messages and of signals never leave the arrays.                         *)
THEOREM TypeCorrect == Spec => []TypeOK
<1>1. TypeInv => TypeOK
  BY Zenon DEF TypeInv
<1> QED
  BY <1>1, TypeInit, TypeStep, PTL DEF Spec

(* A step that puts nobody to sleep and leaves recv_queue alone.           *)
WakesOnly ==
  /\ \A r \in Procs : state'[r] = "SLEEPING" => state[r] = "SLEEPING" /\ chan'[r] = chan[r]
  /\ recv_queue' = recv_queue

(* Every step other than those of send_mess and recv_mess, and the sleep   *)
(* of pause_signal, is of this kind: send_signal and kill make a process   *)
(* RUNNABLE, with the lock or without it.                                  *)
LEMMA OthersWakeOnly ==
  ASSUME TypeInv, NEW p \in Procs,
         \/ scheduler(p) \/ yield(p) \/ trap(p) \/ TrapEnd(p) \/ trapret(p) \/ Exit(p)
         \/ handle_signals(p) \/ ret_signal(p) \/ pause_signal(p) \/ MulticastNext(p)
         \/ SignalLoadTail(p) \/ SignalStoreTail(p) \/ SignalLoadChan(p) \/ SignalTest(p)
         \/ SignalWake(p)
         \/ \E list \in DestLists, m \in Msgs : send_multicast(p, list, m)
         \/ \E q \in Procs : sig_send(p, q) \/ kill(p, q)
  PROVE  WakesOnly
<1> USE DEF TypeInv, TypeOK, WakesOnly, queueVars
<1>1. CASE scheduler(p) \/ yield(p) \/ Exit(p)
  BY <1>1, Zenon DEF scheduler, yield, Exit, sched
<1>2. CASE SignalWake(p)
  BY <1>2, Zenon DEF SignalWake
<1>3. CASE \E q \in Procs : kill(p, q)
  BY <1>3, Zenon DEF kill
<1>4. CASE UNCHANGED <<procVars, recv_queue>>
  BY <1>4, Zenon DEF procVars
<1> QED
  BY <1>1, <1>2, <1>3, <1>4, Zenon
     DEF trap, TrapEnd, trapret, handle_signals, ret_signal, pause_signal, MulticastNext,
         SignalLoadTail, SignalStoreTail, SignalLoadChan, SignalTest, send_multicast, sig_send

(* Every step preserves RecvNoLostWakeup.                                  *)
LEMMA RecvStep == TypeInv /\ RecvNoLostWakeup /\ [Next]_vars => RecvNoLostWakeup'
<1> SUFFICES ASSUME TypeInv, RecvNoLostWakeup, [Next]_vars PROVE RecvNoLostWakeup'
  BY Zenon
<1> USE DEF TypeInv, TypeOK, RecvNoLostWakeup
<1>1. CASE WakesOnly
  BY <1>1, Zenon DEF WakesOnly
<1>2. ASSUME NEW p \in Procs, RecvSleep(p) PROVE RecvNoLostWakeup'
  BY <1>2, Zenon DEF RecvSleep, sleep, sched
<1>3. ASSUME NEW p \in Procs, RecvTake(p) PROVE RecvNoLostWakeup'
  BY <1>3, Zenon DEF RecvTake
<1>4. ASSUME NEW p \in Procs, PauseSleep(p) PROVE RecvNoLostWakeup'
  BY <1>4, Zenon DEF PauseSleep, sleep, sched, queueVars
<1>5. ASSUME NEW p \in Procs, PauseResume(p) PROVE RecvNoLostWakeup'
  BY <1>5, Zenon DEF PauseResume, queueVars
<1>6. ASSUME NEW p \in Procs, NEW q \in Procs, NEW m \in Msgs, send_mess(p, q, m)
      PROVE  RecvNoLostWakeup'
  <2>1. state'[q] # "SLEEPING"
    BY <1>6, Zenon DEF send_mess, wakeup1
  <2>2. \A r \in Procs \ {q} : state'[r] = state[r] /\ recv_queue'[r] = recv_queue[r]
    BY <1>6, Zenon DEF send_mess, wakeup1
  <2> QED
    BY <1>6, <2>1, <2>2, Zenon DEF send_mess
<1>7. ASSUME NEW p \in Procs,
             scheduler(p) \/ yield(p) \/ trap(p) \/ KernelStep(p) \/ ret_signal(p)
      PROVE  RecvNoLostWakeup'
  BY <1>1, <1>2, <1>3, <1>4, <1>5, <1>7, OthersWakeOnly, ZenonT(30), Zenon
     DEF KernelStep, RecvResume, ExitKilled
<1>8. ASSUME NEW c \in Calls, Call(c[1], c[2], c[3]) PROVE RecvNoLostWakeup'
  <2>1. c[1] \in Procs /\ c[3] \in Procs
    BY IpcAssumption, Zenon
  <2> QED
    BY <1>1, <1>2, <1>3, <1>6, <1>8, <2>1, OthersWakeOnly, Zenon DEF Call, recv_mess, exit
<1>9. CASE UNCHANGED vars
  BY <1>9, Zenon DEF vars, procVars, queueVars
<1> QED
  BY <1>7, <1>8, <1>9, Zenon DEF Next

(* A process never stays asleep in recv_mess with a message in its queue,  *)
(* for any number of senders.  That send_signal may run without the lock   *)
(* does no harm here: it can wake the receiver, and the loop tests again.  *)
THEOREM RecvSafe == Spec => []RecvNoLostWakeup
<1>1. Init => RecvNoLostWakeup
  BY Zenon DEF Init, RecvNoLostWakeup
<1> QED
  BY <1>1, TypeInit, TypeStep, RecvStep, PTL DEF Spec

-----------------------------------------------------------------------------
(* Facts about the contents of the circular queue.                         *)

(* A queue holds as many entries as lie between head and tail, and it is   *)
(* empty when head = tail.                                                 *)
LEMMA RingCount ==
  ASSUME NEW n \in Nat \ {0}, NEW S, NEW q \in RingType(n, S)
  PROVE  /\ Count(q, n) \in 0 .. (n - 1)
         /\ q.head \in Int /\ q.tail \in Int
         /\ q.head \in 0 .. (n - 1) /\ q.tail \in 0 .. (n - 1)
         /\ q.messages \in [0 .. (n - 1) -> S]
         /\ q.head % n = q.head /\ q.tail % n = q.tail
         /\ IsEmpty(q) => Count(q, n) = 0
         /\ ~ IsEmpty(q) => Count(q, n) > 0
<1>1. /\ q.head \in 0 .. (n - 1) /\ q.tail \in 0 .. (n - 1)
      /\ q.messages \in [0 .. (n - 1) -> S]
  BY Zenon DEF RingType, Slots
<1>2. q.head \in Int /\ q.tail \in Int /\ q.tail - q.head \in Int
  BY <1>1
<1>3. Count(q, n) \in 0 .. (n - 1)
  BY <1>2, ModDef, Zenon DEF Count
<1>4. q.head % n = q.head /\ q.tail % n = q.tail
  BY <1>1, ModSmall, Zenon
<1>5. IsEmpty(q) => Count(q, n) = 0
  <2>1. 0 % n = 0
    BY ModSmall
  <2> QED
    BY <1>2, <2>1 DEF IsEmpty, Count
<1>6. ASSUME ~ IsEmpty(q) PROVE Count(q, n) # 0
  <2>1. \/ q.head < q.tail /\ q.tail - q.head < n
        \/ q.tail < q.head /\ q.head - q.tail < n
    BY <1>1, <1>6 DEF IsEmpty
  <2>2. CASE q.head < q.tail
    <3>1. q.tail - q.head \in 0 .. (n - 1) /\ q.tail - q.head # 0
      BY <1>1, <2>2
    <3>2. (q.tail - q.head) % n = q.tail - q.head
      BY <3>1, ModSmall, Zenon
    <3> QED
      BY <3>1, <3>2, Zenon DEF Count
  <2>3. CASE q.tail < q.head
    <3>1. /\ q.tail - q.head < 0 /\ 0 - (q.tail - q.head) < n
          /\ 0 \in 0 .. (n - 1) /\ 0 \in Int
      BY <1>1, <2>3
    <3>2. (q.tail - q.head) % n # 0 % n
      BY <1>2, <3>1, ModDiffer, Zenon
    <3>3. 0 % n = 0
      BY <3>1, ModSmall, Zenon
    <3> QED
      BY <3>2, <3>3, Zenon DEF Count
  <2> QED
    BY <2>1, <2>2, <2>3, Zenon
<1>7. ~ IsEmpty(q) => Count(q, n) > 0
  BY <1>3, <1>6
<1> QED
  BY <1>1, <1>2, <1>3, <1>4, <1>5, <1>7, Zenon

(* Appending to a queue that keeps a free slot appends to its contents.    *)
LEMMA RingPut ==
  ASSUME NEW n \in Nat \ {0}, NEW S, NEW q \in RingType(n, S), NEW m \in S,
         Count(q, n) + 1 < n
  PROVE  /\ Count(Enqueue(q, m, n), n) = Count(q, n) + 1
         /\ Contents(Enqueue(q, m, n), n) = Append(Contents(q, n), m)
<1> DEFINE r == Enqueue(q, m, n)
           rd == q.head
           wr == q.tail
           b == q.messages
<1>1. /\ rd \in Int /\ wr \in Int /\ wr % n = wr /\ b \in [0 .. (n - 1) -> S]
      /\ Count(q, n) \in 0 .. (n - 1)
  BY RingCount, ZenonT(30), Zenon
<1>2. r.head = rd /\ r.tail = (wr + 1) % n /\ r.messages = [b EXCEPT ![wr] = m]
  BY Zenon DEF Enqueue
<1>3. Count(q, n) = (wr - rd) % n
  BY Zenon DEF Count
<1>4. Contents(q, n) = Window(b, rd, Count(q, n), n)
  BY Zenon DEF Contents, Window
<1>5. Contents(r, n) = Window(r.messages, r.head, Count(r, n), n)
  BY Zenon DEF Contents, Window
<1> HIDE DEF r, rd, wr, b
<1>6. Count(r, n) = (r.tail - r.head) % n
  BY Zenon DEF Count
<1>7. (((wr + 1) % n) - rd) % n = ((wr - rd) % n) + 1
  BY <1>1, <1>3, CountPut, ZenonT(30), Zenon
<1>8. Count(r, n) = Count(q, n) + 1
  BY <1>2, <1>3, <1>6, <1>7, Zenon
<1>9. Window([b EXCEPT ![wr % n] = m], rd, ((wr - rd) % n) + 1, n)
        = Append(Window(b, rd, (wr - rd) % n, n), m)
  <2>1. IsBuffer(b, n) /\ IsMultiple(n, n) /\ (wr - rd) % n < n
    BY <1>1, <1>3, SelfMultiple DEF IsBuffer
  <2>2. \A c, v : \A i \in Int, j \in Int : IsBuffer(c, n) /\ (j - i) % n < n =>
          Window([c EXCEPT ![j % n] = v], i, ((j - i) % n) + 1, n)
            = Append(Window(c, i, (j - i) % n, n), v)
    BY <2>1, PutWindow, Zenon
  <2> QED
    BY <1>1, <2>1, <2>2, ZenonT(30), Zenon
<1>10. Contents(r, n) = Append(Contents(q, n), m)
  BY <1>1, <1>2, <1>3, <1>4, <1>5, <1>8, <1>9, ZenonT(30), Zenon
<1> QED
  BY <1>8, <1>10, Zenon DEF r

(* Removing from a queue that is not empty removes the first of its        *)
(* contents, which is what Front hands over.                               *)
LEMMA RingTake ==
  ASSUME NEW n \in Nat \ {0}, NEW S, NEW q \in RingType(n, S), ~ IsEmpty(q)
  PROVE  /\ Count(Dequeue(q, n), n) = Count(q, n) - 1
         /\ Contents(q, n) # <<>>
         /\ Head(Contents(q, n)) = Front(q)
         /\ Contents(Dequeue(q, n), n) = Tail(Contents(q, n))
<1> DEFINE r == Dequeue(q, n)
           rd == q.head
           wr == q.tail
           b == q.messages
<1>1. /\ rd \in Int /\ wr \in Int /\ rd % n = rd /\ b \in [0 .. (n - 1) -> S]
      /\ Count(q, n) \in Nat \ {0} /\ Count(q, n) > 0
  <2>1. Count(q, n) \in 0 .. (n - 1) /\ Count(q, n) > 0
    BY RingCount, Zenon
  <2>2. rd \in Int /\ wr \in Int /\ rd % n = rd /\ b \in [0 .. (n - 1) -> S]
    BY RingCount, Zenon
  <2> HIDE DEF rd, wr, b
  <2> QED
    BY <2>1, <2>2
<1>2. r.head = (rd + 1) % n /\ r.tail = wr /\ r.messages = b
  BY Zenon DEF Dequeue
<1>3. Count(q, n) = (wr - rd) % n
  BY Zenon DEF Count
<1>4. Contents(q, n) = Window(b, rd, Count(q, n), n) /\ Front(q) = b[rd]
  BY Zenon DEF Contents, Window, Front
<1>5. Contents(r, n) = Window(r.messages, r.head, Count(r, n), n)
  BY Zenon DEF Contents, Window
<1> HIDE DEF r, rd, wr, b
<1>6. Count(r, n) = (r.tail - r.head) % n
  BY Zenon DEF Count
<1>7. (wr - ((rd + 1) % n)) % n = ((wr - rd) % n) - 1
  BY <1>1, <1>3, CountTake, Zenon
<1>8. Count(r, n) = Count(q, n) - 1
  BY <1>2, <1>3, <1>6, <1>7, Zenon
<1>9. /\ Window(b, rd, Count(q, n), n) # <<>>
      /\ Head(Window(b, rd, Count(q, n), n)) = b[rd % n]
      /\ Window(b, (rd + 1) % n, Count(q, n) - 1, n) = Tail(Window(b, rd, Count(q, n), n))
  <2>1. IsBuffer(b, n) /\ IsMultiple(n, n)
    BY <1>1, SelfMultiple, Zenon DEF IsBuffer
  <2>2. \A c : \A i \in Int, k \in Nat \ {0} : IsBuffer(c, n) =>
          /\ Window(c, i, k, n) # <<>>
          /\ Head(Window(c, i, k, n)) = c[i % n]
          /\ Window(c, (i + 1) % n, k - 1, n) = Tail(Window(c, i, k, n))
    BY <2>1, TakeWindow, Zenon
  <2> QED
    BY <1>1, <2>1, <2>2, Zenon
<1> QED
  BY <1>1, <1>2, <1>4, <1>5, <1>8, <1>9, Zenon DEF r

(* An empty queue has no contents.                                         *)
LEMMA RingInit ==
  ASSUME NEW n \in Nat \ {0}, NEW junk
  PROVE  /\ Count(EmptyRing(n, junk), n) = 0
         /\ Contents(EmptyRing(n, junk), n) = <<>>
<1>1. EmptyRing(n, junk).head = 0 /\ EmptyRing(n, junk).tail = 0
  BY Zenon DEF EmptyRing
<1>2. 0 % n = 0
  BY ModSmall
<1>3. Count(EmptyRing(n, junk), n) = 0
  BY <1>1, <1>2 DEF Count
<1> QED
  BY <1>3 DEF Contents

-----------------------------------------------------------------------------
(* Messages.                                                               *)

(* send_mess appends one message to the box of its receiver.               *)
LEMMA SendPosts ==
  ASSUME TypeInv, MaxPending < NUM_MSG,
         NEW p \in Procs, NEW q \in Procs, NEW m \in Msgs, send_mess(p, q, m)
  PROVE  Unicast!Post(q, m)
<1>1. /\ recv_queue' = [recv_queue EXCEPT ![q] = Enqueue(recv_queue[q], m, NUM_MSG)]
      /\ UNCHANGED got
      /\ Count(recv_queue[q], NUM_MSG) < MaxPending
  BY Zenon DEF send_mess
<1>2. /\ recv_queue \in [Procs -> MessageQueues]
      /\ recv_queue[q] \in RingType(NUM_MSG, Msgs \cup {Junk})
      /\ MaxPending \in Nat
  BY IpcAssumption, Zenon DEF TypeInv, TypeOK, MessageQueues
<1>3. Count(recv_queue[q], NUM_MSG) + 1 < NUM_MSG
  <2>1. Count(recv_queue[q], NUM_MSG) \in 0 .. (NUM_MSG - 1)
    BY <1>2, Sizes, RingCount, ZenonT(30), Zenon
  <2> QED
    BY <1>1, <1>2, <2>1, Sizes
<1>4. Contents(recv_queue'[q], NUM_MSG) = Append(Contents(recv_queue[q], NUM_MSG), m)
  <2>1. m \in Msgs \cup {Junk}
    BY Zenon
  <2> QED
    BY <1>1, <1>2, <1>3, <2>1, Sizes, RingPut, Zenon
<1>5. \A r \in Procs \ {q} : recv_queue'[r] = recv_queue[r]
  BY <1>1, <1>2, Zenon
<1>6. [r \in Procs |-> Contents(recv_queue'[r], NUM_MSG)]
        = [[r \in Procs |-> Contents(recv_queue[r], NUM_MSG)] EXCEPT ![q] = Append(@, m)]
  BY <1>4, <1>5, Zenon
<1> QED
  BY <1>1, <1>6, Zenon DEF Unicast!Post

(* recv_mess hands over the oldest message in the box of its caller.       *)
LEMMA RecvTakes ==
  ASSUME TypeInv, NEW p \in Procs, RecvTake(p)
  PROVE  Unicast!Take(p)
<1>1. /\ recv_queue' = [recv_queue EXCEPT ![p] = Dequeue(recv_queue[p], NUM_MSG)]
      /\ got' = [got EXCEPT ![p] = [msg |-> Front(recv_queue[p]), flip |-> ~ got[p].flip]]
      /\ ~ IsEmpty(recv_queue[p])
  BY Zenon DEF RecvTake
<1>2. /\ recv_queue \in [Procs -> MessageQueues]
      /\ recv_queue[p] \in RingType(NUM_MSG, Msgs \cup {Junk})
  BY ZenonT(30), Zenon DEF TypeInv, TypeOK, MessageQueues
<1>3. /\ Contents(recv_queue[p], NUM_MSG) # <<>>
      /\ Head(Contents(recv_queue[p], NUM_MSG)) = Front(recv_queue[p])
      /\ Contents(recv_queue'[p], NUM_MSG) = Tail(Contents(recv_queue[p], NUM_MSG))
  BY <1>1, <1>2, Sizes, RingTake, Zenon
<1>4. \A r \in Procs \ {p} : recv_queue'[r] = recv_queue[r]
  BY <1>1, <1>2, Zenon
<1>5. [r \in Procs |-> Contents(recv_queue'[r], NUM_MSG)]
        = [[r \in Procs |-> Contents(recv_queue[r], NUM_MSG)] EXCEPT ![p] = Tail(@)]
  BY <1>3, <1>4, Zenon
<1> QED
  BY <1>1, <1>3, <1>5, ZenonT(30), Zenon DEF Unicast!Take

(* Every step posts a message, takes one, or leaves the boxes alone.       *)
LEMMA UnicastStep ==
  ASSUME TypeInv, MaxPending < NUM_MSG, [Next]_vars
  PROVE  [Unicast!Next]_Unicast!vars
<1> DEFINE Same == UNCHANGED <<recv_queue, got>>
           Goal == Unicast!Next \/ Same
<1>1. ASSUME NEW p \in Procs, NEW q \in Procs, NEW m \in Msgs, send_mess(p, q, m)
      PROVE  Unicast!Next
  BY <1>1, SendPosts, Zenon DEF Unicast!Next
<1>2. ASSUME NEW p \in Procs, RecvSleep(p) \/ RecvTake(p)
      PROVE  Goal
  <2>1. CASE RecvTake(p)
    BY <2>1, RecvTakes, Zenon DEF Unicast!Next
  <2>2. CASE RecvSleep(p)
    BY <2>2, Zenon DEF RecvSleep
  <2> QED
    BY <1>2, <2>1, <2>2, Zenon
<1>3. ASSUME NEW p \in Procs,
             scheduler(p) \/ yield(p) \/ trap(p) \/ KernelStep(p) \/ ret_signal(p)
      PROVE  Goal
  <2>1. CASE RecvResume(p)
    BY <1>2, <2>1, Zenon DEF RecvResume
  <2>2. CASE ~ RecvResume(p)
    BY <1>3, <2>2, ZenonT(30), Zenon
       DEF scheduler, yield, trap, KernelStep, ret_signal, PauseSleep, PauseResume, MulticastNext,
           SignalLoadTail, SignalStoreTail, SignalLoadChan, SignalTest, SignalWake, ExitKilled,
           Exit, TrapEnd, handle_signals, trapret, queueVars
  <2> QED
    BY <2>1, <2>2, Zenon
<1>4. ASSUME NEW p \in Procs, NEW q \in Procs, NEW call, Call(p, call, q)
      PROVE  Goal
  <2>1. CASE recv_mess(p)
    BY <1>2, <2>1, Zenon DEF recv_mess
  <2>2. CASE \E m \in Msgs : send_mess(p, q, m)
    BY <1>1, <2>2, Zenon
  <2>3. CASE \/ \E list \in DestLists, m \in Msgs : send_multicast(p, list, m)
             \/ sig_send(p, q) \/ pause_signal(p) \/ kill(p, q) \/ exit(p)
    BY <2>3, Zenon DEF send_multicast, sig_send, pause_signal, kill, exit, Exit, queueVars
  <2> QED
    BY <1>4, <2>1, <2>2, <2>3, Zenon DEF Call
<1>5. Goal \/ UNCHANGED vars
  <2>1. \A c \in Calls : c[1] \in Procs /\ c[3] \in Procs
    BY IpcAssumption, Zenon
  <2> QED
    BY <1>3, <1>4, <2>1, Zenon DEF Next
<1>6. Same => UNCHANGED Unicast!vars
  BY Zenon DEF Unicast!vars
<1> QED
  BY <1>5, <1>6, Zenon DEF vars

(* What recv hands to a process is what was sent to it, once each and in   *)
(* order, for every number of senders and receivers, as long as a sender   *)
(* never finds the receiver's queue with its last slot but one taken:      *)
(* send_mess does not test for a full queue (proc.c 586-610).              *)
THEOREM UnicastSafe == ASSUME MaxPending < NUM_MSG PROVE Spec => UnicastFifo
<1>1. Init => Unicast!Init
  <2> SUFFICES ASSUME Init PROVE Unicast!Init
    BY Zenon
  <2>1. \A p \in Procs : Contents(recv_queue[p], NUM_MSG) = <<>>
    BY Sizes, RingInit, Zenon DEF Init
  <2> QED
    BY <2>1, Zenon DEF Init, Unicast!Init
<1>2. TypeInv /\ [Next]_vars => [Unicast!Next]_Unicast!vars
  BY UnicastStep, Zenon
<1> QED
  BY <1>1, <1>2, TypeInit, TypeStep, PTL DEF Spec, UnicastFifo, Unicast!Spec
-----------------------------------------------------------------------------
(* Multicasts.                                                             *)

(* send_signal is on its way to store the tail of q's signals; a multicast *)
(* has already put the message into q's queue.                             *)
Flying(p, q) == pc[p] \in {"post", "store"} /\ Head(dests[p]) = q

(* Whoever posts to a process that gets multicasts only holds the lock,    *)
(* and what it has read of the receiver's signals is still so.  While a    *)
(* receiver is left there is a message for it.                             *)
OwnInv(p) ==
  /\ pc[p] = "pause" => lock = p
  /\ pc[p] \in PostSteps /\ Head(dests[p]) \in MulticastOnly => lock = p
  /\ pc[p] = "store" /\ Head(dests[p]) \in MulticastOnly =>
       rtail[p] = pending_signals[Head(dests[p])].tail
  /\ pc[p] = "next" \/ (pc[p] \in PostSteps /\ Len(dests[p]) > 1) => msg[p] \in Msgs

(* A message for each signal, and one more while a signal is on its way.   *)
BoxInv(q) ==
  /\ (\E p \in Procs : Flying(p, q)) => Count(recv_multi_queue[q], NUM_MSG) = SigCount(q) + 1
  /\ (\A p \in Procs : ~ Flying(p, q)) => Count(recv_multi_queue[q], NUM_MSG) = SigCount(q)
  /\ Count(recv_multi_queue[q], NUM_MSG) <= MaxSignals

PairInv == (\A p \in Procs : OwnInv(p)) /\ (\A q \in MulticastOnly : BoxInv(q))

(* A step of p as the other processes see it, and as the queues of q do.   *)
OthersSame(p) ==
  \A r \in Procs \ {p} :
    /\ pc'[r] = pc[r] /\ dests'[r] = dests[r] /\ rtail'[r] = rtail[r] /\ msg'[r] = msg[r]
    /\ lock = r => lock' = r

QueuesSame(q) ==
  /\ recv_multi_queue'[q] = recv_multi_queue[q]
  /\ pending_signals'[q] = pending_signals[q]
  /\ hgot'[q] = hgot[q]

(* The other processes keep their part of the invariant when the signals   *)
(* they are about to store keep their tails.                               *)
LEMMA OthersKeep ==
  ASSUME PairInv, NEW p \in Procs, OthersSame(p), NEW r \in Procs \ {p},
         \A q \in MulticastOnly : Flying(r, q) => pending_signals'[q].tail = pending_signals[q].tail
  PROVE  OwnInv(r)'
<1>1. /\ pc'[r] = pc[r] /\ dests'[r] = dests[r] /\ rtail'[r] = rtail[r] /\ msg'[r] = msg[r]
      /\ lock = r => lock' = r
  BY Zenon DEF OthersSame
<1>2. OwnInv(r)
  BY Zenon DEF PairInv
<1>3. pc[r] = "store" /\ Head(dests[r]) \in MulticastOnly =>
        pending_signals'[Head(dests[r])].tail = pending_signals[Head(dests[r])].tail
  BY Zenon DEF Flying
<1> QED
  BY <1>1, <1>2, <1>3, Zenon DEF OwnInv

(* A queue that p's step leaves alone keeps its part of the invariant.     *)
LEMMA QueueKeeps ==
  ASSUME PairInv, NEW p \in Procs, OthersSame(p), NEW q \in MulticastOnly, QueuesSame(q),
         Flying(p, q)' <=> Flying(p, q)
  PROVE  BoxInv(q)'
<1>1. \A r \in Procs : Flying(r, q)' <=> Flying(r, q)
  BY Zenon DEF OthersSame, Flying
<1>2. SigCount(q)' = SigCount(q)
  BY Zenon DEF QueuesSame, SigCount
<1>3. BoxInv(q)
  BY Zenon DEF PairInv
<1> HIDE DEF Flying, SigCount
<1> QED
  BY <1>1, <1>2, <1>3, Zenon DEF BoxInv, QueuesSame

(* A step that leaves the queues of the receivers alone.                   *)
LEMMA Uninvolved ==
  ASSUME PairInv, NEW p \in Procs, OthersSame(p), OwnInv(p)',
         \A q \in MulticastOnly : QueuesSame(q) /\ (Flying(p, q)' <=> Flying(p, q))
  PROVE  PairInv' /\ UNCHANGED Multicast!vars
<1>1. ASSUME NEW r \in Procs PROVE OwnInv(r)'
  BY OthersKeep, Zenon DEF QueuesSame
<1>2. ASSUME NEW q \in MulticastOnly PROVE BoxInv(q)'
  BY QueueKeeps, Zenon
<1>3. UNCHANGED Multicast!vars
  BY Zenon DEF QueuesSame, Multicast!vars
<1> QED
  BY <1>1, <1>2, <1>3, Zenon DEF PairInv

(* Nor do the variables of send_multicast and send_signal change, and the  *)
(* step is not one of theirs.                                              *)
LEMMA Elsewhere ==
  ASSUME TypeInv, PairInv, NEW p \in Procs, NEW loc,
         UNCHANGED <<recv_multi_queue, pending_signals, hgot, dests, msg, rtail>>,
         Goto(p, loc), loc \notin PostSteps \cup {"next"}, pc[p] \notin {"post", "store"},
         loc = "pause" => lock' = p,
         \A r \in Procs \ {p} : lock = r => lock' = r
  PROVE  PairInv' /\ UNCHANGED Multicast!vars
<1>1. pc' = [pc EXCEPT ![p] = loc] /\ pc \in [Procs -> Locations]
  BY Zenon DEF Goto, TypeInv, TypeOK
<1>2. OthersSame(p)
  BY <1>1, Zenon DEF OthersSame
<1>3. pc'[p] = loc
  BY <1>1, Zenon
<1>4. OwnInv(p)'
  BY <1>3, Zenon DEF OwnInv, PostSteps
<1>5. \A q \in MulticastOnly : QueuesSame(q)
  BY Zenon DEF QueuesSame
<1>6. \A q \in MulticastOnly : Flying(p, q)' <=> Flying(p, q)
  BY <1>3, Zenon DEF Flying, PostSteps
<1> QED
  BY <1>2, <1>4, <1>5, <1>6, Uninvolved, Zenon

(* Nor does p move.                                                        *)
LEMMA Unmoved ==
  ASSUME PairInv, NEW p \in Procs, lock = Free,
         UNCHANGED <<recv_multi_queue, pending_signals, hgot, dests, msg, rtail, pc>>
  PROVE  PairInv' /\ UNCHANGED Multicast!vars
<1>1. Free \notin Procs
  BY IpcAssumption, Zenon
<1>2. OthersSame(p)
  BY <1>1, Zenon DEF OthersSame
<1>3. OwnInv(p)'
  BY <1>1, Zenon DEF PairInv, OwnInv
<1>4. \A q \in MulticastOnly : QueuesSame(q) /\ (Flying(p, q)' <=> Flying(p, q))
  BY Zenon DEF QueuesSame, Flying
<1> QED
  BY <1>2, <1>3, <1>4, Uninvolved, Zenon

(* The steps of send_signal that access nothing of the receiver's queues   *)
(* but the tail they read, and the start of sig_send and send_multi.       *)
LEMMA PostingKeeps ==
  ASSUME TypeInv, PairInv, NEW p \in Procs,
         \/ SignalLoadTail(p) \/ SignalLoadChan(p) \/ SignalTest(p) \/ SignalWake(p)
         \/ \E q \in Procs \ MulticastOnly : sig_send(p, q)
         \/ \E list \in DestLists, m \in Msgs : send_multicast(p, list, m)
  PROVE  PairInv' /\ UNCHANGED Multicast!vars
<1>1. /\ pc \in [Procs -> Locations] /\ DOMAIN dests = Procs /\ DOMAIN msg = Procs
      /\ DOMAIN rtail = Procs /\ rtail \in [Procs -> Slots(MAX_SIG)]
      /\ Free \notin Procs
  BY IpcAssumption, Zenon DEF TypeInv, TypeOK
<1>2. UNCHANGED queueVars
  BY Zenon DEF SignalLoadTail, SignalLoadChan, SignalTest, SignalWake, sig_send, send_multicast
<1>3. \A q \in MulticastOnly : QueuesSame(q)
  BY <1>2, Zenon DEF queueVars, QueuesSame
<1>4. OwnInv(p)
  BY Zenon DEF PairInv
<1>5. CASE SignalLoadTail(p)
  <2>1. /\ pc[p] = "post" /\ pc' = [pc EXCEPT ![p] = "store"]
        /\ rtail' = [rtail EXCEPT ![p] = pending_signals[Head(dests[p])].tail]
        /\ UNCHANGED <<lock, dests, msg, pending_signals>>
    BY <1>5, Zenon DEF SignalLoadTail, Goto, queueVars
  <2>2. OthersSame(p) /\ OwnInv(p)'
    BY <1>1, <1>4, <2>1, ZenonT(30), Zenon DEF OthersSame, OwnInv, PostSteps
  <2>3. \A q \in MulticastOnly : Flying(p, q)' <=> Flying(p, q)
    BY <1>1, <2>1, Zenon DEF Flying
  <2> QED
    BY <1>3, <2>2, <2>3, Uninvolved, Zenon
<1>6. CASE SignalLoadChan(p)
  <2>1. /\ pc[p] = "chan" /\ pc' = [pc EXCEPT ![p] = "wake"]
        /\ UNCHANGED <<lock, dests, msg, rtail>>
    BY <1>6, Zenon DEF SignalLoadChan, Goto
  <2>2. OthersSame(p) /\ OwnInv(p)'
    BY <1>1, <1>4, <2>1, ZenonT(30), Zenon DEF OthersSame, OwnInv, PostSteps
  <2>3. \A q \in MulticastOnly : Flying(p, q)' <=> Flying(p, q)
    BY <1>1, <2>1, Zenon DEF Flying
  <2> QED
    BY <1>3, <2>2, <2>3, Uninvolved, Zenon
<1>7. CASE SignalTest(p) /\ ~ SignalDone(p)
  <2>1. /\ pc[p] = "wake" /\ pc' = [pc EXCEPT ![p] = "set"]
        /\ UNCHANGED <<lock, dests, msg, rtail>>
    BY <1>7, Zenon DEF SignalTest, Goto
  <2>2. OthersSame(p) /\ OwnInv(p)'
    BY <1>1, <1>4, <2>1, ZenonT(30), Zenon DEF OthersSame, OwnInv, PostSteps
  <2>3. \A q \in MulticastOnly : Flying(p, q)' <=> Flying(p, q)
    BY <1>1, <2>1, Zenon DEF Flying
  <2> QED
    BY <1>3, <2>2, <2>3, Uninvolved, Zenon
<1>8. CASE (SignalTest(p) \/ SignalWake(p)) /\ SignalDone(p)
  <2>1. /\ pc[p] \in {"wake", "set"}
        /\ UNCHANGED rtail
    BY <1>8, ZenonT(30), Zenon DEF SignalTest, SignalWake
  <2>2. /\ pc' = [pc EXCEPT ![p] = IF Len(dests[p]) > 1 THEN "next" ELSE "ret"]
        /\ dests' = [dests EXCEPT ![p] = Tail(dests[p])]
        /\ msg' = [msg EXCEPT ![p] = IF Len(dests[p]) > 1 THEN msg[p] ELSE Junk]
        /\ lock' = IF lock = p THEN Free ELSE lock
    BY <1>8, Zenon DEF SignalDone, Goto
  <2>3. OthersSame(p)
    BY <1>1, <2>1, <2>2, Zenon DEF OthersSame
  <2>4. /\ pc'[p] \in {"next", "ret"}
        /\ pc'[p] = "next" => Len(dests[p]) > 1 /\ msg'[p] = msg[p]
    BY <1>1, <2>2, Zenon
  <2>5. OwnInv(p)'
    BY <1>4, <2>1, <2>4, Zenon DEF OwnInv, PostSteps
  <2>6. \A q \in MulticastOnly : Flying(p, q)' <=> Flying(p, q)
    BY <2>1, <2>4, Zenon DEF Flying
  <2> QED
    BY <1>3, <2>3, <2>5, <2>6, Uninvolved, Zenon
<1>9. ASSUME NEW q \in Procs \ MulticastOnly, sig_send(p, q)
      PROVE  PairInv' /\ UNCHANGED Multicast!vars
  <2>1. /\ pc[p] = "call" /\ pc' = [pc EXCEPT ![p] = "post"]
        /\ dests' = [dests EXCEPT ![p] = <<q>>]
        /\ UNCHANGED <<lock, msg, rtail>>
    BY <1>9, Zenon DEF sig_send, InCall, Goto
  <2>2. pc'[p] = "post" /\ Head(dests'[p]) = q /\ ~ (Len(dests'[p]) > 1)
    BY <1>1, <2>1
  <2>3. OthersSame(p)
    BY <1>1, <2>1, Zenon DEF OthersSame
  <2>4. OwnInv(p)'
    BY <2>2, Zenon DEF OwnInv, PostSteps
  <2>5. \A r \in MulticastOnly : Flying(p, r)' <=> Flying(p, r)
    BY <2>1, <2>2, Zenon DEF Flying
  <2> QED
    BY <1>3, <2>3, <2>4, <2>5, Uninvolved, Zenon
<1>10. ASSUME NEW list \in DestLists, NEW m \in Msgs, send_multicast(p, list, m)
       PROVE  PairInv' /\ UNCHANGED Multicast!vars
  <2>1. /\ pc[p] = "call" /\ pc' = [pc EXCEPT ![p] = IF list = <<>> THEN "ret" ELSE "next"]
        /\ dests' = [dests EXCEPT ![p] = list]
        /\ msg' = [msg EXCEPT ![p] = IF list = <<>> THEN Junk ELSE m]
        /\ UNCHANGED <<lock, rtail>>
    BY <1>10, Zenon DEF send_multicast, InCall, Goto
  <2>2. pc'[p] \in {"ret", "next"} /\ (pc'[p] = "next" => msg'[p] \in Msgs)
    BY <1>1, <2>1, Zenon
  <2>3. OthersSame(p)
    BY <1>1, <2>1, Zenon DEF OthersSame
  <2>4. OwnInv(p)'
    BY <2>2, ZenonT(30), Zenon DEF OwnInv, PostSteps
  <2>5. \A r \in MulticastOnly : Flying(p, r)' <=> Flying(p, r)
    BY <2>1, <2>2, Zenon DEF Flying
  <2> QED
    BY <1>3, <2>3, <2>4, <2>5, Uninvolved, Zenon
<1> QED
  BY <1>5, <1>6, <1>7, <1>8, <1>9, <1>10, Zenon DEF SignalWake
(* Two processes do not post to such receivers at a time.                  *)
LEMMA OnePoster ==
  ASSUME PairInv, NEW p \in Procs, NEW r \in Procs, NEW q \in MulticastOnly, Flying(r, q),
         lock \in {p, Free}
  PROVE  r = p
<1>1. Free \notin Procs
  BY IpcAssumption, Zenon
<1> QED
  BY <1>1, Zenon DEF PairInv, OwnInv, Flying, PostSteps

(* The number of signals that wait for q.                                  *)
LEMMA SignalCount ==
  ASSUME TypeInv, NEW q \in Procs
  PROVE  /\ SigCount(q) \in 0 .. (MAX_SIG - 1)
         /\ pending_signals[q].head \in 0 .. (MAX_SIG - 1)
         /\ pending_signals[q].tail \in 0 .. (MAX_SIG - 1)
         /\ ~ NoSignal(q) => SigCount(q) > 0
<1> DEFINE hd == pending_signals[q].head
           tl == pending_signals[q].tail
           ring == [head |-> hd, tail |-> tl, messages |-> [i \in Slots(MAX_SIG) |-> 0]]
<1>1. hd \in Slots(MAX_SIG) /\ tl \in Slots(MAX_SIG)
  <2>1. pending_signals[q] \in SignalQueues
    BY Zenon DEF TypeInv, TypeOK
  <2> QED
    BY <2>1, Zenon DEF SignalQueues
<1>2. ring \in RingType(MAX_SIG, {0})
  BY <1>1, Zenon DEF RingType
<1>3. ring.head = hd /\ ring.tail = tl
  BY Zenon
<1>4. IsEmpty(ring) <=> NoSignal(q)
  BY <1>3, Zenon DEF IsEmpty, NoSignal
<1>5. Count(ring, MAX_SIG) = SigCount(q)
  BY <1>3, Zenon DEF Count, SigCount
<1>6. Count(ring, MAX_SIG) \in 0 .. (MAX_SIG - 1) /\ (~ IsEmpty(ring) => Count(ring, MAX_SIG) > 0)
  BY <1>2, Sizes, RingCount, ZenonT(30), Zenon
<1> HIDE DEF ring
<1> QED
  BY <1>1, <1>4, <1>5, <1>6, Zenon DEF Slots

(* A multicast puts its message into the queue of its next receiver.       *)
LEMMA MulticastPosts ==
  ASSUME TypeInv, PairInv, MaxSignals < NUM_MSG, NEW p \in Procs, MulticastNext(p)
  PROVE  PairInv' /\ [Multicast!Next]_Multicast!vars
<1>1. PICK q \in Procs : q = Head(dests[p])
  BY ListFacts, Zenon DEF MulticastNext, TypeInv, TypeOK, DestsInv
<1>2. /\ pc[p] = "next" /\ lock = Free /\ lock' = p /\ SigCount(q) < MaxSignals
      /\ pc' = [pc EXCEPT ![p] = "post"]
      /\ recv_multi_queue' =
           [recv_multi_queue EXCEPT ![q] = Enqueue(recv_multi_queue[q], msg[p], NUM_MSG)]
      /\ UNCHANGED <<pending_signals, hgot, dests, msg, rtail>>
  BY <1>1, Zenon DEF MulticastNext, Goto, postVars
<1>3. /\ pc \in [Procs -> Locations] /\ recv_multi_queue \in [Procs -> MessageQueues]
      /\ Free \notin Procs /\ MaxSignals \in Nat /\ MulticastOnly \subseteq Procs
  BY IpcAssumption, Zenon DEF TypeInv, TypeOK, MulticastOnly
<1>4. pc'[p] = "post"
  BY <1>2, <1>3, Zenon
<1>5. OthersSame(p)
  BY <1>2, <1>3, Zenon DEF OthersSame
<1>6. msg[p] \in Msgs
  BY <1>2, Zenon DEF PairInv, OwnInv
<1>7. OwnInv(p)'
  BY <1>2, <1>4, <1>6, Zenon DEF OwnInv
<1>8. ASSUME NEW r \in Procs PROVE OwnInv(r)'
  BY <1>2, <1>5, <1>7, OthersKeep, Zenon
<1>9. ASSUME NEW r \in Procs, NEW s \in MulticastOnly PROVE ~ Flying(r, s)
  <2>1. ~ Flying(p, s)
    BY <1>2, Zenon DEF Flying
  <2> QED
    BY <1>2, <2>1, OnePoster, Zenon
<1>10. ASSUME NEW r \in Procs, NEW s \in MulticastOnly
       PROVE  Flying(r, s)' <=> r = p /\ s = q
  <2>1. CASE r = p
    BY <1>1, <1>2, <1>4, <2>1, Zenon DEF Flying
  <2>2. CASE r # p
    BY <1>5, <1>9, <2>2, Zenon DEF OthersSame, Flying
  <2> QED
    BY <2>1, <2>2, Zenon
<1>11. ASSUME NEW s \in MulticastOnly, s # q
       PROVE  BoxInv(s)' /\ QueuesSame(s)
  <2>1. QueuesSame(s)
    BY <1>2, <1>3, <1>11, Zenon DEF QueuesSame
  <2>2. Flying(p, s)' <=> Flying(p, s)
    BY <1>9, <1>10, <1>11, Zenon
  <2> QED
    BY <1>5, <2>1, <2>2, QueueKeeps, Zenon
<1>12. CASE q \notin MulticastOnly
  <2>1. \A s \in MulticastOnly : BoxInv(s)' /\ QueuesSame(s)
    BY <1>11, <1>12, Zenon
  <2>2. UNCHANGED Multicast!vars
    BY <2>1, Zenon DEF QueuesSame, Multicast!vars
  <2> QED
    BY <1>8, <2>1, <2>2, Zenon DEF PairInv
<1>13. CASE q \in MulticastOnly
  <2>1. /\ recv_multi_queue[q] \in RingType(NUM_MSG, Msgs \cup {Junk})
        /\ recv_multi_queue'[q] = Enqueue(recv_multi_queue[q], msg[p], NUM_MSG)
    BY <1>2, <1>3, Zenon DEF MessageQueues
  <2>2. Count(recv_multi_queue[q], NUM_MSG) = SigCount(q)
    BY <1>9, <1>13, Zenon DEF PairInv, BoxInv
  <2>3. Count(recv_multi_queue[q], NUM_MSG) + 1 < NUM_MSG /\ SigCount(q) \in Nat
    <3>1. SigCount(q) \in Nat
      BY SignalCount
    <3> HIDE DEF SigCount
    <3> QED
      BY <1>2, <1>3, <2>2, <3>1, Sizes
  <2>4. /\ Count(recv_multi_queue'[q], NUM_MSG) = SigCount(q) + 1
        /\ Contents(recv_multi_queue'[q], NUM_MSG)
             = Append(Contents(recv_multi_queue[q], NUM_MSG), msg[p])
    <3>1. msg[p] \in Msgs \cup {Junk}
      BY <1>6, Zenon
    <3>2. /\ Count(Enqueue(recv_multi_queue[q], msg[p], NUM_MSG), NUM_MSG)
               = Count(recv_multi_queue[q], NUM_MSG) + 1
          /\ Contents(Enqueue(recv_multi_queue[q], msg[p], NUM_MSG), NUM_MSG)
               = Append(Contents(recv_multi_queue[q], NUM_MSG), msg[p])
      BY <2>1, <2>3, <3>1, Sizes, RingPut, ZenonT(30), Zenon
    <3> QED
      BY <2>1, <2>2, <3>2, ZenonT(30), Zenon
  <2>5. SigCount(q)' = SigCount(q)
    BY <1>2, Zenon DEF SigCount
  <2>6. BoxInv(q)'
    <3>1. Flying(p, q)'
      BY <1>10, <1>13, Zenon
    <3> HIDE DEF Flying, SigCount
    <3> QED
      BY <1>2, <1>3, <2>3, <2>4, <2>5, <3>1 DEF BoxInv
  <2>7. PairInv'
    BY <1>8, <1>11, <2>6, Zenon DEF PairInv
  <2>8. [s \in MulticastOnly |-> Contents(recv_multi_queue'[s], NUM_MSG)]
          = [[s \in MulticastOnly |-> Contents(recv_multi_queue[s], NUM_MSG)]
               EXCEPT ![q] = Append(@, msg[p])]
    BY <1>11, <1>13, <2>4, ZenonT(30), Zenon DEF QueuesSame
  <2>9. Multicast!Post(q, msg[p])
    BY <1>2, <2>8, ZenonT(30), Zenon DEF Multicast!Post
  <2> QED
    BY <1>6, <1>13, <2>7, <2>9, Zenon DEF Multicast!Next
<1> QED
  BY <1>12, <1>13, Zenon

(* The store of the new tail ends the flight of a signal.                  *)
LEMMA StoreKeeps ==
  ASSUME TypeInv, PairInv, MaxSignals < MAX_SIG, NEW p \in Procs, SignalStoreTail(p)
  PROVE  PairInv' /\ UNCHANGED Multicast!vars
<1>1. PICK q \in Procs : q = Head(dests[p])
  BY ListFacts, Zenon DEF SignalStoreTail, TypeInv, TypeOK, DestsInv, PostSteps
<1>2. /\ pc[p] = "store" /\ pc' = [pc EXCEPT ![p] = "chan"]
      /\ pending_signals' = [pending_signals EXCEPT ![q].tail = (rtail[p] + 1) % MAX_SIG]
      /\ rtail' = [rtail EXCEPT ![p] = 0]
      /\ UNCHANGED <<lock, recv_multi_queue, hgot, dests, msg>>
  BY <1>1, Zenon DEF SignalStoreTail, Goto
<1>3. /\ pc \in [Procs -> Locations] /\ rtail \in [Procs -> Slots(MAX_SIG)]
      /\ pending_signals \in [Procs -> SignalQueues] /\ pending_signals[q] \in SignalQueues
      /\ MaxSignals \in Nat /\ MulticastOnly \subseteq Procs
  BY IpcAssumption, Zenon DEF TypeInv, TypeOK, MulticastOnly
<1>4. pc'[p] = "chan"
  BY <1>2, <1>3, Zenon
<1>5. OthersSame(p)
  BY <1>2, <1>3, Zenon DEF OthersSame
<1>6. OwnInv(p)'
  BY <1>2, <1>4, Zenon DEF PairInv, OwnInv, PostSteps
<1>7. /\ \A s \in Procs \ {q} : pending_signals'[s] = pending_signals[s]
      /\ pending_signals'[q].head = pending_signals[q].head
      /\ pending_signals'[q].tail = (rtail[p] + 1) % MAX_SIG
  BY <1>2, <1>3, Zenon DEF SignalQueues
<1>8. \A s \in MulticastOnly \ {q} : QueuesSame(s)
  BY <1>2, <1>3, <1>7, Zenon DEF QueuesSame
<1>9. ASSUME NEW r \in Procs \ {p}, q \in MulticastOnly PROVE ~ Flying(r, q)
  <2>1. lock = p
    BY <1>1, <1>2, <1>9, Zenon DEF PairInv, OwnInv, PostSteps
  <2> QED
    BY <1>9, <2>1, OnePoster, Zenon
<1>10. ASSUME NEW r \in Procs PROVE OwnInv(r)'
  <2>1. CASE r = p
    BY <1>6, <2>1, Zenon
  <2>2. CASE r # p
    <3>1. \A s \in MulticastOnly :
            Flying(r, s) => pending_signals'[s].tail = pending_signals[s].tail
      BY <1>3, <1>7, <1>9, <2>2, Zenon
    <3> QED
      BY <1>5, <2>2, <3>1, OthersKeep, Zenon
  <2> QED
    BY <2>1, <2>2, Zenon
<1>11. ASSUME NEW s \in MulticastOnly, s # q PROVE BoxInv(s)'
  <2>1. Flying(p, s)' <=> Flying(p, s)
    BY <1>1, <1>4, <1>11, ZenonT(30), Zenon DEF Flying
  <2> QED
    BY <1>5, <1>8, <1>11, <2>1, QueueKeeps, Zenon
<1>12. ASSUME q \in MulticastOnly PROVE BoxInv(q)'
  <2>1. Flying(p, q)
    BY <1>1, <1>2, Zenon DEF Flying
  <2>2. /\ Count(recv_multi_queue[q], NUM_MSG) = SigCount(q) + 1
        /\ Count(recv_multi_queue[q], NUM_MSG) <= MaxSignals
    BY <1>12, <2>1, Zenon DEF PairInv, BoxInv
  <2>3. rtail[p] = pending_signals[q].tail
    BY <1>1, <1>2, <1>12, Zenon DEF PairInv, OwnInv
  <2>4. /\ SigCount(q) \in Nat /\ pending_signals[q].head \in Int /\ pending_signals[q].tail \in Int
        /\ SigCount(q) + 1 < MAX_SIG
    <3>1. SigCount(q) \in Nat /\ pending_signals[q].head \in Int /\ pending_signals[q].tail \in Int
      BY SignalCount
    <3> HIDE DEF SigCount
    <3> QED
      BY <1>3, <2>2, <3>1, Sizes
  <2>5. SigCount(q)' = SigCount(q) + 1
    <3> DEFINE hd == pending_signals[q].head
               tl == pending_signals[q].tail
    <3>1. SigCount(q) = (tl - hd) % MAX_SIG
      BY Zenon DEF SigCount
    <3>2. SigCount(q)' = (((tl + 1) % MAX_SIG) - hd) % MAX_SIG
      BY <1>7, <2>3, Zenon DEF SigCount
    <3> HIDE DEF hd, tl, SigCount
    <3>3. hd \in Int /\ tl \in Int /\ ((tl - hd) % MAX_SIG) + 1 < MAX_SIG
      BY <2>4, <3>1, Zenon DEF hd, tl
    <3> QED
      BY <3>1, <3>2, <3>3, Sizes, CountPut, Zenon
  <2>6. ASSUME NEW r \in Procs PROVE ~ Flying(r, q)'
    <3>1. CASE r = p
      BY <1>4, <3>1, Zenon DEF Flying
    <3>2. CASE r # p
      BY <1>5, <1>9, <1>12, <3>2, Zenon DEF OthersSame, Flying
    <3> QED
      BY <3>1, <3>2, Zenon
  <2>7. recv_multi_queue' = recv_multi_queue
    BY <1>2, Zenon
  <2> HIDE DEF Flying, SigCount
  <2> QED
    BY <2>2, <2>5, <2>6, <2>7, Zenon DEF BoxInv
<1>13. UNCHANGED Multicast!vars
  BY <1>2, Zenon DEF Multicast!vars
<1> QED
  BY <1>10, <1>11, <1>12, <1>13, Zenon DEF PairInv

(* handle_signals consumes a signal and the message that came with it.     *)
LEMMA HandleTakes ==
  ASSUME TypeInv, PairInv, NEW p \in Procs, handle_signals(p)
  PROVE  PairInv' /\ [Multicast!Next]_Multicast!vars
<1>1. /\ pc[p] = "trapret" /\ pc' = [pc EXCEPT ![p] = "user"] /\ ~ NoSignal(p)
      /\ hgot' = [hgot EXCEPT ![p] = [msg |-> Front(recv_multi_queue[p]), flip |-> ~ hgot[p].flip]]
      /\ recv_multi_queue' =
           [recv_multi_queue EXCEPT ![p] = Dequeue(recv_multi_queue[p], NUM_MSG)]
      /\ pending_signals' =
           [pending_signals EXCEPT ![p].head = (pending_signals[p].head + 1) % MAX_SIG]
      /\ UNCHANGED <<lock, dests, msg, rtail>>
  BY Zenon DEF handle_signals, Goto, postVars
<1>2. /\ pc \in [Procs -> Locations] /\ recv_multi_queue \in [Procs -> MessageQueues]
      /\ hgot \in [Procs -> Delivered]
      /\ pending_signals \in [Procs -> SignalQueues] /\ pending_signals[p] \in SignalQueues
      /\ MaxSignals \in Nat /\ MulticastOnly \subseteq Procs
  BY IpcAssumption, Zenon DEF TypeInv, TypeOK, MulticastOnly
<1>3. pc'[p] = "user"
  BY <1>1, <1>2, Zenon
<1>4. OthersSame(p)
  BY <1>1, <1>2, Zenon DEF OthersSame
<1>5. OwnInv(p)'
  BY <1>3, Zenon DEF OwnInv, PostSteps
<1>6. /\ \A s \in Procs \ {p} : pending_signals'[s] = pending_signals[s]
      /\ pending_signals'[p].tail = pending_signals[p].tail
      /\ pending_signals'[p].head = (pending_signals[p].head + 1) % MAX_SIG
  BY <1>1, <1>2, Zenon DEF SignalQueues
<1>7. ASSUME NEW r \in Procs PROVE OwnInv(r)'
  <2>1. \A s \in MulticastOnly : pending_signals'[s].tail = pending_signals[s].tail
    BY <1>2, <1>6, Zenon
  <2> QED
    BY <1>4, <1>5, <2>1, OthersKeep, ZenonT(30), Zenon
<1>8. ASSUME NEW r \in Procs, NEW s PROVE Flying(r, s)' <=> Flying(r, s)
  <2>1. CASE r = p
    BY <1>1, <1>3, <2>1, Zenon DEF Flying
  <2>2. CASE r # p
    BY <1>4, <2>2, Zenon DEF OthersSame, Flying
  <2> QED
    BY <2>1, <2>2, Zenon
<1>9. ASSUME NEW s \in MulticastOnly, s # p PROVE BoxInv(s)' /\ QueuesSame(s)
  <2>1. QueuesSame(s)
    BY <1>1, <1>2, <1>6, <1>9, Zenon DEF QueuesSame
  <2> QED
    BY <1>4, <1>8, <2>1, QueueKeeps, Zenon
<1>10. CASE p \notin MulticastOnly
  <2>1. \A s \in MulticastOnly : BoxInv(s)' /\ QueuesSame(s)
    BY <1>9, <1>10, Zenon
  <2>2. UNCHANGED Multicast!vars
    BY <2>1, Zenon DEF QueuesSame, Multicast!vars
  <2> QED
    BY <1>7, <2>1, <2>2, Zenon DEF PairInv
<1>11. CASE p \in MulticastOnly
  <2> DEFINE q == recv_multi_queue[p]
  <2>1. q \in RingType(NUM_MSG, Msgs \cup {Junk}) /\ recv_multi_queue'[p] = Dequeue(q, NUM_MSG)
    BY <1>1, <1>2, ZenonT(30), Zenon DEF MessageQueues
  <2>2. BoxInv(p)
    BY <1>11, Zenon DEF PairInv
  <2>3. /\ SigCount(p) \in Nat /\ SigCount(p) > 0
        /\ pending_signals[p].head \in Int /\ pending_signals[p].tail \in Int
    BY <1>1, SignalCount
  <2>4. Count(q, NUM_MSG) > 0 /\ Count(q, NUM_MSG) \in Nat
    <3> HIDE DEF Flying, SigCount
    <3>1. Count(q, NUM_MSG) = SigCount(p) \/ Count(q, NUM_MSG) = SigCount(p) + 1
      BY <2>2, Zenon DEF BoxInv
    <3> HIDE DEF q
    <3> QED
      BY <2>3, <3>1
  <2>5. ~ IsEmpty(q)
    <3>1. IsEmpty(q) => Count(q, NUM_MSG) = 0
      BY <2>1, Sizes, RingCount, ZenonT(30), Zenon
    <3> HIDE DEF q
    <3> QED
      BY <2>4, <3>1
  <2>6. /\ Count(recv_multi_queue'[p], NUM_MSG) = Count(q, NUM_MSG) - 1
        /\ Contents(q, NUM_MSG) # <<>>
        /\ Head(Contents(q, NUM_MSG)) = Front(q)
        /\ Contents(recv_multi_queue'[p], NUM_MSG) = Tail(Contents(q, NUM_MSG))
    BY <2>1, <2>5, Sizes, RingTake, Zenon
  <2>7. SigCount(p)' = SigCount(p) - 1
    <3> DEFINE hd == pending_signals[p].head
               tl == pending_signals[p].tail
    <3>1. SigCount(p) = (tl - hd) % MAX_SIG
      BY Zenon DEF SigCount
    <3>2. SigCount(p)' = (tl - ((hd + 1) % MAX_SIG)) % MAX_SIG
      BY <1>6, Zenon DEF SigCount
    <3> HIDE DEF hd, tl, SigCount
    <3>3. hd \in Int /\ tl \in Int /\ (tl - hd) % MAX_SIG > 0
      BY <2>3, <3>1, Zenon DEF hd, tl
    <3> QED
      BY <3>1, <3>2, <3>3, Sizes, CountTake, ZenonT(30), Zenon
  <2>8. BoxInv(p)'
    <3> HIDE DEF Flying, SigCount
    <3>1. \A r \in Procs : Flying(r, p)' <=> Flying(r, p)
      BY <1>8, Zenon
    <3>2. /\ (\E r \in Procs : Flying(r, p)) => Count(q, NUM_MSG) = SigCount(p) + 1
          /\ (\A r \in Procs : ~ Flying(r, p)) => Count(q, NUM_MSG) = SigCount(p)
          /\ Count(q, NUM_MSG) <= MaxSignals
      BY <2>2, Zenon DEF BoxInv
    <3> HIDE DEF q
    <3>3. Count(recv_multi_queue'[p], NUM_MSG) <= MaxSignals
      BY <1>2, <2>4, <2>6, <3>2
    <3>4. Count(q, NUM_MSG) = SigCount(p) =>
            Count(recv_multi_queue'[p], NUM_MSG) = SigCount(p)'
      BY <2>6, <2>7, Zenon
    <3>5. Count(q, NUM_MSG) = SigCount(p) + 1 =>
            Count(recv_multi_queue'[p], NUM_MSG) = SigCount(p)' + 1
      BY <2>3, <2>6, <2>7
    <3> QED
      BY <3>1, <3>2, <3>3, <3>4, <3>5, ZenonT(30), Zenon DEF BoxInv
  <2>9. PairInv'
    BY <1>7, <1>9, <2>8, Zenon DEF PairInv
  <2>10. [s \in MulticastOnly |-> Contents(recv_multi_queue'[s], NUM_MSG)]
           = [[s \in MulticastOnly |-> Contents(recv_multi_queue[s], NUM_MSG)]
                EXCEPT ![p] = Tail(@)]
    BY <1>9, <1>11, <2>6, ZenonT(30), Zenon DEF QueuesSame
  <2>11. [s \in MulticastOnly |-> hgot'[s]]
           = [[s \in MulticastOnly |-> hgot[s]]
                EXCEPT ![p] = [msg |-> Head(Contents(q, NUM_MSG)), flip |-> ~ @.flip]]
    BY <1>1, <1>2, <1>11, <2>6, ZenonT(30), Zenon
  <2>12. Multicast!Take(p)
    BY <1>11, <2>6, <2>10, <2>11, ZenonT(30), Zenon DEF Multicast!Take
  <2> QED
    BY <1>11, <2>9, <2>12, Zenon DEF Multicast!Next
<1> QED
  BY <1>10, <1>11, Zenon
(* Every step posts to a box, takes from one or leaves them alone.         *)
LEMMA MulticastStep ==
  ASSUME TypeInv, PairInv, MaxSignals < NUM_MSG, MaxSignals < MAX_SIG, [Next]_vars
  PROVE  PairInv' /\ [Multicast!Next]_Multicast!vars
<1> DEFINE Goal == PairInv' /\ [Multicast!Next]_Multicast!vars
<1>1. Free \notin Procs
  BY IpcAssumption, Zenon
<1>2. ASSUME NEW p \in Procs, scheduler(p) \/ yield(p) PROVE Goal
  <2>1. /\ lock = Free
        /\ UNCHANGED <<recv_multi_queue, pending_signals, hgot, dests, msg, rtail>>
    BY <1>2, ZenonT(30), Zenon DEF scheduler, yield, queueVars, postVars
  <2>2. CASE UNCHANGED pc
    BY <2>1, <2>2, Unmoved, Zenon
  <2>3. CASE pc[p] = "user" /\ Goto(p, "ret")
    BY <1>1, <2>1, <2>3, Elsewhere, Zenon DEF PostSteps
  <2>4. UNCHANGED pc \/ (pc[p] = "user" /\ Goto(p, "ret"))
    BY <1>2, ZenonT(30), Zenon DEF scheduler, yield, Goto, TypeInv, TypeOK
  <2> QED
    BY <2>2, <2>3, <2>4, Zenon
<1>3. ASSUME NEW p \in Procs,
             \/ trap(p) \/ TrapEnd(p) \/ trapret(p) \/ ret_signal(p) \/ PauseResume(p)
             \/ \E q \in Procs : kill(p, q) \/ \E m \in Msgs : send_mess(p, q, m)
      PROVE  Goal
  <2>1. UNCHANGED <<recv_multi_queue, pending_signals, hgot, dests, msg, rtail>>
    BY <1>3, Zenon
       DEF trap, TrapEnd, trapret, ret_signal, PauseResume, kill, send_mess, queueVars, postVars
  <2>2. lock' = lock \/ lock = p
    BY <1>3, Zenon DEF trap, TrapEnd, trapret, ret_signal, PauseResume, kill, send_mess
  <2>3. /\ pc[p] \in {"user", "call", "ret", "trapret", "paused"}
        /\ \E loc \in {"call", "ret", "trapret", "user"} : Goto(p, loc)
    BY <1>3, ZenonT(30), Zenon DEF trap, TrapEnd, trapret, ret_signal, PauseResume, kill,
       send_mess, InCall
  <2> QED
    BY <1>1, <2>1, <2>2, <2>3, Elsewhere, Zenon DEF PostSteps
<1>4. ASSUME NEW p \in Procs, RecvSleep(p) \/ RecvTake(p), pc[p] \in {"call", "recv"},
             lock \in {Free, p}, UNCHANGED <<recv_multi_queue, hgot, pending_signals, postVars>>
      PROVE  Goal
  <2>1. \E loc \in {"recv", "ret"} : Goto(p, loc)
    BY <1>4, ZenonT(30), Zenon DEF RecvSleep, RecvTake
  <2> QED
    BY <1>1, <1>4, <2>1, Elsewhere, Zenon DEF PostSteps, postVars
<1>5. ASSUME NEW p \in Procs, PauseSleep(p) PROVE Goal
  <2>1. lock = p
    BY <1>5, Zenon DEF PauseSleep, PairInv, OwnInv
  <2> QED
    BY <1>1, <1>5, <2>1, Elsewhere, Zenon DEF PauseSleep, PostSteps, queueVars, postVars
<1>6. ASSUME NEW p \in Procs, pause_signal(p) PROVE Goal
  <2>1. /\ lock = Free /\ pc[p] = "call"
        /\ UNCHANGED <<recv_multi_queue, pending_signals, hgot, dests, msg, rtail>>
        /\ (lock' = p /\ Goto(p, "pause")) \/ Goto(p, "ret")
    BY <1>6, Zenon DEF pause_signal, InCall, queueVars, postVars
  <2> QED
    BY <1>1, <2>1, Elsewhere, Zenon DEF PostSteps
<1>7. ASSUME NEW p \in Procs, Exit(p), pc[p] \in {"user", "call", "ret"} PROVE Goal
  <2>1. lock = Free /\ Goto(p, "exited")
        /\ UNCHANGED <<recv_multi_queue, pending_signals, hgot, dests, msg, rtail>>
    BY <1>7, Zenon DEF Exit, queueVars, postVars
  <2> QED
    BY <1>1, <1>7, <2>1, Elsewhere, Zenon DEF PostSteps
<1>8. ASSUME NEW p \in Procs, KernelStep(p) PROVE Goal
  <2>1. CASE RecvResume(p)
    BY <1>4, <2>1, Zenon DEF RecvResume
  <2>2. CASE ExitKilled(p)
    BY <1>7, <2>2, Zenon DEF ExitKilled
  <2>3. CASE PauseSleep(p) \/ PauseResume(p) \/ TrapEnd(p) \/ trapret(p)
    BY <1>3, <1>5, <2>3, Zenon
  <2>4. CASE SignalLoadTail(p) \/ SignalLoadChan(p) \/ SignalTest(p) \/ SignalWake(p)
    BY <2>4, PostingKeeps, Zenon
  <2>5. CASE MulticastNext(p) \/ SignalStoreTail(p) \/ handle_signals(p)
    BY <2>5, MulticastPosts, StoreKeeps, HandleTakes, Zenon
  <2> QED
    BY <1>8, <2>1, <2>2, <2>3, <2>4, <2>5, Zenon DEF KernelStep
<1>9. ASSUME NEW c \in Calls, Call(c[1], c[2], c[3]) PROVE Goal
  <2>1. PICK p \in Procs, call \in CallNames, q \in Procs : c = <<p, call, q>>
    BY IpcAssumption
  <2>2. Call(p, call, q)
    BY <1>9, <2>1, Zenon
  <2>3. CASE call = "sig_send" /\ sig_send(p, q)
    <3>1. q \notin MulticastOnly
      BY <2>1, <2>3 DEF MulticastOnly
    <3> QED
      BY <2>3, <3>1, PostingKeeps, Zenon
  <2>4. CASE recv_mess(p)
    BY <1>4, <2>4, Zenon DEF recv_mess, InCall
  <2>5. CASE exit(p)
    BY <1>7, <2>5, Zenon DEF exit, InCall
  <2>6. CASE pause_signal(p)
    BY <1>6, <2>6, Zenon
  <2>7. CASE kill(p, q) \/ \E m \in Msgs : send_mess(p, q, m)
    BY <1>3, <2>7, Zenon
  <2>8. CASE \E list \in DestLists, m \in Msgs : send_multicast(p, list, m)
    BY <2>8, PostingKeeps, Zenon
  <2> QED
    BY <2>2, <2>3, <2>4, <2>5, <2>6, <2>7, <2>8, Zenon DEF Call
<1>10. CASE UNCHANGED vars
  <2>1. UNCHANGED <<recv_multi_queue, pending_signals, hgot, dests, msg, rtail, pc, lock>>
    BY <1>10, Zenon DEF vars
  <2>2. PairInv'
    BY <2>1, ZenonT(30), Zenon DEF PairInv, OwnInv, BoxInv, Flying, SigCount
  <2>3. UNCHANGED Multicast!vars
    BY <2>1, Zenon DEF Multicast!vars
  <2> QED
    BY <2>2, <2>3, Zenon
<1> QED
  BY <1>2, <1>3, <1>6, <1>8, <1>9, <1>10, Zenon DEF Next

(* What the handlers of a process are given is what was multicast to it,   *)
(* once each and in order, for every number of senders and receivers, as   *)
(* long as nobody sends it a signal without a message and the signals that *)
(* wait for it fill neither of its two queues: neither send_multicast nor  *)
(* send_signal tests for a full one (proc.c 659-713).             *)
THEOREM MulticastSafe ==
  ASSUME MaxSignals < NUM_MSG, MaxSignals < MAX_SIG
  PROVE  Spec => MulticastFifo
<1>1. Init => PairInv /\ Multicast!Init
  <2> SUFFICES ASSUME Init PROVE PairInv /\ Multicast!Init
    BY Zenon
  <2>1. MulticastOnly \subseteq Procs /\ MaxSignals \in Nat
    BY IpcAssumption, Zenon DEF MulticastOnly
  <2>2. \A q \in MulticastOnly : /\ Contents(recv_multi_queue[q], NUM_MSG) = <<>>
                                 /\ Count(recv_multi_queue[q], NUM_MSG) = 0
    BY <2>1, Sizes, RingInit, ZenonT(30), Zenon DEF Init
  <2>3. \A q \in MulticastOnly : SigCount(q) = 0
    <3>1. 0 % MAX_SIG = 0
      BY Sizes, ModSmall
    <3>2. \A q \in MulticastOnly : pending_signals[q].tail - pending_signals[q].head = 0
      BY <2>1 DEF Init
    <3> QED
      BY <3>1, <3>2, Zenon DEF SigCount
  <2>4. \A p \in Procs : pc[p] = "trapret"
    BY Zenon DEF Init
  <2>5. \A p \in Procs : OwnInv(p)
    BY <2>4, Zenon DEF OwnInv, PostSteps
  <2>6. \A q \in MulticastOnly : BoxInv(q)
    <3>1. \A p \in Procs, q \in MulticastOnly : ~ Flying(p, q)
      BY <2>4, Zenon DEF Flying
    <3> HIDE DEF Flying, SigCount
    <3> QED
      BY <2>1, <2>2, <2>3, <3>1 DEF BoxInv
  <2>7. Multicast!Init
    BY <2>1, <2>2, Zenon DEF Init, Multicast!Init
  <2> QED
    BY <2>5, <2>6, <2>7, Zenon DEF PairInv
<1>2. /\ TypeInv /\ PairInv /\ [Next]_vars => PairInv'
      /\ TypeInv /\ PairInv /\ [Next]_vars => [Multicast!Next]_Multicast!vars
  BY MulticastStep, Zenon
<1> QED
  BY <1>1, <1>2, TypeInit, TypeStep, PTL DEF Spec, MulticastFifo, Multicast!Spec

-----------------------------------------------------------------------------
(* Synchronisation, in a system without sig_send.                          *)

NoSigSend == \A c \in Calls : c[2] # "sig_send"

(* Who holds the lock, and what it means to hold it.                       *)
LockInv ==
  \A p \in Procs :
    /\ pc[p] \in PostSteps \cup {"pause"} => lock = p
    /\ lock = p => /\ state[p] = "RUNNING"
                   /\ pc[p] \in PostSteps \cup {"pause", "recv", "paused"}
    /\ pc[p] \in {"recv", "paused"} /\ state[p] = "RUNNING" => lock = p

(* The state and the channel of a process agree with the code it is in.    *)
StateInv ==
  \A p \in Procs :
    /\ state[p] = "ZOMBIE" <=> pc[p] = "exited"
    /\ state[p] = "SLEEPING" => pc[p] \in {"recv", "paused"}
    /\ pc[p] = "recv" => chan[p] = "recv_queue"
    /\ pc[p] = "paused" => chan[p] = "pending_signals"
    /\ pc[p] \notin {"recv", "paused"} => chan[p] = "0"

(* What send_signal has read about its receiver is still so.               *)
PostInv ==
  \A p \in Procs :
    /\ pc[p] = "store" => rtail[p] = pending_signals[Head(dests[p])].tail
    /\ pc[p] = "wake" => rchan[p] = chan[Head(dests[p])]
    /\ pc[p] = "set" => state[Head(dests[p])] = "SLEEPING"

(* A process asleep in sig_pause with a signal is about to be woken, by    *)
(* whoever holds the lock.                                                 *)
PauseInv ==
  \A p \in Procs :
    /\ pc[p] = "pause" => NoSignal(p)
    /\ state[p] = "SLEEPING" /\ pc[p] = "paused" =>
         \/ NoSignal(p)
         \/ lock \in Procs /\ pc[lock] \in {"chan", "wake", "set"} /\ Head(dests[lock]) = p

SyncInv ==
  TypeInv /\ LockInv /\ StateInv /\ RunsOnOneCpu /\ PostInv /\ PauseInv

(* The circumstances in which the loop of recv_mess, and exit, are entered. *)
RecvEnter(p) ==
  /\ Executing(p)
  /\ (pc[p] = "call" /\ lock = Free) \/ (pc[p] = "recv" /\ lock = p)
  /\ UNCHANGED <<killed, recv_multi_queue, hgot, pending_signals, handling, postVars>>

ExitEnter(p) == Executing(p) /\ pc[p] \in {"user", "call", "ret"}

(* The steps of a process in a system without sig_send.                    *)
SafeStep(p) ==
  \/ scheduler(p) \/ yield(p) \/ trap(p) \/ TrapEnd(p)
  \/ RecvEnter(p) /\ (RecvSleep(p) \/ RecvTake(p))
  \/ PauseSleep(p) \/ PauseResume(p) \/ MulticastNext(p)
  \/ SignalLoadTail(p) \/ SignalStoreTail(p) \/ SignalLoadChan(p)
  \/ SignalTest(p) \/ SignalWake(p)
  \/ ExitEnter(p) /\ Exit(p)
  \/ handle_signals(p) \/ trapret(p) \/ pause_signal(p) \/ ret_signal(p)
  \/ \E q \in Procs, m \in Msgs : send_mess(p, q, m)
  \/ \E list \in DestLists, m \in Msgs : send_multicast(p, list, m)
  \/ \E q \in Procs : kill(p, q)

(* Every step without sig_send is one of these.                            *)
LEMMA NextIsSafe == NoSigSend /\ Next => \E p \in Procs : SafeStep(p)
<1> SUFFICES ASSUME NoSigSend, Next PROVE \E p \in Procs : SafeStep(p)
  BY Zenon
<1>1. ASSUME NEW p \in Procs,
             scheduler(p) \/ yield(p) \/ trap(p) \/ KernelStep(p) \/ ret_signal(p)
      PROVE  SafeStep(p)
  BY <1>1, Zenon DEF SafeStep, KernelStep, RecvResume, RecvEnter, ExitKilled, ExitEnter
<1>2. ASSUME NEW c \in Calls, Call(c[1], c[2], c[3]) PROVE SafeStep(c[1])
  <2>1. c[1] \in Procs /\ c[3] \in Procs /\ c[2] # "sig_send"
    BY IpcAssumption, Zenon DEF NoSigSend
  <2> QED
    BY <1>2, <2>1, Zenon DEF SafeStep, Call, recv_mess, RecvEnter, exit, ExitEnter, InCall
<1> QED
  BY <1>1, <1>2, IpcAssumption, Zenon DEF Next

(* Locations at which a process neither holds the lock nor is inside       *)
(* sleep, and a step between two of them that leaves the shared state of   *)
(* SyncInv alone: trap, its end, trapret, sig_ret, the start of a          *)
(* multicast, a sig_pause that finds a signal.                             *)
Quiet == {"user", "call", "ret", "trapret", "next"}

QuietStep(p) ==
  /\ pc[p] \in Quiet
  /\ pc'[p] \in Quiet
  /\ \A q \in Procs \ {p} : pc'[q] = pc[q] /\ dests'[q] = dests[q]
  /\ UNCHANGED <<lock, procVars, pending_signals, rtail, rchan>>

(* The parts of SyncInv besides types, and the types they need.            *)
Sync == LockInv /\ StateInv /\ RunsOnOneCpu /\ PostInv /\ PauseInv

SyncType ==
  /\ Free \notin Procs
  /\ lock \in Procs \cup {Free}
  /\ state \in [Procs -> States]
  /\ oncpu \in [Procs -> Int]
  /\ chan \in [Procs -> Chans]
  /\ pc \in [Procs -> Locations]
  /\ pending_signals \in [Procs -> SignalQueues]
  /\ DOMAIN dests = Procs
  /\ DOMAIN rtail = Procs
  /\ DOMAIN rchan = Procs
  /\ \A p \in Procs : pc[p] \in PostSteps => Head(dests[p]) \in Procs

(* A quiet step preserves the synchronisation invariant.                   *)
LEMMA QuietSafe ==
  ASSUME Sync, SyncType, NEW p \in Procs, QuietStep(p)
  PROVE  Sync'
<1>1. LockInv'
  BY Zenon DEF Sync, SyncType, QuietStep, Quiet, procVars, LockInv, PostSteps
<1>2. StateInv'
  BY Zenon DEF Sync, SyncType, QuietStep, Quiet, procVars, StateInv
<1>3. RunsOnOneCpu'
  BY Zenon DEF Sync, QuietStep, procVars, RunsOnOneCpu
<1>4. PostInv'
  BY DEF Sync, SyncType, QuietStep, Quiet, procVars, PostInv
<1>5. PauseInv'
  <2>1. lock # p
    BY Zenon DEF Sync, QuietStep, Quiet, LockInv, PostSteps
  <2> QED
    BY <2>1 DEF Sync, SyncType, QuietStep, Quiet, procVars, PauseInv, NoSignal
<1> QED
  BY <1>1, <1>2, <1>3, <1>4, <1>5, Zenon DEF Sync

(* What executes is RUNNING.                                               *)
LEMMA ExecutingRuns ==
  ASSUME Sync, NEW p \in Procs, Executing(p)
  PROVE  state[p] = "RUNNING"
BY DEF Sync, RunsOnOneCpu, Executing

(* Sync is preserved by choosing a RUNNABLE process.                       *)
LEMMA Sync_scheduler ==
  ASSUME Sync, SyncType, NEW p \in Procs, scheduler(p)
  PROVE  Sync'
<1>1. /\ Free # p
      /\ lock = Free
      /\ state[p] = "RUNNABLE"
      /\ state'[p] = "RUNNING"
      /\ oncpu'[p] = oncpu[p] + 1
      /\ lock' = IF pc[p] \in {"recv", "paused"} THEN p ELSE Free
      /\ \A q \in Procs \ {p} : state'[q] = state[q] /\ oncpu'[q] = oncpu[q]
      /\ UNCHANGED <<chan, pending_signals, pc, dests, rtail, rchan>>
  BY Zenon DEF scheduler, queueVars, postVars, SyncType
<1>2. \A q \in Procs : lock # q /\ Free # q /\ pc[q] \notin PostSteps \cup {"pause"}
  BY <1>1, Zenon DEF Sync, SyncType, LockInv
<1>3. LockInv'
  BY <1>1, <1>2, Zenon DEF Sync, LockInv, PostSteps
<1>4. StateInv'
  BY <1>1, Zenon DEF Sync, StateInv
<1>5. RunsOnOneCpu'
  BY <1>1 DEF Sync, RunsOnOneCpu
<1>6. PostInv'
  BY <1>1, <1>2, Zenon DEF Sync, PostInv, PostSteps
<1>7. PauseInv'
  BY <1>1, <1>2, Zenon DEF Sync, PauseInv, NoSignal, PostSteps
<1> QED
  BY <1>3, <1>4, <1>5, <1>6, <1>7, Zenon DEF Sync

(* Sync is preserved by a timer interrupt.                                 *)
LEMMA Sync_yield ==
  ASSUME Sync, SyncType, NEW p \in Procs, yield(p)
  PROVE  Sync'
<1>1. /\ Free # p
      /\ lock = Free
      /\ state[p] = "RUNNING"
      /\ lock' = Free
      /\ state'[p] = "RUNNABLE"
      /\ oncpu'[p] = oncpu[p] - 1
      /\ pc'[p] = (IF pc[p] = "user" THEN "ret" ELSE pc[p])
      /\ \A q \in Procs \ {p} : state'[q] = state[q] /\ oncpu'[q] = oncpu[q] /\ pc'[q] = pc[q]
      /\ UNCHANGED <<chan, pending_signals, dests, rtail, rchan>>
  BY Zenon DEF yield, sched, Goto, queueVars, postVars, SyncType
<1>2. \A q \in Procs : lock # q /\ Free # q /\ pc[q] \notin PostSteps \cup {"pause"}
  BY <1>1, Zenon DEF Sync, SyncType, LockInv
<1>3. LockInv'
  BY <1>1, <1>2, Zenon DEF Sync, LockInv, PostSteps
<1>4. StateInv'
  BY <1>1 DEF Sync, StateInv
<1>5. RunsOnOneCpu'
  BY <1>1 DEF Sync, RunsOnOneCpu
<1>6. PostInv'
  <2>1. \A q \in Procs : pc'[q] \notin {"store", "wake", "set"}
    BY <1>1, <1>2, Zenon DEF PostSteps
  <2> QED
    BY <2>1, Zenon DEF PostInv
<1>7. PauseInv'
  BY <1>1, <1>2, Zenon DEF Sync, PauseInv, NoSignal, PostSteps
<1> QED
  BY <1>3, <1>4, <1>5, <1>6, <1>7, Zenon DEF Sync

(* Sync is preserved by entering a system call.                            *)
LEMMA Sync_trap ==
  ASSUME Sync, SyncType, NEW p \in Procs, trap(p)
  PROVE  Sync'
<1>1. QuietStep(p)
  BY Zenon DEF QuietStep, Quiet, SyncType, trap, Goto, queueVars, postVars
<1> QED
  BY <1>1, QuietSafe, Zenon

(* Sync is preserved by the end of trap.                                   *)
LEMMA Sync_TrapEnd ==
  ASSUME Sync, SyncType, NEW p \in Procs, TrapEnd(p)
  PROVE  Sync'
<1>1. QuietStep(p)
  BY Zenon DEF QuietStep, Quiet, SyncType, TrapEnd, Goto, queueVars, postVars
<1> QED
  BY <1>1, QuietSafe, Zenon

(* Sync is preserved by returning to user space.                           *)
LEMMA Sync_trapret ==
  ASSUME Sync, SyncType, NEW p \in Procs, trapret(p)
  PROVE  Sync'
<1>1. QuietStep(p)
  BY Zenon DEF QuietStep, Quiet, SyncType, trapret, Goto, queueVars, postVars
<1> QED
  BY <1>1, QuietSafe, Zenon

(* Sync is preserved by sig_ret.                                           *)
LEMMA Sync_ret_signal ==
  ASSUME Sync, SyncType, NEW p \in Procs, ret_signal(p)
  PROVE  Sync'
<1>1. QuietStep(p)
  BY Zenon DEF QuietStep, Quiet, SyncType, ret_signal, InCall, Goto, queueVars, postVars
<1> QED
  BY <1>1, QuietSafe, Zenon

(* Sync is preserved by the start of a multicast.                          *)
LEMMA Sync_send_multicast ==
  ASSUME Sync, SyncType, NEW p \in Procs, NEW list \in DestLists, NEW m \in Msgs,
         send_multicast(p, list, m)
  PROVE  Sync'
<1>1. QuietStep(p)
  BY Zenon DEF QuietStep, Quiet, SyncType, send_multicast, InCall, Goto, queueVars
<1> QED
  BY <1>1, QuietSafe, Zenon

(* Sync is preserved by the delivery of a signal.                          *)
LEMMA Sync_handle_signals ==
  ASSUME Sync, SyncType, NEW p \in Procs, handle_signals(p)
  PROVE  Sync'
<1>1. /\ Free # p
      /\ pc[p] = "trapret"
      /\ pc'[p] = "user"
      /\ \A q \in Procs : pending_signals'[q].tail = pending_signals[q].tail
      /\ \A q \in Procs \ {p} : pc'[q] = pc[q] /\ pending_signals'[q] = pending_signals[q]
      /\ UNCHANGED <<lock, state, oncpu, chan, dests, rtail, rchan>>
  BY Zenon DEF handle_signals, SyncType, SignalQueues, Goto, procVars, postVars
<1>3. LockInv'
  BY <1>1, Zenon DEF Sync, LockInv, PostSteps
<1>4. StateInv'
  BY <1>1, Zenon DEF Sync, StateInv
<1>5. RunsOnOneCpu'
  BY <1>1, Zenon DEF Sync, RunsOnOneCpu
<1>6. PostInv'
  BY <1>1 DEF Sync, PostInv, PostSteps, SyncType
<1>7. PauseInv'
  BY <1>1, Zenon DEF Sync, PauseInv, NoSignal, PostSteps
<1> QED
  BY <1>3, <1>4, <1>5, <1>6, <1>7, Zenon DEF Sync

(* Sync is preserved by a unicast.                                         *)
LEMMA Sync_send_mess ==
  ASSUME Sync, SyncType, NEW p \in Procs, NEW q \in Procs, NEW m \in Msgs, send_mess(p, q, m)
  PROVE  Sync'
<1>0. Executing(p)
  BY Zenon DEF send_mess, InCall
<1>1. /\ Free # p
      /\ pc[p] = "call"
      /\ lock = Free
      /\ state[p] = "RUNNING"
      /\ pc'[p] = "ret"
      /\ \A r \in Procs :
           state'[r] = IF r = q /\ state[r] = "SLEEPING" THEN "RUNNABLE" ELSE state[r]
      /\ \A r \in Procs \ {p} : pc'[r] = pc[r]
      /\ UNCHANGED <<lock, oncpu, chan, pending_signals, dests, rtail, rchan>>
  BY <1>0, ExecutingRuns, Zenon DEF send_mess, wakeup1, InCall, Goto, postVars, SyncType
<1>2. \A r \in Procs : lock # r /\ Free # r /\ pc[r] \notin PostSteps \cup {"pause"}
  BY <1>1, Zenon DEF Sync, SyncType, LockInv
<1>3. LockInv'
  BY <1>1, <1>2, Zenon DEF Sync, LockInv, PostSteps
<1>4. StateInv'
  BY <1>1 DEF Sync, StateInv
<1>5. RunsOnOneCpu'
  BY <1>1, Zenon DEF Sync, RunsOnOneCpu
<1>6. PostInv'
  <2>1. \A r \in Procs : pc'[r] \notin {"store", "wake", "set"}
    BY <1>1, <1>2, Zenon DEF PostSteps
  <2> QED
    BY <2>1, Zenon DEF PostInv
<1>7. PauseInv'
  BY <1>1, <1>2, Zenon DEF Sync, PauseInv, NoSignal, PostSteps
<1> QED
  BY <1>3, <1>4, <1>5, <1>6, <1>7, Zenon DEF Sync

(* Sync is preserved by a kill.                                            *)
LEMMA Sync_kill ==
  ASSUME Sync, SyncType, NEW p \in Procs, NEW q \in Procs, kill(p, q)
  PROVE  Sync'
<1>0. Executing(p)
  BY Zenon DEF kill, InCall
<1>1. /\ Free # p
      /\ pc[p] = "call"
      /\ lock = Free
      /\ state[p] = "RUNNING"
      /\ pc'[p] = "ret"
      /\ \A r \in Procs :
           state'[r] = IF r = q /\ state[r] = "SLEEPING" THEN "RUNNABLE" ELSE state[r]
      /\ \A r \in Procs \ {p} : pc'[r] = pc[r]
      /\ UNCHANGED <<lock, oncpu, chan, pending_signals, dests, rtail, rchan>>
  BY <1>0, ExecutingRuns, Zenon DEF kill, InCall, Goto, queueVars, postVars, SyncType
<1>2. \A r \in Procs : lock # r /\ Free # r /\ pc[r] \notin PostSteps \cup {"pause"}
  BY <1>1, Zenon DEF Sync, SyncType, LockInv
<1>3. LockInv'
  BY <1>1, <1>2, Zenon DEF Sync, LockInv, PostSteps
<1>4. StateInv'
  BY <1>1 DEF Sync, StateInv
<1>5. RunsOnOneCpu'
  BY <1>1, Zenon DEF Sync, RunsOnOneCpu
<1>6. PostInv'
  <2>1. \A r \in Procs : pc'[r] \notin {"store", "wake", "set"}
    BY <1>1, <1>2, Zenon DEF PostSteps
  <2> QED
    BY <2>1, Zenon DEF PostInv
<1>7. PauseInv'
  BY <1>1, <1>2, Zenon DEF Sync, PauseInv, NoSignal, PostSteps
<1> QED
  BY <1>3, <1>4, <1>5, <1>6, <1>7, Zenon DEF Sync

(* Sync is preserved by recv going to sleep.                               *)
LEMMA Sync_RecvSleep ==
  ASSUME Sync, SyncType, NEW p \in Procs, RecvEnter(p), RecvSleep(p)
  PROVE  Sync'
<1>0. Executing(p)
  BY Zenon DEF RecvEnter
<1>1. /\ Free # p
      /\ (pc[p] = "call" /\ lock = Free) \/ (pc[p] = "recv" /\ lock = p)
      /\ state[p] = "RUNNING"
      /\ lock' = Free
      /\ pc'[p] = "recv"
      /\ state'[p] = "SLEEPING"
      /\ chan'[p] = "recv_queue"
      /\ oncpu'[p] = oncpu[p] - 1
      /\ \A q \in Procs \ {p} :
           pc'[q] = pc[q] /\ state'[q] = state[q] /\ chan'[q] = chan[q] /\ oncpu'[q] = oncpu[q]
      /\ UNCHANGED <<pending_signals, dests, rtail, rchan>>
  BY <1>0, ExecutingRuns, Zenon DEF RecvEnter, RecvSleep, sleep, sched, Goto, postVars, SyncType
<1>2. \A q \in Procs \ {p} : lock # q /\ Free # q /\ pc[q] \notin PostSteps \cup {"pause"}
  BY <1>1, Zenon DEF Sync, SyncType, LockInv
<1>3. LockInv'
  BY <1>1, <1>2, Zenon DEF Sync, LockInv, PostSteps
<1>4. StateInv'
  BY <1>1 DEF Sync, StateInv
<1>5. RunsOnOneCpu'
  BY <1>1 DEF Sync, RunsOnOneCpu
<1>6. PostInv'
  <2>1. \A q \in Procs : pc'[q] \notin {"store", "wake", "set"}
    BY <1>1, <1>2, Zenon DEF PostSteps
  <2> QED
    BY <2>1, Zenon DEF PostInv
<1>7. PauseInv'
  BY <1>1, <1>2, Zenon DEF Sync, PauseInv, NoSignal, PostSteps
<1> QED
  BY <1>3, <1>4, <1>5, <1>6, <1>7, Zenon DEF Sync

(* Sync is preserved by recv taking a message.                             *)
LEMMA Sync_RecvTake ==
  ASSUME Sync, SyncType, NEW p \in Procs, RecvEnter(p), RecvTake(p)
  PROVE  Sync'
<1>0. Executing(p)
  BY Zenon DEF RecvEnter
<1>1. /\ Free # p
      /\ (pc[p] = "call" /\ lock = Free) \/ (pc[p] = "recv" /\ lock = p)
      /\ state[p] = "RUNNING"
      /\ lock' = Free
      /\ pc'[p] = "ret"
      /\ chan'[p] = "0"
      /\ \A q \in Procs \ {p} :
           pc'[q] = pc[q] /\ chan'[q] = chan[q]
      /\ UNCHANGED <<state, oncpu, pending_signals, dests, rtail, rchan>>
  BY <1>0, ExecutingRuns, Zenon DEF RecvEnter, RecvTake, Goto, postVars, SyncType
<1>2. \A q \in Procs \ {p} : lock # q /\ Free # q /\ pc[q] \notin PostSteps \cup {"pause"}
  BY <1>1, Zenon DEF Sync, SyncType, LockInv
<1>3. LockInv'
  BY <1>1, <1>2, Zenon DEF Sync, LockInv, PostSteps
<1>4. StateInv'
  BY <1>1 DEF Sync, StateInv
<1>5. RunsOnOneCpu'
  BY <1>1, Zenon DEF Sync, RunsOnOneCpu
<1>6. PostInv'
  <2>1. \A q \in Procs : pc'[q] \notin {"store", "wake", "set"}
    BY <1>1, <1>2, Zenon DEF PostSteps
  <2> QED
    BY <2>1, Zenon DEF PostInv
<1>7. PauseInv'
  BY <1>1, <1>2, Zenon DEF Sync, PauseInv, NoSignal, PostSteps
<1> QED
  BY <1>3, <1>4, <1>5, <1>6, <1>7, Zenon DEF Sync

(* Sync is preserved by an exit.                                           *)
LEMMA Sync_Exit ==
  ASSUME Sync, SyncType, NEW p \in Procs, ExitEnter(p), Exit(p)
  PROVE  Sync'
<1>0. Executing(p)
  BY Zenon DEF ExitEnter
<1>1. /\ Free # p
      /\ pc[p] \in {"user", "call", "ret"}
      /\ lock = Free
      /\ state[p] = "RUNNING"
      /\ lock' = Free
      /\ pc'[p] = "exited"
      /\ state'[p] = "ZOMBIE"
      /\ oncpu'[p] = oncpu[p] - 1
      /\ \A q \in Procs \ {p} : pc'[q] = pc[q] /\ state'[q] = state[q] /\ oncpu'[q] = oncpu[q]
      /\ UNCHANGED <<chan, pending_signals, dests, rtail, rchan>>
  BY <1>0, ExecutingRuns, Zenon DEF ExitEnter, Exit, sched, Goto, queueVars, postVars, SyncType
<1>2. \A q \in Procs : lock # q /\ Free # q /\ pc[q] \notin PostSteps \cup {"pause"}
  BY <1>1, Zenon DEF Sync, SyncType, LockInv
<1>3. LockInv'
  BY <1>1, <1>2, Zenon DEF Sync, LockInv, PostSteps
<1>4. StateInv'
  BY <1>1 DEF Sync, StateInv
<1>5. RunsOnOneCpu'
  BY <1>1 DEF Sync, RunsOnOneCpu
<1>6. PostInv'
  <2>1. \A q \in Procs : pc'[q] \notin {"store", "wake", "set"}
    BY <1>1, <1>2, Zenon DEF PostSteps
  <2> QED
    BY <2>1, Zenon DEF PostInv
<1>7. PauseInv'
  BY <1>1, <1>2, Zenon DEF Sync, PauseInv, NoSignal, PostSteps
<1> QED
  BY <1>3, <1>4, <1>5, <1>6, <1>7, Zenon DEF Sync

(* Sync is preserved by sig_pause finding no signal.                       *)
LEMMA Sync_pause_signal_sleeps ==
  ASSUME Sync, SyncType, NEW p \in Procs, pause_signal(p), NoSignal(p)
  PROVE  Sync'
<1>0. Executing(p)
  BY Zenon DEF pause_signal, InCall
<1>1. /\ Free # p
      /\ pc[p] = "call"
      /\ lock = Free
      /\ state[p] = "RUNNING"
      /\ NoSignal(p)
      /\ lock' = p
      /\ pc'[p] = "pause"
      /\ \A q \in Procs \ {p} : pc'[q] = pc[q]
      /\ UNCHANGED <<state, oncpu, chan, pending_signals, dests, rtail, rchan>>
  BY <1>0, ExecutingRuns, Zenon DEF pause_signal, InCall, Goto, procVars, queueVars, postVars,
     SyncType
<1>2. \A q \in Procs : lock # q /\ Free # q /\ pc[q] \notin PostSteps \cup {"pause"}
  BY <1>1, Zenon DEF Sync, SyncType, LockInv
<1>3. LockInv'
  BY <1>1, <1>2, Zenon DEF Sync, LockInv, PostSteps
<1>4. StateInv'
  BY <1>1, Zenon DEF Sync, StateInv
<1>5. RunsOnOneCpu'
  BY <1>1, Zenon DEF Sync, RunsOnOneCpu
<1>6. PostInv'
  <2>1. \A q \in Procs : pc'[q] \notin {"store", "wake", "set"}
    BY <1>1, <1>2, Zenon DEF PostSteps
  <2> QED
    BY <2>1, Zenon DEF PostInv
<1>7. PauseInv'
  BY <1>1, <1>2, Zenon DEF Sync, PauseInv, NoSignal, PostSteps
<1> QED
  BY <1>3, <1>4, <1>5, <1>6, <1>7, Zenon DEF Sync

(* Sync is preserved by sig_pause finding a signal.                        *)
LEMMA Sync_pause_signal_returns ==
  ASSUME Sync, SyncType, NEW p \in Procs, pause_signal(p), ~ NoSignal(p)
  PROVE  Sync'
<1>1. QuietStep(p)
  BY Zenon DEF QuietStep, Quiet, SyncType, pause_signal, InCall, Goto, queueVars, postVars
<1> QED
  BY <1>1, QuietSafe, Zenon

(* Sync is preserved by sig_pause going to sleep.                          *)
LEMMA Sync_PauseSleep ==
  ASSUME Sync, SyncType, NEW p \in Procs, PauseSleep(p)
  PROVE  Sync'
<1>1. /\ Free # p
      /\ pc[p] = "pause"
      /\ lock = p
      /\ state[p] = "RUNNING"
      /\ lock' = Free
      /\ pc'[p] = "paused"
      /\ state'[p] = "SLEEPING"
      /\ chan'[p] = "pending_signals"
      /\ oncpu'[p] = oncpu[p] - 1
      /\ \A q \in Procs \ {p} :
           pc'[q] = pc[q] /\ state'[q] = state[q] /\ chan'[q] = chan[q] /\ oncpu'[q] = oncpu[q]
      /\ UNCHANGED <<pending_signals, dests, rtail, rchan>>
  BY Zenon DEF Sync, PauseSleep, sleep, sched, Goto, queueVars, postVars, LockInv, PostSteps,
     SyncType
<1>2. \A q \in Procs \ {p} : lock # q /\ Free # q /\ pc[q] \notin PostSteps \cup {"pause"}
  BY <1>1, Zenon DEF Sync, SyncType, LockInv
<1>3. LockInv'
  BY <1>1, <1>2, Zenon DEF Sync, LockInv, PostSteps
<1>4. StateInv'
  BY <1>1 DEF Sync, StateInv
<1>5. RunsOnOneCpu'
  BY <1>1 DEF Sync, RunsOnOneCpu
<1>6. PostInv'
  <2>1. ASSUME NEW q \in Procs PROVE pc'[q] \notin {"store", "wake", "set"}
    <3>1. CASE q = p
      BY <1>1, <3>1, Zenon
    <3>2. CASE q # p
      <4>1. pc'[q] = pc[q]
        BY <1>1, <3>2, Zenon
      <4> QED
        BY <1>2, <3>2, <4>1, Zenon DEF PostSteps
    <3> QED
      BY <3>1, <3>2, Zenon
  <2> QED
    BY <2>1, Zenon DEF PostInv
<1>7. PauseInv'
  BY <1>1, <1>2, Zenon DEF Sync, PauseInv, NoSignal, PostSteps
<1> QED
  BY <1>3, <1>4, <1>5, <1>6, <1>7, Zenon DEF Sync

(* Sync is preserved by the end of the pause.                              *)
LEMMA Sync_PauseResume ==
  ASSUME Sync, SyncType, NEW p \in Procs, PauseResume(p)
  PROVE  Sync'
<1>0. Executing(p)
  BY Zenon DEF PauseResume
<1>1. /\ Free # p
      /\ pc[p] = "paused"
      /\ lock = p
      /\ state[p] = "RUNNING"
      /\ lock' = Free
      /\ pc'[p] = "ret"
      /\ chan'[p] = "0"
      /\ \A q \in Procs \ {p} : pc'[q] = pc[q] /\ chan'[q] = chan[q]
      /\ UNCHANGED <<state, oncpu, pending_signals, dests, rtail, rchan>>
  BY <1>0, ExecutingRuns, Zenon DEF PauseResume, Goto, queueVars, postVars, SyncType
<1>2. \A q \in Procs \ {p} : lock # q /\ Free # q /\ pc[q] \notin PostSteps \cup {"pause"}
  BY <1>1, Zenon DEF Sync, SyncType, LockInv
<1>3. LockInv'
  BY <1>1, <1>2, Zenon DEF Sync, LockInv, PostSteps
<1>4. StateInv'
  BY <1>1, Zenon DEF Sync, StateInv
<1>5. RunsOnOneCpu'
  BY <1>1, Zenon DEF Sync, RunsOnOneCpu
<1>6. PostInv'
  <2>1. \A q \in Procs : pc'[q] \notin {"store", "wake", "set"}
    BY <1>1, <1>2, Zenon DEF PostSteps
  <2> QED
    BY <2>1, Zenon DEF PostInv
<1>7. PauseInv'
  BY <1>1, <1>2, Zenon DEF Sync, PauseInv, NoSignal, PostSteps
<1> QED
  BY <1>3, <1>4, <1>5, <1>6, <1>7, Zenon DEF Sync

(* Sync is preserved by a multicast queueing its message.                  *)
LEMMA Sync_MulticastNext ==
  ASSUME Sync, SyncType, NEW p \in Procs, MulticastNext(p)
  PROVE  Sync'
<1>0. Executing(p)
  BY Zenon DEF MulticastNext
<1>1. /\ Free # p
      /\ pc[p] = "next"
      /\ lock = Free
      /\ state[p] = "RUNNING"
      /\ lock' = p
      /\ pc'[p] = "post"
      /\ \A q \in Procs \ {p} : pc'[q] = pc[q]
      /\ UNCHANGED <<state, oncpu, chan, pending_signals, dests, rtail, rchan>>
  BY <1>0, ExecutingRuns, Zenon DEF MulticastNext, Goto, procVars, postVars, SyncType
<1>2. \A q \in Procs : lock # q /\ Free # q /\ pc[q] \notin PostSteps \cup {"pause"}
  BY <1>1, Zenon DEF Sync, SyncType, LockInv
<1>3. LockInv'
  BY <1>1, <1>2, Zenon DEF Sync, LockInv, PostSteps
<1>4. StateInv'
  BY <1>1, Zenon DEF Sync, StateInv
<1>5. RunsOnOneCpu'
  BY <1>1, Zenon DEF Sync, RunsOnOneCpu
<1>6. PostInv'
  <2>1. \A q \in Procs : pc'[q] \notin {"store", "wake", "set"}
    BY <1>1, <1>2, Zenon DEF PostSteps
  <2> QED
    BY <2>1, Zenon DEF PostInv
<1>7. PauseInv'
  BY <1>1, <1>2, Zenon DEF Sync, PauseInv, NoSignal, PostSteps
<1> QED
  BY <1>3, <1>4, <1>5, <1>6, <1>7, Zenon DEF Sync

(* Sync is preserved by send_signal reading the tail.                      *)
LEMMA Sync_SignalLoadTail ==
  ASSUME Sync, SyncType, NEW p \in Procs, SignalLoadTail(p)
  PROVE  Sync'
<1>1. /\ Free # p
      /\ pc[p] = "post"
      /\ lock = p
      /\ state[p] = "RUNNING"
      /\ pc'[p] = "store"
      /\ rtail'[p] = pending_signals[Head(dests[p])].tail
      /\ \A q \in Procs \ {p} : pc'[q] = pc[q] /\ rtail'[q] = rtail[q]
      /\ UNCHANGED <<lock, state, oncpu, chan, pending_signals, dests, rchan>>
  BY Zenon DEF Sync, SignalLoadTail, Goto, procVars, queueVars, LockInv, PostSteps, SyncType
<1>2. \A q \in Procs \ {p} : lock # q /\ Free # q /\ pc[q] \notin PostSteps \cup {"pause"}
  BY <1>1, Zenon DEF Sync, SyncType, LockInv
<1>3. LockInv'
  BY <1>1, <1>2, Zenon DEF Sync, LockInv, PostSteps
<1>4. StateInv'
  BY <1>1, Zenon DEF Sync, StateInv
<1>5. RunsOnOneCpu'
  BY <1>1, Zenon DEF Sync, RunsOnOneCpu
<1>6. PostInv'
  BY <1>1, <1>2 DEF Sync, PostInv, PostSteps
<1>7. PauseInv'
  BY <1>1, <1>2, Zenon DEF Sync, PauseInv, NoSignal, PostSteps
<1> QED
  BY <1>3, <1>4, <1>5, <1>6, <1>7, Zenon DEF Sync

(* Sync is preserved by send_signal storing the tail.                      *)
LEMMA Sync_SignalStoreTail ==
  ASSUME Sync, SyncType, NEW p \in Procs, SignalStoreTail(p)
  PROVE  Sync'
<1>1. /\ Free # p
      /\ pc[p] = "store"
      /\ lock = p
      /\ state[p] = "RUNNING"
      /\ pc'[p] = "chan"
      /\ \A q \in Procs \ {Head(dests[p])} : pending_signals'[q] = pending_signals[q]
      /\ \A q \in Procs : pc[q] = "store" => q = p
      /\ \A q \in Procs \ {p} : pc'[q] = pc[q]
      /\ UNCHANGED <<lock, state, oncpu, chan, dests, rchan>>
  BY Zenon DEF Sync, SignalStoreTail, SyncType, Goto, procVars, LockInv, PostSteps
<1>2. \A q \in Procs \ {p} : lock # q /\ Free # q /\ pc[q] \notin PostSteps \cup {"pause"}
  BY <1>1, Zenon DEF Sync, SyncType, LockInv
<1>3. LockInv'
  BY <1>1, <1>2, Zenon DEF Sync, LockInv, PostSteps
<1>4. StateInv'
  BY <1>1, Zenon DEF Sync, StateInv
<1>5. RunsOnOneCpu'
  BY <1>1, Zenon DEF Sync, RunsOnOneCpu
<1>6. PostInv'
  <2>1. \A q \in Procs : pc'[q] \notin {"store", "wake", "set"}
    BY <1>1, <1>2, Zenon DEF PostSteps
  <2> QED
    BY <2>1, Zenon DEF PostInv
<1>7. PauseInv'
  BY <1>1, <1>2 DEF Sync, PauseInv, NoSignal, PostSteps
<1> QED
  BY <1>3, <1>4, <1>5, <1>6, <1>7, Zenon DEF Sync

(* Sync is preserved by send_signal reading chan.                          *)
LEMMA Sync_SignalLoadChan ==
  ASSUME Sync, SyncType, NEW p \in Procs, SignalLoadChan(p)
  PROVE  Sync'
<1>1. /\ Free # p
      /\ pc[p] = "chan"
      /\ lock = p
      /\ state[p] = "RUNNING"
      /\ pc'[p] = "wake"
      /\ rchan'[p] = chan[Head(dests[p])]
      /\ \A q \in Procs \ {p} : pc'[q] = pc[q] /\ rchan'[q] = rchan[q]
      /\ UNCHANGED <<lock, state, oncpu, chan, pending_signals, dests, rtail>>
  BY Zenon DEF Sync, SignalLoadChan, Goto, procVars, queueVars, LockInv, PostSteps, SyncType
<1>2. \A q \in Procs \ {p} : lock # q /\ Free # q /\ pc[q] \notin PostSteps \cup {"pause"}
  BY <1>1, Zenon DEF Sync, SyncType, LockInv
<1>3. LockInv'
  BY <1>1, <1>2, Zenon DEF Sync, LockInv, PostSteps
<1>4. StateInv'
  BY <1>1, Zenon DEF Sync, StateInv
<1>5. RunsOnOneCpu'
  BY <1>1, Zenon DEF Sync, RunsOnOneCpu
<1>6. PostInv'
  BY <1>1, <1>2, Zenon DEF Sync, PostInv, PostSteps
<1>7. PauseInv'
  BY <1>1, <1>2, Zenon DEF Sync, PauseInv, NoSignal, PostSteps
<1> QED
  BY <1>3, <1>4, <1>5, <1>6, <1>7, Zenon DEF Sync

(* Sync is preserved by wakeup1 seeing the receiver asleep.                *)
LEMMA Sync_SignalTest_asleep ==
  ASSUME Sync, SyncType, NEW p \in Procs, SignalTest(p), pc'[p] = "set"
  PROVE  Sync'
<1>1. /\ Free # p
      /\ pc[p] = "wake"
      /\ lock = p
      /\ state[p] = "RUNNING"
      /\ state[Head(dests[p])] = "SLEEPING"
      /\ pc'[p] = "set"
      /\ \A q \in Procs \ {p} : pc'[q] = pc[q]
      /\ UNCHANGED <<lock, state, oncpu, chan, pending_signals, dests, rtail, rchan>>
  BY Zenon DEF Sync, SignalTest, SignalDone, SyncType, Goto, procVars, queueVars, LockInv, PostSteps
<1>2. \A q \in Procs \ {p} : lock # q /\ Free # q /\ pc[q] \notin PostSteps \cup {"pause"}
  BY <1>1, Zenon DEF Sync, SyncType, LockInv
<1>3. LockInv'
  BY <1>1, <1>2, Zenon DEF Sync, LockInv, PostSteps
<1>4. StateInv'
  BY <1>1, Zenon DEF Sync, StateInv
<1>5. RunsOnOneCpu'
  BY <1>1, Zenon DEF Sync, RunsOnOneCpu
<1>6. PostInv'
  BY <1>1, <1>2, Zenon DEF Sync, PostInv, PostSteps
<1>7. PauseInv'
  BY <1>1, <1>2, Zenon DEF Sync, PauseInv, NoSignal, PostSteps
<1> QED
  BY <1>3, <1>4, <1>5, <1>6, <1>7, Zenon DEF Sync

(* Sync is preserved by wakeup1 seeing it awake.                           *)
LEMMA Sync_SignalTest_awake ==
  ASSUME Sync, SyncType, NEW p \in Procs, SignalTest(p), pc'[p] # "set"
  PROVE  Sync'
<1>1. /\ Free # p
      /\ pc[p] = "wake"
      /\ lock = p
      /\ state[p] = "RUNNING"
      /\ lock' = Free
      /\ ~ (state[Head(dests[p])] = "SLEEPING" /\ chan[Head(dests[p])] = rchan[p])
      /\ pc'[p] \in {"next", "ret"}
      /\ \A q \in Procs \ {p} : pc'[q] = pc[q] /\ dests'[q] = dests[q] /\ rchan'[q] = rchan[q]
      /\ UNCHANGED <<state, oncpu, chan, pending_signals, rtail>>
  BY Zenon DEF Sync, SignalTest, SignalDone, SyncType, Goto, procVars, queueVars, LockInv, PostSteps
<1>2. \A q \in Procs \ {p} : lock # q /\ Free # q /\ pc[q] \notin PostSteps \cup {"pause"}
  BY <1>1, Zenon DEF Sync, SyncType, LockInv
<1>3. LockInv'
  BY <1>1, <1>2, ZenonT(30), Zenon DEF Sync, LockInv, PostSteps
<1>4. StateInv'
  BY <1>1, Zenon DEF Sync, StateInv
<1>5. RunsOnOneCpu'
  BY <1>1, Zenon DEF Sync, RunsOnOneCpu
<1>6. PostInv'
  <2>1. \A q \in Procs : pc'[q] \notin {"store", "wake", "set"}
    BY <1>1, <1>2 DEF PostSteps
  <2> QED
    BY <2>1, Zenon DEF PostInv
<1>7. PauseInv'
  <2>1. state[Head(dests[p])] # "SLEEPING"
    BY <1>1, Zenon DEF Sync, PostInv
  <2> QED
    BY <1>1, <1>2, <2>1, Zenon DEF Sync, PauseInv, NoSignal, PostSteps
<1> QED
  BY <1>3, <1>4, <1>5, <1>6, <1>7, Zenon DEF Sync

(* Sync is preserved by wakeup1 making it RUNNABLE.                        *)
LEMMA Sync_SignalWake ==
  ASSUME Sync, SyncType, NEW p \in Procs, SignalWake(p)
  PROVE  Sync'
<1>1. /\ Free # p
      /\ pc[p] = "set"
      /\ lock = p
      /\ state[p] = "RUNNING"
      /\ lock' = Free
      /\ state[Head(dests[p])] = "SLEEPING"
      /\ \A r \in Procs : state'[r] = IF r = Head(dests[p]) THEN "RUNNABLE" ELSE state[r]
      /\ pc'[p] \in {"next", "ret"}
      /\ \A q \in Procs \ {p} : pc'[q] = pc[q] /\ dests'[q] = dests[q] /\ rchan'[q] = rchan[q]
      /\ UNCHANGED <<oncpu, chan, pending_signals, rtail>>
  BY Zenon DEF Sync, SignalWake, SignalDone, SyncType, Goto, queueVars, PostInv, LockInv, PostSteps
<1>2. \A q \in Procs \ {p} : lock # q /\ Free # q /\ pc[q] \notin PostSteps \cup {"pause"}
  BY <1>1, Zenon DEF Sync, SyncType, LockInv
<1>3. LockInv'
  BY <1>1, <1>2, Zenon DEF Sync, LockInv, PostSteps
<1>4. StateInv'
  <2>1. \A r \in Procs :
          state'[r] = state[r] \/ (state[r] = "SLEEPING" /\ state'[r] = "RUNNABLE" /\ r # p)
    BY <1>1, Zenon
  <2>2. pc[p] \notin {"recv", "paused", "exited"} /\ pc'[p] \notin {"recv", "paused", "exited"}
    BY <1>1, Zenon
  <2>3. \A r \in Procs \ {p} : pc'[r] = pc[r]
    BY <1>1, Zenon
  <2>4. state[p] = "RUNNING" /\ chan' = chan
    BY <1>1, Zenon
  <2> QED
    BY <2>1, <2>2, <2>3, <2>4, Zenon DEF Sync, StateInv
<1>5. RunsOnOneCpu'
  BY <1>1, Zenon DEF Sync, RunsOnOneCpu
<1>6. PostInv'
  <2>1. ASSUME NEW q \in Procs PROVE pc'[q] \notin {"store", "wake", "set"}
    <3>1. CASE q = p
      BY <1>1, <3>1, Zenon
    <3>2. CASE q # p
      <4>1. pc'[q] = pc[q]
        BY <1>1, <3>2, Zenon
      <4> QED
        BY <1>2, <3>2, <4>1, Zenon DEF PostSteps
    <3> QED
      BY <3>1, <3>2, Zenon
  <2> QED
    BY <2>1, Zenon DEF PostInv
<1>7. PauseInv'
  BY <1>1, <1>2, Zenon DEF Sync, PauseInv, NoSignal, PostSteps
<1> QED
  BY <1>3, <1>4, <1>5, <1>6, <1>7, Zenon DEF Sync

(* A step that changes nothing preserves the synchronisation invariant.    *)
LEMMA Sync_stutter == Sync /\ UNCHANGED vars => Sync'
<1> SUFFICES ASSUME Sync, UNCHANGED vars PROVE Sync'
  BY Zenon
<1>1. UNCHANGED <<lock, procVars, pending_signals, pc, dests, rtail, rchan>>
  BY Zenon DEF vars, procVars
<1>2. LockInv' /\ StateInv'
  BY <1>1, Zenon DEF Sync, procVars, LockInv, StateInv
<1>3. RunsOnOneCpu'
  BY <1>1, Zenon DEF Sync, procVars, RunsOnOneCpu
<1>4. PostInv' /\ PauseInv'
  BY <1>1, Zenon DEF Sync, procVars, PostInv, PauseInv, NoSignal
<1> QED
  BY <1>2, <1>3, <1>4, Zenon DEF Sync

(* Without sig_send every step preserves the synchronisation invariant.    *)
LEMMA SyncStep == NoSigSend /\ SyncInv /\ [Next]_vars => SyncInv'
<1> SUFFICES ASSUME NoSigSend, SyncInv, [Next]_vars PROVE SyncInv'
  BY Zenon
<1>1. Sync /\ SyncType /\ TypeInv
  BY IpcAssumption, ListFacts, Zenon DEF SyncInv, Sync, SyncType, TypeInv, TypeOK, DestsInv
<1>2. ASSUME NEW p \in Procs, SafeStep(p) PROVE Sync'
  BY <1>1, <1>2, Sync_scheduler, Sync_yield, Sync_trap, Sync_TrapEnd, Sync_trapret,
     Sync_ret_signal, Sync_send_multicast, Sync_handle_signals, Sync_send_mess,
     Sync_kill, Sync_RecvSleep, Sync_RecvTake, Sync_Exit, Sync_pause_signal_sleeps,
     Sync_pause_signal_returns, Sync_PauseSleep, Sync_PauseResume, Sync_MulticastNext,
     Sync_SignalLoadTail, Sync_SignalStoreTail, Sync_SignalLoadChan,
     Sync_SignalTest_asleep, Sync_SignalTest_awake, Sync_SignalWake DEF SafeStep
<1>3. Sync'
  BY <1>1, <1>2, Sync_stutter, NextIsSafe, Zenon
<1>4. TypeInv'
  BY <1>1, TypeStep, Zenon
<1> QED
  BY <1>3, <1>4, Zenon DEF SyncInv, Sync

(* The synchronisation invariant holds initially.                          *)
LEMMA SyncInit == Init => SyncInv
<1> SUFFICES ASSUME Init PROVE SyncInv
  BY Zenon
<1>1. TypeInv
  BY TypeInit, Zenon
<1> QED
  BY <1>1, IpcAssumption, Zenon
     DEF Init, SyncInv, LockInv, StateInv, RunsOnOneCpu, PostInv, PauseInv,
         PostSteps, EmptyRing, IsEmpty, NoSignal

(* The synchronisation invariant holds in every system without sig_send.   *)
LEMMA SyncCorrect == ASSUME NoSigSend PROVE Spec => []SyncInv
<1>1. SyncInv /\ [Next]_vars => SyncInv'
  BY SyncStep, Zenon
<1> QED
  BY <1>1, SyncInit, PTL DEF Spec

(* Without sig_send, a process asleep in pause_signal has no signal, or    *)
(* the multicast that posted it holds the lock and is about to wake it.    *)
THEOREM PauseSafe == ASSUME NoSigSend PROVE Spec => []PauseNoLostWakeup
<1>1. SyncInv => PauseNoLostWakeup
  <2> SUFFICES ASSUME SyncInv, NEW p \in Procs, state[p] = "SLEEPING",
                      chan[p] = "pending_signals", ~ NoSignal(p)
               PROVE  WakeupComing(p)
    BY Zenon DEF PauseNoLostWakeup
  <2>1. pc[p] = "paused"
    BY Zenon DEF SyncInv, StateInv, TypeInv, TypeOK
  <2>2. lock \in Procs /\ pc[lock] \in {"chan", "wake", "set"} /\ Head(dests[lock]) = p
    BY <2>1, Zenon DEF SyncInv, PauseInv
  <2>3. dests[lock] # <<>> /\ (pc[lock] = "wake" => rchan[lock] = chan[p])
    BY <2>2, Zenon DEF SyncInv, TypeInv, DestsInv, PostInv, PostSteps
  <2> QED
    BY <2>2, <2>3, Zenon DEF WakeupComing
<1> QED
  BY <1>1, SyncCorrect, PTL

(* Without sig_send, no process ever executes on two CPUs: a RUNNING       *)
(* process is never made RUNNABLE by a wakeup.                             *)
THEOREM OneCpu == ASSUME NoSigSend PROVE Spec => []RunsOnOneCpu
<1>1. SyncInv => RunsOnOneCpu
  BY Zenon DEF SyncInv
<1> QED
  BY <1>1, SyncCorrect, PTL

(* Without sig_send, an exited process stays a zombie: whoever is about to *)
(* store RUNNABLE in a process's state has seen it asleep under the lock.  *)
THEOREM ZombiesStay == ASSUME NoSigSend PROVE Spec => ZombieStays
<1> DEFINE Stays == \A p \in Procs : state[p] = "ZOMBIE" => state'[p] = "ZOMBIE"
<1>1. SyncInv /\ [Next]_vars => [Stays]_vars
  <2> SUFFICES ASSUME SyncInv, NEW p \in Procs, SafeStep(p) PROVE Stays
    BY NextIsSafe, Zenon
  <2> USE ListFacts DEF SyncInv, TypeInv, TypeOK, DestsInv, PostInv, RunsOnOneCpu, PostSteps,
          procVars, Executing
  <2>1. CASE scheduler(p)
    BY <2>1, Zenon DEF scheduler
  <2>2. CASE yield(p) \/ (ExitEnter(p) /\ Exit(p))
    BY <2>2, Zenon DEF yield, sched, ExitEnter, Exit
  <2>3. CASE RecvEnter(p) /\ (RecvSleep(p) \/ RecvTake(p))
    <3>1. CASE RecvSleep(p)
      <4>1. state' = [state EXCEPT ![p] = "SLEEPING"]
        BY <3>1, Zenon DEF RecvSleep, sleep, sched
      <4>2. state[p] = "RUNNING"
        BY <2>3, ExecutingRuns, Zenon DEF RecvEnter, Sync
      <4> QED
        BY <4>1, <4>2, Zenon
    <3>2. CASE RecvTake(p)
      BY <3>2, Zenon DEF RecvTake
    <3> QED
      BY <2>3, <3>1, <3>2, Zenon
  <2>4. CASE PauseSleep(p)
    BY <2>4, Zenon DEF PauseSleep, sleep, sched, LockInv
  <2>5. CASE SignalWake(p)
    BY <2>5, Zenon DEF SignalWake
  <2>6. CASE \E q \in Procs, m \in Msgs : send_mess(p, q, m)
    <3>1. PICK q \in Procs, m \in Msgs : send_mess(p, q, m)
      BY <2>6, Zenon
    <3>2. \A r \in Procs : state'[r] = state[r] \/ state[r] = "SLEEPING"
      BY <3>1, Zenon DEF send_mess, wakeup1
    <3> QED
      BY <3>2, Zenon
  <2>7. CASE \E q \in Procs : kill(p, q)
    <3>1. PICK q \in Procs : kill(p, q)
      BY <2>7, Zenon
    <3>2. \A r \in Procs : state'[r] = state[r] \/ state[r] = "SLEEPING"
      BY <3>1, Zenon DEF kill
    <3> QED
      BY <3>2, Zenon
  <2>8. CASE UNCHANGED state
    BY <2>8, Zenon
  <2> QED
    BY <2>1, <2>2, <2>3, <2>4, <2>5, <2>6, <2>7, <2>8, ZenonT(30)
       DEF SafeStep, trap, TrapEnd, PauseResume, MulticastNext, SignalLoadTail, SignalStoreTail,
           SignalLoadChan, SignalTest, handle_signals, trapret, pause_signal, ret_signal,
           send_multicast
<1> QED
  BY <1>1, SyncCorrect, PTL DEF Spec, ZombieStays
=============================================================================
