-------------------------------- MODULE Pipe --------------------------------
(***************************************************************************)
(* One pipe, its readers and its writers (pipe.c), with the part of file.c *)
(* that decides when an end is closed and the protocol of sleep and wakeup *)
(* for a lock other than ptable.lock (proc.c 440-497): sleep takes         *)
(* ptable.lock before it releases the lock of the pipe, and wakeup needs   *)
(* ptable.lock.                                                            *)
(*                                                                         *)
(* nread and nwrite are unsigned ints that count all bytes and wrap        *)
(* around.                                                                 *)
(***************************************************************************)
EXTENDS Integers, Sequences, FiniteSets

CONSTANTS
  Readers, Writers,  \* the processes that hold each end
  Bytes,
  Junk,              \* what the buffer holds before it is written
  Free,              \* a lock is not held
  PIPESIZE,          \* bytes in the buffer
  UINT,              \* the unsigned ints are 0 .. UINT - 1
  ReadSizes, WriteSizes,  \* bound: the n of the reads and of the writes
  Killable           \* bound: the processes that may be killed

Procs == Readers \cup Writers

ASSUME PipeAssumption ==
  /\ Readers \cap Writers = {}
  /\ Free \notin Procs
  /\ Junk \notin Bytes
  /\ PIPESIZE \in Nat \ {0} /\ UINT \in Nat
  /\ ReadSizes \cup WriteSizes \subseteq Nat
  /\ UINT % PIPESIZE = 0 /\ UINT > PIPESIZE

VARIABLES
  data, nread, nwrite, readopen, writeopen,  \* struct pipe
  freed,     \* the page of the pipe is back on the free list
  plock,     \* who holds p->lock
  tlock,     \* who holds ptable.lock
  pc,        \* where each process is
  n,         \* the bytes it still has to read or write
  chan,      \* what it sleeps on: "nread", "nwrite", or "0" if it is awake
  killed,    \* p->killed
  open,      \* the processes that have their end open
  got        \* the byte read last, and a bit that flips with every byte

pipeVars == <<data, nread, nwrite, readopen, writeopen, freed>>
vars == <<pipeVars, plock, tlock, pc, n, chan, killed, open, got>>

(* "acquire": at the acquire of a read or write.  "write", "read": in the  *)
(* loop of pipewrite, in the first loop of piperead.  "copy": in its       *)
(* second loop.  "sleep": has called sleep; "switch": sleep holds          *)
(* ptable.lock and has released p->lock; "asleep": asleep, or woken and    *)
(* not in possession of p->lock again.  "close": about to run pipeclose.   *)
Locations == {"user", "acquire", "write", "read", "copy", "sleep", "switch", "asleep", "close"}

Full == nwrite = (nread + PIPESIZE) % UINT
Empty == nread = nwrite

Goto(p, loc) == pc' = [pc EXCEPT ![p] = loc]

(* wakeup(chan), which needs ptable.lock for a moment.                     *)
wakeup(c) ==
  /\ tlock = Free
  /\ chan' = [p \in Procs |-> IF chan[p] = c THEN "0" ELSE chan[p]]

Holds(p) == plock = p

-----------------------------------------------------------------------------
Init ==
  /\ data = [i \in 0 .. (PIPESIZE - 1) |-> Junk]
  /\ nread = 0 /\ nwrite = 0
  /\ readopen = TRUE /\ writeopen = TRUE
  /\ freed = FALSE
  /\ plock = Free /\ tlock = Free
  /\ pc = [p \in Procs |-> "user"]
  /\ n = [p \in Procs |-> 0]
  /\ chan = [p \in Procs |-> "0"]
  /\ killed = [p \in Procs |-> FALSE]
  /\ open = Procs
  /\ got = [msg |-> Junk, flip |-> FALSE]

(* A read or a write of n bytes.                                           *)
Call(p) ==
  /\ pc[p] = "user"
  /\ p \in open
  /\ ~ killed[p]
  /\ \E k \in (IF p \in Readers THEN ReadSizes ELSE WriteSizes) : n' = [n EXCEPT ![p] = k]
  /\ Goto(p, "acquire")
  /\ UNCHANGED <<pipeVars, plock, tlock, chan, killed, open, got>>

(* The start of piperead and pipewrite.                                    *)
Acquire(p) ==
  /\ pc[p] = "acquire"
  /\ plock = Free
  /\ plock' = p
  /\ Goto(p, IF p \in Readers THEN "read" ELSE "write")
  /\ UNCHANGED <<pipeVars, tlock, n, chan, killed, open, got>>

(* Return from the call with the lock released.                            *)
Return(p) ==
  /\ plock' = Free
  /\ n' = [n EXCEPT ![p] = 0]
  /\ Goto(p, "user")

-----------------------------------------------------------------------------
(* pipewrite.                                                              *)

WriteByte(p) ==
  /\ pc[p] = "write" /\ Holds(p)
  /\ n[p] > 0
  /\ ~ Full
  /\ \E b \in Bytes : data' = [data EXCEPT ![nwrite % PIPESIZE] = b]
  /\ nwrite' = (nwrite + 1) % UINT
  /\ n' = [n EXCEPT ![p] = @ - 1]
  /\ UNCHANGED <<nread, readopen, writeopen, freed, plock, tlock, pc, chan, killed, open, got>>

(* Faulty: the error return forgets to release the lock.                   *)
WriteFailsLocked(p) ==
  /\ pc[p] = "write" /\ Holds(p)
  /\ n[p] > 0
  /\ Full
  /\ ~ readopen \/ killed[p]
  /\ n' = [n EXCEPT ![p] = 0]
  /\ Goto(p, "user")
  /\ UNCHANGED <<pipeVars, plock, tlock, chan, killed, open, got>>

WriteFails(p) ==
  /\ pc[p] = "write" /\ Holds(p)
  /\ n[p] > 0
  /\ Full
  /\ ~ readopen \/ killed[p]
  /\ Return(p)
  /\ UNCHANGED <<pipeVars, tlock, chan, killed, open, got>>

WriteSleeps(p) ==
  /\ pc[p] = "write" /\ Holds(p)
  /\ n[p] > 0
  /\ Full
  /\ readopen /\ ~ killed[p]
  /\ wakeup("nread")
  /\ Goto(p, "sleep")
  /\ UNCHANGED <<pipeVars, plock, tlock, n, killed, open, got>>

WriteEnds(p) ==
  /\ pc[p] = "write" /\ Holds(p)
  /\ n[p] = 0
  /\ wakeup("nread")
  /\ Return(p)
  /\ UNCHANGED <<pipeVars, tlock, killed, open, got>>

-----------------------------------------------------------------------------
(* piperead.                                                               *)

ReadSleeps(p) ==
  /\ pc[p] = "read" /\ Holds(p)
  /\ Empty /\ writeopen
  /\ ~ killed[p]
  /\ Goto(p, "sleep")
  /\ UNCHANGED <<pipeVars, plock, tlock, n, chan, killed, open, got>>

ReadFails(p) ==
  /\ pc[p] = "read" /\ Holds(p)
  /\ Empty /\ writeopen
  /\ killed[p]
  /\ Return(p)
  /\ UNCHANGED <<pipeVars, tlock, chan, killed, open, got>>

ReadCopies(p) ==
  /\ pc[p] = "read" /\ Holds(p)
  /\ ~ (Empty /\ writeopen)
  /\ Goto(p, "copy")
  /\ UNCHANGED <<pipeVars, plock, tlock, n, chan, killed, open, got>>

(* Faulty: the byte is taken from the position after the next.             *)
ReadByteSkips(p) ==
  /\ pc[p] = "copy" /\ Holds(p)
  /\ n[p] > 0 /\ ~ Empty
  /\ nread' = (nread + 1) % UINT
  /\ got' = [msg |-> data[nread' % PIPESIZE], flip |-> ~ got.flip]
  /\ n' = [n EXCEPT ![p] = @ - 1]
  /\ UNCHANGED <<data, nwrite, readopen, writeopen, freed, plock, tlock, pc, chan, killed, open>>

ReadByte(p) ==
  /\ pc[p] = "copy" /\ Holds(p)
  /\ n[p] > 0 /\ ~ Empty
  /\ got' = [msg |-> data[nread % PIPESIZE], flip |-> ~ got.flip]
  /\ nread' = (nread + 1) % UINT
  /\ n' = [n EXCEPT ![p] = @ - 1]
  /\ UNCHANGED <<data, nwrite, readopen, writeopen, freed, plock, tlock, pc, chan, killed, open>>

ReadEnds(p) ==
  /\ pc[p] = "copy" /\ Holds(p)
  /\ n[p] = 0 \/ Empty
  /\ wakeup("nwrite")
  /\ Return(p)
  /\ UNCHANGED <<pipeVars, tlock, killed, open, got>>

-----------------------------------------------------------------------------
(* sleep(chan, &p->lock): ptable.lock first, then p->lock is released, then *)
(* the process is SLEEPING and the scheduler releases ptable.lock.         *)

Channel(p) == IF p \in Readers THEN "nread" ELSE "nwrite"

(* Faulty: p->lock is released before ptable.lock is held.                 *)
SleepReleaseFirst(p) ==
  /\ pc[p] = "sleep"
  /\ \/ Holds(p) /\ plock' = Free /\ UNCHANGED <<tlock, pc>>
     \/ ~ Holds(p) /\ tlock = Free /\ tlock' = p /\ Goto(p, "switch") /\ UNCHANGED plock
  /\ UNCHANGED <<pipeVars, n, chan, killed, open, got>>

SleepRelease(p) ==
  /\ pc[p] = "sleep" /\ Holds(p)
  /\ tlock = Free
  /\ tlock' = p
  /\ plock' = Free
  /\ Goto(p, "switch")
  /\ UNCHANGED <<pipeVars, n, chan, killed, open, got>>

SleepSwitch(p) ==
  /\ pc[p] = "switch"
  /\ tlock = p
  /\ tlock' = Free
  /\ chan' = [chan EXCEPT ![p] = Channel(p)]
  /\ Goto(p, "asleep")
  /\ UNCHANGED <<pipeVars, plock, n, killed, open, got>>

(* Woken: back in sleep, which acquires p->lock again; the loops test their *)
(* conditions again.                                                       *)
SleepReturn(p) ==
  /\ pc[p] = "asleep"
  /\ chan[p] = "0"
  /\ plock = Free
  /\ plock' = p
  /\ Goto(p, IF p \in Readers THEN "read" ELSE "write")
  /\ UNCHANGED <<pipeVars, tlock, n, chan, killed, open, got>>

-----------------------------------------------------------------------------
(* close, or the exit of the process: fileclose drops a reference of the   *)
(* file, and the last one closes this end of the pipe.                     *)

SameEnd(p) == IF p \in Readers THEN Readers ELSE Writers

(* Faulty: the end is closed although the file has references left.        *)
FileCloseAlways(p) ==
  /\ pc[p] = "user"
  /\ p \in open
  /\ open' = open \ {p}
  /\ Goto(p, "close")
  /\ UNCHANGED <<pipeVars, plock, tlock, n, chan, killed, got>>

fileclose(p) ==
  /\ pc[p] = "user"
  /\ p \in open
  /\ open' = open \ {p}
  /\ Goto(p, IF open \cap SameEnd(p) = {p} THEN "close" ELSE "user")
  /\ UNCHANGED <<pipeVars, plock, tlock, n, chan, killed, got>>

pipeclose(p) ==
  /\ pc[p] = "close"
  /\ plock = Free
  /\ readopen' = (readopen /\ p \notin Readers)
  /\ writeopen' = (writeopen /\ p \notin Writers)
  /\ wakeup(IF p \in Writers THEN "nread" ELSE "nwrite")
  /\ freed' = (freed \/ ~ (readopen' \/ writeopen'))
  /\ Goto(p, "user")
  /\ UNCHANGED <<data, nread, nwrite, plock, tlock, n, killed, open, got>>

(* kill, by a process that has nothing to do with the pipe.                *)
kill(p) ==
  /\ p \in Killable
  /\ ~ killed[p]
  /\ tlock = Free
  /\ killed' = [killed EXCEPT ![p] = TRUE]
  /\ chan' = [chan EXCEPT ![p] = "0"]
  /\ UNCHANGED <<pipeVars, plock, tlock, pc, n, open, got>>

-----------------------------------------------------------------------------
(* The steps a process takes inside the kernel.                            *)
Step(p) ==
  \/ Acquire(p) \/ WriteByte(p) \/ WriteFails(p) \/ WriteSleeps(p) \/ WriteEnds(p)
  \/ ReadSleeps(p) \/ ReadFails(p) \/ ReadCopies(p) \/ ReadByte(p) \/ ReadEnds(p)
  \/ SleepRelease(p) \/ SleepSwitch(p) \/ SleepReturn(p) \/ pipeclose(p)

Next == \E p \in Procs : Step(p) \/ Call(p) \/ fileclose(p) \/ kill(p)

Spec == Init /\ [][Next]_vars

(* A process in the kernel goes on, and gets the locks it waits for.       *)
FairSpec == Spec /\ \A p \in Procs : SF_vars(Step(p))

-----------------------------------------------------------------------------
(* Properties.                                                             *)

(* A killed writer that finds the buffer full returns without waking the   *)
(* readers, although it may have written bytes in the same call.           *)
WriterKilled == \E w \in Writers : killed[w]

(* sleep and wakeup lose nothing: when nobody is in the middle of a call   *)
(* with p->lock held, a sleeping writer has no room and may still get it,  *)
(* and a sleeping reader may still get something and, unless a writer was  *)
(* killed, has nothing to read.                                            *)
PipeNoLostWakeup ==
  plock = Free =>
    \A p \in Procs :
      /\ chan[p] = "nread" => writeopen /\ (Empty \/ WriterKilled)
      /\ chan[p] = "nwrite" => Full /\ readopen

(* The page of a pipe is freed when nobody has either end open any more:   *)
(* nobody is in, or may get into, the code that uses it.                   *)
NotUsedAfterFree ==
  freed => open = {} /\ \A p \in Procs : pc[p] = "user"

(* The pipe is a FIFO of bytes: what readers get is what writers wrote,    *)
(* each byte once and in order.                                            *)
Contents == [i \in 1 .. (nwrite - nread) % UINT |-> data[(nread + i - 1) % PIPESIZE]]

Stream == INSTANCE Mailbox WITH
  Procs <- {"pipe"}, Msgs <- Bytes,
  box <- [p \in {"pipe"} |-> Contents], got <- [p \in {"pipe"} |-> got]

PipeFifo == Stream!Spec

(* End of file and broken pipe: once the writers have closed their end     *)
(* every reader returns, and once the readers have, every writer does.     *)
ClosedEndsCall ==
  \A p \in Procs :
    (IF p \in Readers THEN ~ writeopen ELSE ~ readopen) ~> pc[p] \in {"user", "close"}
=============================================================================
