----------------------------- MODULE Pipe_proofs ----------------------------
(***************************************************************************)
(* Proofs about Pipe, for every number of readers and writers, every size  *)
(* of the buffer and of the counters, and every sequence of calls: the     *)
(* page of a pipe is not used after it is freed, sleep and wakeup lose     *)
(* nothing, and the pipe is a FIFO of bytes.                               *)
(***************************************************************************)
EXTENDS Pipe, CircularLemmas

(* The time the provers are given, where a step does not say.              *)
USE SMTT(20), ZenonT(20)

(* Where a process holds p->lock.                                          *)
Locked == {"write", "read", "copy", "sleep"}

Types ==
  /\ plock \in Procs \cup {Free} /\ tlock \in Procs \cup {Free}
  /\ pc \in [Procs -> Locations]
  /\ n \in [Procs -> Nat]
  /\ chan \in [Procs -> {"0", "nread", "nwrite"}]
  /\ killed \in [Procs -> BOOLEAN]
  /\ open \subseteq Procs
  /\ readopen \in BOOLEAN /\ writeopen \in BOOLEAN /\ freed \in BOOLEAN

(* Who holds the two locks, and which half of the code a process is in.    *)
LockInv ==
  \A p \in Procs :
    /\ plock = p <=> pc[p] \in Locked
    /\ tlock = p <=> pc[p] = "switch"

RoleInv ==
  \A p \in Procs :
    /\ pc[p] = "write" => p \in Writers
    /\ pc[p] \in {"read", "copy"} => p \in Readers
    /\ chan[p] # "0" => pc[p] = "asleep" /\ chan[p] = Channel(p)

(* Who is in the kernel has its end open.  One process at most is about to *)
(* close an end, when nobody has it open any more, and an end that is open *)
(* or about to be closed is not marked closed.                             *)
EndInv ==
  \A p \in Procs :
    /\ pc[p] \notin {"user", "close"} => p \in open
    /\ pc[p] = "close" => \A q \in SameEnd(p) : q \notin open /\ (q # p => pc[q] # "close")
    /\ p \in open \/ pc[p] = "close" => IF p \in Readers THEN readopen ELSE writeopen

FreedInv == freed => ~ readopen /\ ~ writeopen

(* Who has called sleep and has not been woken.                            *)
Waits(p) == pc[p] \in {"sleep", "switch"} \/ chan[p] # "0"

(* A waiting reader has nothing to read, unless a writer was killed or is  *)
(* still in the loop of pipewrite, and a waiting writer has no room,       *)
(* unless a reader is still in the second loop of piperead.                *)
ReaderInv ==
  \A p \in Readers :
    Waits(p) => writeopen /\ (Empty \/ WriterKilled \/ \E q \in Procs : pc[q] = "write")

WriterInv ==
  \A p \in Writers :
    Waits(p) => readopen /\ (Full \/ \E q \in Procs : pc[q] = "copy")

Sync == LockInv /\ RoleInv /\ EndInv /\ FreedInv /\ ReaderInv /\ WriterInv

Inv == Types /\ Sync

-----------------------------------------------------------------------------
(* A process is not both a reader and a writer.                            *)
LEMMA RW ==
  /\ Readers \cap Writers = {} /\ Readers \subseteq Procs /\ Writers \subseteq Procs
  /\ Free \notin Procs
BY PipeAssumption, Zenon DEF Procs

(* Steps that open and close nothing.                                      *)
LEMMA EndSame ==
  ASSUME EndInv, UNCHANGED <<open, readopen, writeopen>>,
         \A q \in Procs : /\ pc'[q] = "close" <=> pc[q] = "close"
                          /\ pc'[q] \notin {"user", "close"} => q \in open
  PROVE  EndInv'
BY RW, Zenon DEF EndInv, SameEnd

(* Who is in the kernel has its end open.                                  *)
LEMMA KernelOpen ==
  ASSUME Sync
  PROVE  \A q \in Procs : pc[q] \notin {"user", "close"} => q \in open
BY Zenon DEF Sync, EndInv

(* Entering the kernel preserves the invariant.                           *)
LEMMA Inv_Call ==
  ASSUME Types, Sync, NEW p \in Procs, Call(p)
  PROVE  Sync'
<1>1. /\ p \in open
      /\ pc[p] = "user" /\ pc'[p] = "acquire"
      /\ \A q \in Procs \ {p} : pc'[q] = pc[q]
      /\ UNCHANGED <<nread, nwrite, readopen, writeopen, freed, plock, tlock, chan, killed, open>>
  BY PipeAssumption, Zenon DEF Types, Call, Goto, pipeVars
<1>2. LockInv'
  BY <1>1, RW, Zenon DEF Sync, LockInv, Locked
<1>3. RoleInv'
  BY <1>1, Zenon DEF Sync, RoleInv, Channel, Procs
<1>4. EndInv'
  <2>1. \A q \in Procs : /\ pc'[q] = "close" <=> pc[q] = "close"
                         /\ pc'[q] \notin {"user", "close"} => q \in open
    BY <1>1, KernelOpen, Zenon
  <2> QED
    BY <1>1, <2>1, EndSame, Zenon DEF Sync
<1>5. FreedInv'
  BY <1>1, Zenon DEF Sync, FreedInv
<1>6. ReaderInv'
  BY <1>1, RW, Zenon DEF Sync, ReaderInv, RoleInv, Waits, WriterKilled, Empty, Locked, Channel
<1>7. WriterInv'
  BY <1>1, RW, Zenon DEF Sync, WriterInv, RoleInv, Waits, Full, Locked, Channel
<1> QED
  BY <1>2, <1>3, <1>4, <1>5, <1>6, <1>7, Zenon DEF Sync

(* Acquiring p->lock preserves the invariant.                             *)
LEMMA Inv_Acquire ==
  ASSUME Types, Sync, NEW p \in Procs, Acquire(p)
  PROVE  Sync'
<1>1. /\ plock = Free /\ plock' = p
      /\ pc[p] = "acquire" /\ pc'[p] = (IF p \in Readers THEN "read" ELSE "write")
      /\ \A q \in Procs \ {p} : pc'[q] = pc[q]
      /\ UNCHANGED <<nread, nwrite, readopen, writeopen, freed, tlock, chan, killed, open>>
  BY PipeAssumption, Zenon DEF Types, Acquire, Goto, pipeVars
<1>2. \A q \in Procs : plock # q /\ Free # q /\ pc[q] \notin Locked
  BY <1>1, RW, Zenon DEF Sync, LockInv
<1>3. LockInv'
  BY <1>1, <1>2, RW, Zenon DEF Sync, LockInv, Locked
<1>4. RoleInv'
  BY <1>1, <1>2, Zenon DEF Sync, RoleInv, Channel, Procs
<1>5. EndInv'
  <2>1. \A q \in Procs : /\ pc'[q] = "close" <=> pc[q] = "close"
                         /\ pc'[q] \notin {"user", "close"} => q \in open
    BY <1>1, KernelOpen, Zenon
  <2> QED
    BY <1>1, <2>1, EndSame, Zenon DEF Sync
<1>6. FreedInv'
  BY <1>1, Zenon DEF Sync, FreedInv
<1>7. ReaderInv'
  BY <1>1, <1>2, RW, Zenon DEF Sync, ReaderInv, RoleInv, Waits, WriterKilled, Empty, Locked, Channel
<1>8. WriterInv'
  BY <1>1, <1>2, RW, Zenon DEF Sync, WriterInv, RoleInv, Waits, Full, Locked, Channel
<1> QED
  BY <1>3, <1>4, <1>5, <1>6, <1>7, <1>8, Zenon DEF Sync

(* A write that fails preserves the invariant.                            *)
LEMMA Inv_WriteFails ==
  ASSUME Types, Sync, NEW p \in Procs, WriteFails(p)
  PROVE  Sync'
<1>1. /\ plock = p /\ plock' = Free
      /\ pc[p] = "write" /\ pc'[p] = "user"
      /\ ~ readopen \/ killed[p]
      /\ \A q \in Procs \ {p} : pc'[q] = pc[q]
      /\ UNCHANGED <<nread, nwrite, readopen, writeopen, freed, tlock, chan, killed, open>>
  BY PipeAssumption, Zenon DEF Types, WriteFails, Holds, Return, Goto, pipeVars
<1>2. \A q \in Procs \ {p} : plock # q /\ Free # q /\ pc[q] \notin Locked
  BY <1>1, RW, Zenon DEF Sync, LockInv
<1>3. LockInv'
  BY <1>1, <1>2, RW, Zenon DEF Sync, LockInv, Locked
<1>4. RoleInv'
  BY <1>1, <1>2, Zenon DEF Sync, RoleInv, Channel, Procs
<1>5. EndInv'
  <2>1. \A q \in Procs : /\ pc'[q] = "close" <=> pc[q] = "close"
                         /\ pc'[q] \notin {"user", "close"} => q \in open
    BY <1>1, KernelOpen, Zenon
  <2> QED
    BY <1>1, <2>1, EndSame, Zenon DEF Sync
<1>6. FreedInv'
  BY <1>1, Zenon DEF Sync, FreedInv
<1>7. ReaderInv'
  <2>1. \A r \in Readers : Waits(r)' => Waits(r) /\ readopen
    BY <1>1, <1>2, RW, Zenon DEF Sync, Waits, EndInv, RoleInv, Locked
  <2>2. p \in Writers
    BY <1>1, Zenon DEF Sync, RoleInv
  <2>3. \A r \in Readers : Waits(r)' => writeopen /\ WriterKilled'
    BY <1>1, <2>1, <2>2, Zenon DEF Sync, ReaderInv, WriterKilled
  <2> QED
    BY <1>1, <2>3, Zenon DEF ReaderInv
<1>8. WriterInv'
  BY <1>1, <1>2, RW, Zenon DEF Sync, WriterInv, RoleInv, Waits, Full, Locked, Channel
<1> QED
  BY <1>3, <1>4, <1>5, <1>6, <1>7, <1>8, Zenon DEF Sync

(* A writer that goes to sleep preserves the invariant.                   *)
LEMMA Inv_WriteSleeps ==
  ASSUME Types, Sync, NEW p \in Procs, WriteSleeps(p)
  PROVE  Sync'
<1>1. /\ plock = p /\ tlock = Free
      /\ pc[p] = "write" /\ pc'[p] = "sleep"
      /\ Full /\ readopen
      /\ \A q \in Procs \ {p} : pc'[q] = pc[q]
      /\ \A q \in Procs : chan'[q] = (IF chan[q] = "nread" THEN "0" ELSE chan[q])
      /\ UNCHANGED <<nread, nwrite, readopen, writeopen, freed, plock, tlock, killed, open>>
  BY PipeAssumption, Zenon DEF Types, WriteSleeps, Holds, wakeup, Goto, pipeVars
<1>2. \A q \in Procs \ {p} : plock # q /\ Free # q /\ pc[q] \notin Locked
  BY <1>1, RW, Zenon DEF Sync, LockInv
<1>3. \A q \in Procs : tlock # q /\ Free # q /\ pc[q] # "switch"
  BY <1>1, RW, Zenon DEF Sync, LockInv
<1>4. LockInv'
  BY <1>1, <1>2, <1>3, RW, Zenon DEF Sync, LockInv, Locked
<1>5. RoleInv'
  BY <1>1, <1>2, <1>3, Zenon DEF Sync, RoleInv, Channel, Procs
<1>6. EndInv'
  <2>1. \A q \in Procs : /\ pc'[q] = "close" <=> pc[q] = "close"
                         /\ pc'[q] \notin {"user", "close"} => q \in open
    BY <1>1, KernelOpen, Zenon
  <2> QED
    BY <1>1, <2>1, EndSame, Zenon DEF Sync
<1>7. FreedInv'
  BY <1>1, Zenon DEF Sync, FreedInv
<1>8. ReaderInv'
  BY <1>1, <1>2, <1>3, RW DEF Sync, ReaderInv, RoleInv, Waits, Locked, Channel
<1>9. WriterInv'
  BY <1>1, <1>2, <1>3, RW, Zenon DEF Sync, WriterInv, RoleInv, Waits, Full, Locked, Channel
<1> QED
  BY <1>4, <1>5, <1>6, <1>7, <1>8, <1>9, Zenon DEF Sync

(* The end of a write preserves the invariant.                            *)
LEMMA Inv_WriteEnds ==
  ASSUME Types, Sync, NEW p \in Procs, WriteEnds(p)
  PROVE  Sync'
<1>1. /\ plock = p /\ plock' = Free /\ tlock = Free
      /\ pc[p] = "write" /\ pc'[p] = "user"
      /\ \A q \in Procs \ {p} : pc'[q] = pc[q]
      /\ \A q \in Procs : chan'[q] = (IF chan[q] = "nread" THEN "0" ELSE chan[q])
      /\ UNCHANGED <<nread, nwrite, readopen, writeopen, freed, tlock, killed, open>>
  BY PipeAssumption, Zenon DEF Types, WriteEnds, Holds, wakeup, Return, Goto, pipeVars
<1>2. \A q \in Procs \ {p} : plock # q /\ Free # q /\ pc[q] \notin Locked
  BY <1>1, RW, Zenon DEF Sync, LockInv
<1>3. \A q \in Procs : tlock # q /\ Free # q /\ pc[q] # "switch"
  BY <1>1, RW, Zenon DEF Sync, LockInv
<1>4. LockInv'
  BY <1>1, <1>2, <1>3, RW, Zenon DEF Sync, LockInv, Locked
<1>5. RoleInv'
  BY <1>1, <1>2, <1>3, Zenon DEF Sync, RoleInv, Channel, Procs
<1>6. EndInv'
  <2>1. \A q \in Procs : /\ pc'[q] = "close" <=> pc[q] = "close"
                         /\ pc'[q] \notin {"user", "close"} => q \in open
    BY <1>1, KernelOpen, Zenon
  <2> QED
    BY <1>1, <2>1, EndSame, Zenon DEF Sync
<1>7. FreedInv'
  BY <1>1, Zenon DEF Sync, FreedInv
<1>8. ReaderInv'
  BY <1>1, <1>2, <1>3, RW DEF Sync, ReaderInv, RoleInv, Waits, Locked, Channel
<1>9. WriterInv'
  BY <1>1, <1>2, <1>3, RW, Zenon DEF Sync, WriterInv, RoleInv, Waits, Full, Locked, Channel
<1> QED
  BY <1>4, <1>5, <1>6, <1>7, <1>8, <1>9, Zenon DEF Sync

(* A reader that goes to sleep preserves the invariant.                   *)
LEMMA Inv_ReadSleeps ==
  ASSUME Types, Sync, NEW p \in Procs, ReadSleeps(p)
  PROVE  Sync'
<1>1. /\ plock = p
      /\ pc[p] = "read" /\ pc'[p] = "sleep"
      /\ Empty /\ writeopen
      /\ \A q \in Procs \ {p} : pc'[q] = pc[q]
      /\ UNCHANGED <<nread, nwrite, readopen, writeopen, freed, plock, tlock, chan, killed, open>>
  BY PipeAssumption, Zenon DEF Types, ReadSleeps, Holds, Goto, pipeVars
<1>2. \A q \in Procs \ {p} : plock # q /\ Free # q /\ pc[q] \notin Locked
  BY <1>1, RW, Zenon DEF Sync, LockInv
<1>3. LockInv'
  BY <1>1, <1>2, RW, Zenon DEF Sync, LockInv, Locked
<1>4. RoleInv'
  BY <1>1, <1>2, Zenon DEF Sync, RoleInv, Channel, Procs
<1>5. EndInv'
  <2>1. \A q \in Procs : /\ pc'[q] = "close" <=> pc[q] = "close"
                         /\ pc'[q] \notin {"user", "close"} => q \in open
    BY <1>1, KernelOpen, Zenon
  <2> QED
    BY <1>1, <2>1, EndSame, Zenon DEF Sync
<1>6. FreedInv'
  BY <1>1, Zenon DEF Sync, FreedInv
<1>7. ReaderInv'
  BY <1>1, <1>2, RW, Zenon DEF Sync, ReaderInv, RoleInv, Waits, WriterKilled, Empty, Locked, Channel
<1>8. WriterInv'
  BY <1>1, <1>2, RW, Zenon DEF Sync, WriterInv, RoleInv, Waits, Full, Locked, Channel
<1> QED
  BY <1>3, <1>4, <1>5, <1>6, <1>7, <1>8, Zenon DEF Sync

(* A read that fails preserves the invariant.                             *)
LEMMA Inv_ReadFails ==
  ASSUME Types, Sync, NEW p \in Procs, ReadFails(p)
  PROVE  Sync'
<1>1. /\ plock = p /\ plock' = Free
      /\ pc[p] = "read" /\ pc'[p] = "user"
      /\ \A q \in Procs \ {p} : pc'[q] = pc[q]
      /\ UNCHANGED <<nread, nwrite, readopen, writeopen, freed, tlock, chan, killed, open>>
  BY PipeAssumption, Zenon DEF Types, ReadFails, Holds, Return, Goto, pipeVars
<1>2. \A q \in Procs \ {p} : plock # q /\ Free # q /\ pc[q] \notin Locked
  BY <1>1, RW, Zenon DEF Sync, LockInv
<1>3. LockInv'
  BY <1>1, <1>2, RW, Zenon DEF Sync, LockInv, Locked
<1>4. RoleInv'
  BY <1>1, <1>2, Zenon DEF Sync, RoleInv, Channel, Procs
<1>5. EndInv'
  <2>1. \A q \in Procs : /\ pc'[q] = "close" <=> pc[q] = "close"
                         /\ pc'[q] \notin {"user", "close"} => q \in open
    BY <1>1, KernelOpen, Zenon
  <2> QED
    BY <1>1, <2>1, EndSame, Zenon DEF Sync
<1>6. FreedInv'
  BY <1>1, Zenon DEF Sync, FreedInv
<1>7. ReaderInv'
  BY <1>1, <1>2, RW, Zenon DEF Sync, ReaderInv, RoleInv, Waits, WriterKilled, Empty, Locked, Channel
<1>8. WriterInv'
  BY <1>1, <1>2, RW, Zenon DEF Sync, WriterInv, RoleInv, Waits, Full, Locked, Channel
<1> QED
  BY <1>3, <1>4, <1>5, <1>6, <1>7, <1>8, Zenon DEF Sync

(* Leaving the first loop of piperead preserves the invariant.            *)
LEMMA Inv_ReadCopies ==
  ASSUME Types, Sync, NEW p \in Procs, ReadCopies(p)
  PROVE  Sync'
<1>1. /\ plock = p
      /\ pc[p] = "read" /\ pc'[p] = "copy"
      /\ \A q \in Procs \ {p} : pc'[q] = pc[q]
      /\ UNCHANGED <<nread, nwrite, readopen, writeopen, freed, plock, tlock, chan, killed, open>>
  BY PipeAssumption, Zenon DEF Types, ReadCopies, Holds, Goto, pipeVars
<1>2. \A q \in Procs \ {p} : plock # q /\ Free # q /\ pc[q] \notin Locked
  BY <1>1, RW, Zenon DEF Sync, LockInv
<1>3. LockInv'
  BY <1>1, <1>2, RW, Zenon DEF Sync, LockInv, Locked
<1>4. RoleInv'
  BY <1>1, <1>2, Zenon DEF Sync, RoleInv, Channel, Procs
<1>5. EndInv'
  <2>1. \A q \in Procs : /\ pc'[q] = "close" <=> pc[q] = "close"
                         /\ pc'[q] \notin {"user", "close"} => q \in open
    BY <1>1, KernelOpen, Zenon
  <2> QED
    BY <1>1, <2>1, EndSame, Zenon DEF Sync
<1>6. FreedInv'
  BY <1>1, Zenon DEF Sync, FreedInv
<1>7. ReaderInv'
  BY <1>1, <1>2, RW, Zenon DEF Sync, ReaderInv, RoleInv, Waits, WriterKilled, Empty, Locked, Channel
<1>8. WriterInv'
  BY <1>1, <1>2, RW, Zenon DEF Sync, WriterInv, RoleInv, Waits, Full, Locked, Channel
<1> QED
  BY <1>3, <1>4, <1>5, <1>6, <1>7, <1>8, Zenon DEF Sync

(* The end of a read preserves the invariant.                             *)
LEMMA Inv_ReadEnds ==
  ASSUME Types, Sync, NEW p \in Procs, ReadEnds(p)
  PROVE  Sync'
<1>1. /\ plock = p /\ plock' = Free /\ tlock = Free
      /\ pc[p] = "copy" /\ pc'[p] = "user"
      /\ \A q \in Procs \ {p} : pc'[q] = pc[q]
      /\ \A q \in Procs : chan'[q] = (IF chan[q] = "nwrite" THEN "0" ELSE chan[q])
      /\ UNCHANGED <<nread, nwrite, readopen, writeopen, freed, tlock, killed, open>>
  BY PipeAssumption, Zenon DEF Types, ReadEnds, Holds, wakeup, Return, Goto, pipeVars
<1>2. \A q \in Procs \ {p} : plock # q /\ Free # q /\ pc[q] \notin Locked
  BY <1>1, RW, Zenon DEF Sync, LockInv
<1>3. \A q \in Procs : tlock # q /\ Free # q /\ pc[q] # "switch"
  BY <1>1, RW, Zenon DEF Sync, LockInv
<1>4. LockInv'
  BY <1>1, <1>2, <1>3, RW, Zenon DEF Sync, LockInv, Locked
<1>5. RoleInv'
  BY <1>1, <1>2, <1>3, Zenon DEF Sync, RoleInv, Channel, Procs
<1>6. EndInv'
  <2>1. \A q \in Procs : /\ pc'[q] = "close" <=> pc[q] = "close"
                         /\ pc'[q] \notin {"user", "close"} => q \in open
    BY <1>1, KernelOpen, Zenon
  <2> QED
    BY <1>1, <2>1, EndSame, Zenon DEF Sync
<1>7. FreedInv'
  BY <1>1, Zenon DEF Sync, FreedInv
<1>8. ReaderInv'
  BY <1>1, <1>2, <1>3, RW, Zenon DEF Sync, ReaderInv, RoleInv, Waits, WriterKilled, Empty, Locked,
     Channel
<1>9. WriterInv'
  BY <1>1, <1>2, <1>3, RW DEF Sync, WriterInv, RoleInv, Waits, Locked, Channel
<1> QED
  BY <1>4, <1>5, <1>6, <1>7, <1>8, <1>9, Zenon DEF Sync

(* sleep exchanging the locks preserves the invariant.                    *)
LEMMA Inv_SleepRelease ==
  ASSUME Types, Sync, NEW p \in Procs, SleepRelease(p)
  PROVE  Sync'
<1>1. /\ plock = p /\ plock' = Free /\ tlock = Free /\ tlock' = p
      /\ pc[p] = "sleep" /\ pc'[p] = "switch"
      /\ \A q \in Procs \ {p} : pc'[q] = pc[q]
      /\ UNCHANGED <<nread, nwrite, readopen, writeopen, freed, chan, killed, open>>
  BY PipeAssumption, Zenon DEF Types, SleepRelease, Holds, Goto, pipeVars
<1>2. \A q \in Procs \ {p} : plock # q /\ Free # q /\ pc[q] \notin Locked
  BY <1>1, RW, Zenon DEF Sync, LockInv
<1>3. \A q \in Procs : tlock # q /\ Free # q /\ pc[q] # "switch"
  BY <1>1, RW, Zenon DEF Sync, LockInv
<1>4. LockInv'
  BY <1>1, <1>2, <1>3, RW, Zenon DEF Sync, LockInv, Locked
<1>5. RoleInv'
  BY <1>1, <1>2, <1>3, Zenon DEF Sync, RoleInv, Channel, Procs
<1>6. EndInv'
  <2>1. \A q \in Procs : /\ pc'[q] = "close" <=> pc[q] = "close"
                         /\ pc'[q] \notin {"user", "close"} => q \in open
    BY <1>1, KernelOpen, Zenon
  <2> QED
    BY <1>1, <2>1, EndSame, Zenon DEF Sync
<1>7. FreedInv'
  BY <1>1, Zenon DEF Sync, FreedInv
<1>8. ReaderInv'
  BY <1>1, <1>2, <1>3, RW, Zenon DEF Sync, ReaderInv, RoleInv, Waits, WriterKilled, Empty, Locked,
     Channel
<1>9. WriterInv'
  BY <1>1, <1>2, <1>3, RW, Zenon DEF Sync, WriterInv, RoleInv, Waits, Full, Locked, Channel
<1> QED
  BY <1>4, <1>5, <1>6, <1>7, <1>8, <1>9, Zenon DEF Sync

(* Falling asleep preserves the invariant.                                *)
LEMMA Inv_SleepSwitch ==
  ASSUME Types, Sync, NEW p \in Procs, SleepSwitch(p)
  PROVE  Sync'
<1>1. /\ tlock = p /\ tlock' = Free
      /\ pc[p] = "switch" /\ pc'[p] = "asleep"
      /\ chan'[p] = Channel(p)
      /\ \A q \in Procs \ {p} : pc'[q] = pc[q] /\ chan'[q] = chan[q]
      /\ UNCHANGED <<nread, nwrite, readopen, writeopen, freed, plock, killed, open>>
  BY PipeAssumption, Zenon DEF Types, SleepSwitch, Goto, pipeVars
<1>2. \A q \in Procs \ {p} : tlock # q /\ Free # q /\ pc[q] # "switch"
  BY <1>1, RW, Zenon DEF Sync, LockInv
<1>3. LockInv'
  BY <1>1, <1>2, RW, Zenon DEF Sync, LockInv, Locked
<1>4. RoleInv'
  BY <1>1, <1>2, Zenon DEF Sync, RoleInv, Channel, Procs
<1>5. EndInv'
  <2>1. \A q \in Procs : /\ pc'[q] = "close" <=> pc[q] = "close"
                         /\ pc'[q] \notin {"user", "close"} => q \in open
    BY <1>1, KernelOpen, Zenon
  <2> QED
    BY <1>1, <2>1, EndSame, Zenon DEF Sync
<1>6. FreedInv'
  BY <1>1, Zenon DEF Sync, FreedInv
<1>7. ReaderInv'
  BY <1>1, <1>2, RW DEF Sync, ReaderInv, RoleInv, Waits, WriterKilled, Empty, Locked, Channel
<1>8. WriterInv'
  BY <1>1, <1>2, RW DEF Sync, WriterInv, RoleInv, Waits, Full, Locked, Channel
<1> QED
  BY <1>3, <1>4, <1>5, <1>6, <1>7, <1>8, Zenon DEF Sync

(* Returning from sleep preserves the invariant.                          *)
LEMMA Inv_SleepReturn ==
  ASSUME Types, Sync, NEW p \in Procs, SleepReturn(p)
  PROVE  Sync'
<1>1. /\ plock = Free /\ plock' = p
      /\ chan[p] = "0" /\ pc[p] = "asleep" /\ pc'[p] = (IF p \in Readers THEN "read" ELSE "write")
      /\ \A q \in Procs \ {p} : pc'[q] = pc[q]
      /\ UNCHANGED <<nread, nwrite, readopen, writeopen, freed, tlock, chan, killed, open>>
  BY PipeAssumption, Zenon DEF Types, SleepReturn, Goto, pipeVars
<1>2. \A q \in Procs : plock # q /\ Free # q /\ pc[q] \notin Locked
  BY <1>1, RW, Zenon DEF Sync, LockInv
<1>3. LockInv'
  BY <1>1, <1>2, RW, Zenon DEF Sync, LockInv, Locked
<1>4. RoleInv'
  BY <1>1, <1>2, Zenon DEF Sync, RoleInv, Channel, Procs
<1>5. EndInv'
  <2>1. \A q \in Procs : /\ pc'[q] = "close" <=> pc[q] = "close"
                         /\ pc'[q] \notin {"user", "close"} => q \in open
    BY <1>1, KernelOpen, Zenon
  <2> QED
    BY <1>1, <2>1, EndSame, Zenon DEF Sync
<1>6. FreedInv'
  BY <1>1, Zenon DEF Sync, FreedInv
<1>7. ReaderInv'
  BY <1>1, <1>2, RW, Zenon DEF Sync, ReaderInv, RoleInv, Waits, WriterKilled, Empty, Locked, Channel
<1>8. WriterInv'
  BY <1>1, <1>2, RW, Zenon DEF Sync, WriterInv, RoleInv, Waits, Full, Locked, Channel
<1> QED
  BY <1>3, <1>4, <1>5, <1>6, <1>7, <1>8, Zenon DEF Sync

(* Steps on the bytes leave everything but the counters alone.             *)
LEMMA Inv_WriteByte ==
  ASSUME Types, Sync, NEW p \in Procs, WriteByte(p)
  PROVE  Sync'
<1>1. /\ plock = p /\ pc[p] = "write" /\ ~ Full
      /\ UNCHANGED <<nread, readopen, writeopen, freed, plock, tlock, pc, chan, killed, open>>
  BY Zenon DEF WriteByte, Holds
<1>2. \A q \in Procs \ {p} : pc[q] \notin Locked
  BY <1>1, RW, Zenon DEF Sync, LockInv
<1>3. LockInv' /\ RoleInv' /\ FreedInv'
  BY <1>1, Zenon DEF Sync, LockInv, RoleInv, FreedInv
<1>4. EndInv'
  BY <1>1, KernelOpen, EndSame, Zenon DEF Sync
<1>5. ReaderInv'
  BY <1>1, Zenon DEF Sync, ReaderInv, Waits
<1>6. WriterInv'
  <2>1. \A q \in Procs : pc[q] # "copy"
    BY <1>1, <1>2, Zenon DEF Locked
  <2>2. \A q \in Writers : ~ Waits(q)
    BY <1>1, <2>1, Zenon DEF Sync, WriterInv
  <2> QED
    BY <1>1, <2>2, Zenon DEF WriterInv, Waits
<1> QED
  BY <1>3, <1>4, <1>5, <1>6, Zenon DEF Sync

(* A byte taken from the pipe by piperead likewise.                        *)
LEMMA Inv_ReadByte ==
  ASSUME Types, Sync, NEW p \in Procs, ReadByte(p)
  PROVE  Sync'
<1>1. /\ plock = p /\ pc[p] = "copy" /\ ~ Empty
      /\ UNCHANGED <<nwrite, readopen, writeopen, freed, plock, tlock, pc, chan, killed, open>>
  BY Zenon DEF ReadByte, Holds
<1>2. \A q \in Procs \ {p} : pc[q] \notin Locked
  BY <1>1, RW, Zenon DEF Sync, LockInv
<1>3. LockInv' /\ RoleInv' /\ FreedInv'
  BY <1>1, Zenon DEF Sync, LockInv, RoleInv, FreedInv
<1>4. EndInv'
  BY <1>1, KernelOpen, EndSame, Zenon DEF Sync
<1>5. ReaderInv'
  <2>1. \A q \in Procs : pc[q] # "write"
    BY <1>1, <1>2, Zenon DEF Locked
  <2>2. \A q \in Readers : Waits(q) => writeopen /\ WriterKilled
    BY <1>1, <2>1, Zenon DEF Sync, ReaderInv
  <2> QED
    BY <1>1, <2>2, Zenon DEF ReaderInv, Waits, WriterKilled
<1>6. WriterInv'
  BY <1>1, Zenon DEF Sync, WriterInv, Waits
<1> QED
  BY <1>3, <1>4, <1>5, <1>6, Zenon DEF Sync

(* fileclose preserves the invariant: who drops the last reference of an   *)
(* end is alone in closing it.                                             *)
LEMMA Inv_fileclose ==
  ASSUME Types, Sync, NEW p \in Procs, fileclose(p)
  PROVE  Sync'
<1>1. /\ p \in open /\ open' = open \ {p} /\ pc[p] = "user"
      /\ pc'[p] = (IF open \cap SameEnd(p) = {p} THEN "close" ELSE "user")
      /\ \A q \in Procs \ {p} : pc'[q] = pc[q]
      /\ UNCHANGED <<nread, nwrite, readopen, writeopen, freed, plock, tlock, chan, killed>>
  BY Zenon DEF Types, fileclose, Goto, pipeVars
<1>2. LockInv'
  BY <1>1, Zenon DEF Sync, LockInv, Locked
<1>3. RoleInv'
  BY <1>1, Zenon DEF Sync, RoleInv
<1>4. EndInv'
  <2> SUFFICES ASSUME NEW r \in Procs
               PROVE  /\ pc'[r] \notin {"user", "close"} => r \in open'
                      /\ pc'[r] = "close" =>
                           \A q \in SameEnd(r) : q \notin open' /\ (q # r => pc'[q] # "close")
                      /\ r \in open' \/ pc'[r] = "close" =>
                              IF r \in Readers THEN readopen' ELSE writeopen'
    BY Zenon DEF EndInv, SameEnd
  <2>1. pc'[r] \notin {"user", "close"} => r \in open'
    BY <1>1, Zenon DEF Sync, EndInv
  <2>2. r \in open' \/ pc'[r] = "close" =>
                              IF r \in Readers THEN readopen' ELSE writeopen'
    BY <1>1, Zenon DEF Sync, EndInv
  <2>3. ASSUME pc'[r] = "close", NEW q \in SameEnd(r)
        PROVE  q \notin open' /\ (q # r => pc'[q] # "close")
    <3>1. q \in Procs /\ SameEnd(q) = SameEnd(r) /\ r \in SameEnd(r)
      BY RW, Zenon DEF SameEnd, Procs
    <3>2. CASE r = p
      <4>1. open \cap SameEnd(p) = {p}
        BY <1>1, <2>3, <3>2, Zenon
      <4>2. q \notin open'
        BY <1>1, <3>2, <4>1, Zenon
      <4>3. q # r => pc'[q] # "close"
        BY <1>1, <3>1, <3>2, Zenon DEF Sync, EndInv
      <4> QED
        BY <4>2, <4>3, Zenon
    <3>3. CASE r # p
      <4>1. pc[r] = "close"
        BY <1>1, <2>3, <3>3, Zenon
      <4>2. \A t \in SameEnd(r) : t \notin open /\ (t # r => pc[t] # "close")
        BY <4>1, Zenon DEF Sync, EndInv
      <4>3. q \notin open /\ q # p
        BY <1>1, <4>2, Zenon
      <4> QED
        BY <1>1, <3>1, <4>2, <4>3, Zenon
    <3> QED
      BY <3>2, <3>3, Zenon
  <2> QED
    BY <2>1, <2>2, <2>3, Zenon
<1>5. FreedInv'
  BY <1>1, Zenon DEF Sync, FreedInv
<1>6. ReaderInv'
  BY <1>1, RW, Zenon DEF Sync, ReaderInv, Waits, WriterKilled, Empty
<1>7. WriterInv'
  BY <1>1, RW, Zenon DEF Sync, WriterInv, Waits, Full
<1> QED
  BY <1>2, <1>3, <1>4, <1>5, <1>6, <1>7, Zenon DEF Sync

(* pipeclose preserves the invariant.                                      *)
LEMMA Inv_pipeclose ==
  ASSUME Types, Sync, NEW p \in Procs, pipeclose(p)
  PROVE  Sync'
<1>1. /\ plock = Free /\ tlock = Free
      /\ pc[p] = "close" /\ pc'[p] = "user"
      /\ \A q \in Procs \ {p} : pc'[q] = pc[q]
      /\ UNCHANGED <<nread, nwrite, plock, tlock, killed, open>>
  BY Zenon DEF Types, pipeclose, wakeup, Goto
<1>2. /\ readopen' = (readopen /\ p \notin Readers)
      /\ writeopen' = (writeopen /\ p \notin Writers)
      /\ freed' = (freed \/ ~ (readopen' \/ writeopen'))
  BY Zenon DEF pipeclose
<1>3. \A q \in Procs :
        chan'[q] = IF chan[q] = (IF p \in Writers THEN "nread" ELSE "nwrite") THEN "0" ELSE chan[q]
  BY Zenon DEF pipeclose, wakeup
<1>4. \A q \in Procs : plock # q /\ tlock # q /\ pc[q] \notin Locked /\ pc[q] # "switch"
  BY <1>1, RW, Zenon DEF Sync, LockInv
<1>5. LockInv'
  BY <1>1, <1>4, Zenon DEF LockInv, Locked
<1>6. RoleInv'
  BY <1>1, <1>3, Zenon DEF Sync, RoleInv, Channel
<1>7. EndInv'
  <2>1. \A q \in SameEnd(p) : q \notin open /\ (q # p => pc[q] # "close")
    BY <1>1, Zenon DEF Sync, EndInv
  <2> SUFFICES ASSUME NEW r \in Procs
               PROVE  /\ pc'[r] \notin {"user", "close"} => r \in open'
                      /\ pc'[r] = "close" =>
                           \A q \in SameEnd(r) : q \notin open' /\ (q # r => pc'[q] # "close")
                      /\ r \in open' \/ pc'[r] = "close" =>
                              IF r \in Readers THEN readopen' ELSE writeopen'
    BY Zenon DEF EndInv, SameEnd
  <2>2. pc'[r] \notin {"user", "close"} => r \in open'
    BY <1>1, Zenon DEF Sync, EndInv
  <2>3. pc'[r] = "close" => \A q \in SameEnd(r) : q \notin open' /\ (q # r => pc'[q] # "close")
    BY <1>1, RW, Zenon DEF Sync, EndInv, SameEnd
  <2>4. ASSUME r \in open' \/ pc'[r] = "close"
        PROVE  IF r \in Readers THEN readopen' ELSE writeopen'
    <3>1. r \in open \/ pc[r] = "close"
      BY <1>1, <2>4, Zenon
    <3>2. r \notin SameEnd(p)
      BY <1>1, <2>1, <2>4, Zenon
    <3>3. IF r \in Readers THEN readopen ELSE writeopen
      BY <3>1, Zenon DEF Sync, EndInv
    <3> QED
      BY <1>2, <3>2, <3>3, RW, Zenon DEF SameEnd, Procs
  <2> QED
    BY <2>2, <2>3, <2>4, Zenon
<1>8. FreedInv'
  BY <1>2, Zenon DEF Sync, FreedInv
<1>9. ReaderInv'
  <2>1. ASSUME NEW r \in Readers, Waits(r)'
        PROVE  p \notin Writers /\ Waits(r)
    BY <1>1, <1>3, <1>4, <2>1, RW DEF Sync, RoleInv, Waits, Locked, Channel
  <2>2. ASSUME NEW r \in Readers, Waits(r)'
        PROVE  writeopen' /\ (Empty \/ WriterKilled \/ \E q \in Procs : pc[q] = "write")
    BY <1>2, <2>1, <2>2, Zenon DEF Sync, ReaderInv
  <2> QED
    BY <1>1, <2>2, Zenon DEF ReaderInv, Empty, WriterKilled
<1>10. WriterInv'
  <2>1. ASSUME NEW r \in Writers, Waits(r)'
        PROVE  p \notin Readers /\ Waits(r)
    BY <1>1, <1>3, <1>4, <2>1, RW DEF Sync, RoleInv, Waits, Locked, Channel, Procs
  <2>2. ASSUME NEW r \in Writers, Waits(r)'
        PROVE  readopen' /\ (Full \/ \E q \in Procs : pc[q] = "copy")
    BY <1>2, <2>1, <2>2, ZenonT(30), Zenon DEF Sync, WriterInv
  <2> QED
    BY <1>1, <2>2, Zenon DEF WriterInv, Full
<1> QED
  BY <1>5, <1>6, <1>7, <1>8, <1>9, <1>10, Zenon DEF Sync

(* kill preserves the invariant.                                           *)
LEMMA Inv_kill ==
  ASSUME Types, Sync, NEW p \in Procs, kill(p)
  PROVE  Sync'
<1>1. /\ chan'[p] = "0" /\ killed'[p]
      /\ \A q \in Procs \ {p} : chan'[q] = chan[q] /\ killed'[q] = killed[q]
      /\ UNCHANGED <<nread, nwrite, readopen, writeopen, freed, plock, tlock, pc, open>>
  BY Zenon DEF Types, kill, pipeVars
<1>2. LockInv' /\ FreedInv'
  BY <1>1, Zenon DEF Sync, LockInv, FreedInv
<1>3. RoleInv'
  BY <1>1, Zenon DEF Sync, RoleInv
<1>4. EndInv'
  BY <1>1, KernelOpen, EndSame, Zenon DEF Sync
<1>5. ReaderInv'
  <2>1. WriterKilled => WriterKilled'
    BY <1>1, RW, Zenon DEF WriterKilled
  <2> QED
    BY <1>1, <2>1, RW, Zenon DEF Sync, ReaderInv, Waits, Empty
<1>6. WriterInv'
  BY <1>1, RW, Zenon DEF Sync, WriterInv, Waits, Full
<1> QED
  BY <1>2, <1>3, <1>4, <1>5, <1>6, Zenon DEF Sync

-----------------------------------------------------------------------------
(* The invariant holds at the start.                                       *)
LEMMA Inv_Init ==
  ASSUME Init
  PROVE  Inv
<1>1. Types
  BY ZenonT(30), Zenon DEF Init, Types, Locations
<1>2. LockInv /\ RoleInv /\ FreedInv /\ ReaderInv /\ WriterInv
  BY RW, Zenon DEF Init, LockInv, RoleInv, FreedInv, ReaderInv, WriterInv, Waits, Locked
<1>3. EndInv
  BY Zenon DEF Init, EndInv
<1> QED
  BY <1>1, <1>2, <1>3, Zenon DEF Inv, Sync

(* Every step keeps the types.                                             *)
LEMMA TypesStep ==
  ASSUME Types, NEW p \in Procs, Step(p) \/ Call(p) \/ fileclose(p) \/ kill(p)
  PROVE  Types'
<1> USE PipeAssumption DEF Types
<1>1. ASSUME Call(p)
      PROVE  Types'
  BY <1>1 DEF Call, Goto, pipeVars, Locations
<1>2. ASSUME Acquire(p) \/ SleepReturn(p)
      PROVE  Types'
  BY <1>2, Zenon DEF Acquire, SleepReturn, Goto, pipeVars, Locations
<1>3. ASSUME WriteByte(p) \/ ReadByte(p)
      PROVE  Types'
  BY <1>3 DEF WriteByte, ReadByte
<1>4. ASSUME WriteFails(p) \/ ReadFails(p)
      PROVE  Types'
  BY <1>4 DEF WriteFails, ReadFails, Return, Goto, pipeVars, Locations
<1>5. ASSUME WriteSleeps(p)
      PROVE  Types'
  BY <1>5, Zenon DEF WriteSleeps, wakeup, Goto, pipeVars, Locations
<1>6. ASSUME WriteEnds(p) \/ ReadEnds(p)
      PROVE  Types'
  <2>1. /\ pc' = [pc EXCEPT ![p] = "user"] /\ n' = [n EXCEPT ![p] = 0] /\ plock' = Free
        /\ UNCHANGED <<readopen, writeopen, freed, tlock, killed, open>>
    BY <1>6, Zenon DEF WriteEnds, ReadEnds, Return, Goto, pipeVars
  <2>2. \E c \in {"nread", "nwrite"} :
           chan' = [q \in Procs |-> IF chan[q] = c THEN "0" ELSE chan[q]]
    BY <1>6, Zenon DEF WriteEnds, ReadEnds, wakeup
  <2> QED
    BY <2>1, <2>2, Zenon DEF Locations
<1>7. ASSUME ReadSleeps(p) \/ ReadCopies(p)
      PROVE  Types'
  BY <1>7, Zenon DEF ReadSleeps, ReadCopies, Goto, pipeVars, Locations
<1>8. ASSUME SleepRelease(p)
      PROVE  Types'
  BY <1>8, Zenon DEF SleepRelease, Goto, pipeVars, Locations
<1>9. ASSUME SleepSwitch(p)
      PROVE  Types'
  BY <1>9, Zenon DEF SleepSwitch, Channel, Goto, pipeVars, Locations
<1>10. ASSUME fileclose(p)
       PROVE  Types'
  BY <1>10, Zenon DEF fileclose, Goto, pipeVars, Locations
<1>11. ASSUME pipeclose(p)
       PROVE  Types'
  <2>1. /\ readopen' \in BOOLEAN /\ writeopen' \in BOOLEAN /\ freed' \in BOOLEAN
    BY <1>11, ZenonT(30), Zenon DEF pipeclose
  <2>2. /\ pc' = [pc EXCEPT ![p] = "user"]
        /\ UNCHANGED <<plock, tlock, n, killed, open>>
    BY <1>11, Zenon DEF pipeclose, Goto
  <2>3. \E c \in {"nread", "nwrite"} :
           chan' = [q \in Procs |-> IF chan[q] = c THEN "0" ELSE chan[q]]
    BY <1>11, Zenon DEF pipeclose, wakeup
  <2> QED
    BY <2>1, <2>2, <2>3, Zenon DEF Locations
<1>12. ASSUME kill(p)
       PROVE  Types'
  BY <1>12, Zenon DEF kill, pipeVars
<1> QED
  BY <1>1, <1>2, <1>3, <1>4, <1>5, <1>6, <1>7, <1>8, <1>9, <1>10, <1>11, <1>12, Zenon DEF Step

(* Every step preserves the invariant.                                     *)
LEMMA Inv_Next ==
  ASSUME Inv, [Next]_vars
  PROVE  Inv'
<1> USE DEF Inv
<1>1. ASSUME UNCHANGED vars
      PROVE  Inv'
  <2>1. UNCHANGED <<nread, nwrite, readopen, writeopen, freed, plock, tlock, pc, n, chan,
                     killed, open>>
    BY <1>1, Zenon DEF vars, pipeVars
  <2>2. Types'
    BY <2>1, Zenon DEF Types
  <2>3. LockInv' /\ RoleInv' /\ FreedInv'
    BY <2>1, Zenon DEF Sync, LockInv, RoleInv, FreedInv
  <2>4. EndInv'
    BY <2>1, KernelOpen, EndSame, Zenon DEF Sync
  <2>5. ReaderInv' /\ WriterInv'
    BY <2>1, Zenon DEF Sync, ReaderInv, WriterInv, Waits, WriterKilled, Empty, Full
  <2> QED
    BY <2>2, <2>3, <2>4, <2>5, Zenon DEF Sync
<1>2. ASSUME NEW p \in Procs, Step(p) \/ Call(p) \/ fileclose(p) \/ kill(p)
      PROVE  Inv'
  <2>1. Types'
    BY <1>2, TypesStep, Zenon
  <2>2. ASSUME Step(p)
        PROVE  Sync'
    BY <2>2, Inv_Acquire, Inv_WriteByte, Inv_WriteFails, Inv_WriteSleeps, Inv_WriteEnds,
       Inv_ReadSleeps, Inv_ReadFails, Inv_ReadCopies, Inv_ReadByte, Inv_ReadEnds,
       Inv_SleepRelease, Inv_SleepSwitch, Inv_SleepReturn, Inv_pipeclose, Zenon DEF Step
  <2> QED
    BY <1>2, <2>1, <2>2, Inv_Call, Inv_fileclose, Inv_kill, Zenon
<1> QED
  BY <1>1, <1>2, Zenon DEF Next

(* The invariant holds in every reachable state.                           *)
LEMMA Invariance == Spec => []Inv
BY Inv_Init, Inv_Next, PTL DEF Spec

-----------------------------------------------------------------------------
(* Nobody is in the code of a pipe, nor can get into it, once pipeclose    *)
(* has freed its page (pipe.c 59-75 with file.c 55-79).                    *)
THEOREM FreeSafe == Spec => []NotUsedAfterFree
<1>1. Inv => NotUsedAfterFree
  <2> SUFFICES ASSUME Inv, freed
               PROVE  open = {} /\ \A p \in Procs : pc[p] = "user"
    BY Zenon DEF NotUsedAfterFree
  <2>1. ~ readopen /\ ~ writeopen
    BY Zenon DEF Inv, Sync, FreedInv
  <2>2. \A p \in Procs : p \notin open /\ pc[p] # "close"
    BY <2>1, Zenon DEF Inv, Sync, EndInv
  <2>3. \A p \in Procs : pc[p] = "user"
    BY <2>2, KernelOpen, Zenon DEF Inv
  <2> QED
    BY <2>2, <2>3, Zenon DEF Inv, Types
<1> QED
  BY <1>1, Invariance, PTL

(* Sleep and wakeup lose nothing: whenever p->lock is free, who sleeps in  *)
(* pipewrite has no room and who sleeps in piperead has nothing to read,   *)
(* unless a writer was killed (pipe.c 77-121).                             *)
THEOREM SleepSafe == Spec => []PipeNoLostWakeup
<1>1. Inv => PipeNoLostWakeup
  <2> SUFFICES ASSUME Inv, plock = Free, NEW p \in Procs
               PROVE  /\ chan[p] = "nread" => writeopen /\ (Empty \/ WriterKilled)
                      /\ chan[p] = "nwrite" => Full /\ readopen
    BY Zenon DEF PipeNoLostWakeup
  <2>1. \A q \in Procs : pc[q] # "write" /\ pc[q] # "copy"
    BY RW, Zenon DEF Inv, Sync, LockInv, Locked
  <2>2. ASSUME chan[p] = "nread"
        PROVE  writeopen /\ (Empty \/ WriterKilled)
    <3>1. p \in Readers
      BY <2>2, Zenon DEF Inv, Sync, RoleInv, Channel
    <3> QED
      BY <2>1, <2>2, <3>1, Zenon DEF Inv, Sync, ReaderInv, Waits
  <2>3. ASSUME chan[p] = "nwrite"
        PROVE  Full /\ readopen
    <3>1. p \in Writers
      BY <2>3, Zenon DEF Inv, Sync, RoleInv, Channel, Procs
    <3> QED
      BY <2>1, <2>3, <3>1, Zenon DEF Inv, Sync, WriterInv, Waits
  <2> QED
    BY <2>2, <2>3, Zenon
<1> QED
  BY <1>1, Invariance, PTL

-----------------------------------------------------------------------------
(* The buffer: its type, and the counters at most PIPESIZE apart.          *)
Count == (nwrite - nread) % UINT

BufInv ==
  /\ data \in [0 .. (PIPESIZE - 1) -> Bytes \cup {Junk}]
  /\ nread \in 0 .. (UINT - 1) /\ nwrite \in 0 .. (UINT - 1)
  /\ Count <= PIPESIZE

(* What the counters wrap around at is a multiple of PIPESIZE.             *)
LEMMA Multiple ==
  /\ PIPESIZE \in Nat \ {0} /\ UINT \in Nat \ {0} /\ UINT > PIPESIZE
  /\ IsMultiple(UINT, PIPESIZE)
<1>1. PIPESIZE \in Nat \ {0} /\ UINT \in Nat \ {0} /\ UINT > PIPESIZE /\ UINT % PIPESIZE = 0
  BY PipeAssumption
<1> DEFINE c == UINT \div PIPESIZE
<1>2. c \in Int /\ UINT = PIPESIZE * c + (UINT % PIPESIZE)
  BY <1>1, ModDef
<1> HIDE DEF c
<1>3. UINT = PIPESIZE * c
  BY <1>1, <1>2
<1>4. c \in Nat \ {0}
  <2>1. SUFFICES ASSUME c <= 0
                 PROVE  FALSE
    BY <1>2
  <2>2. PIPESIZE * (- c) >= 0
    BY <1>1, <1>2, <2>1
  <2>3. PIPESIZE * (- c) = - (PIPESIZE * c)
    BY <1>1, <1>2
  <2> QED
    BY <1>1, <1>2, <1>3, <2>2, <2>3
<1> QED
  BY <1>1, <1>3, <1>4, Zenon DEF IsMultiple

(* nwrite is Count bytes after nread.                                      *)
LEMMA Behind ==
  ASSUME BufInv
  PROVE  /\ Count \in 0 .. (UINT - 1)
         /\ (Count + nread) % UINT = nwrite
<1>1. nwrite - nread \in Int /\ nread \in Int /\ UINT \in Nat \ {0}
  BY Multiple DEF BufInv
<1>2. Count \in 0 .. (UINT - 1)
  BY <1>1, ModDef, Zenon DEF Count
<1>3. IsMultiple(UINT, UINT)
  BY <1>1, SelfMultiple, Zenon
<1>4. \A a \in Int, b \in Int : ((a % UINT) + b) % UINT = (a + b) % UINT
  BY <1>1, <1>3, ModAdd, Zenon
<1>5. (Count + nread) % UINT = ((nwrite - nread) + nread) % UINT
  BY <1>1, <1>4, Zenon DEF Count
<1>6. (nwrite - nread) + nread = nwrite
  BY DEF BufInv
<1>7. nwrite % UINT = nwrite
  BY <1>1, ModSmall, Zenon DEF BufInv
<1> QED
  BY <1>2, <1>5, <1>6, <1>7, Zenon

(* The test of pipewrite finds out whether there is room, and that of      *)
(* piperead whether there is a byte.                                       *)
LEMMA RoomOrByte ==
  ASSUME BufInv
  PROVE  /\ ~ Full => Count < PIPESIZE
         /\ ~ Empty => Count > 0
<1>1. /\ Count \in 0 .. (UINT - 1) /\ (Count + nread) % UINT = nwrite
      /\ Count <= PIPESIZE /\ nread \in 0 .. (UINT - 1)
  BY Behind, Zenon DEF BufInv
<1>2. ~ Full => Count # PIPESIZE
  <2>1. nread + PIPESIZE = PIPESIZE + nread
    BY <1>1, Multiple
  <2> QED
    BY <1>1, <2>1, Zenon DEF Full
<1>3. ~ Empty => Count # 0
  <2>1. nread % UINT = nread
    BY <1>1, Multiple, ModSmall, Zenon
  <2>2. 0 + nread = nread
    BY <1>1, Multiple
  <2> QED
    BY <1>1, <2>1, <2>2, Zenon DEF Empty
<1> QED
  BY <1>1, <1>2, <1>3, Multiple

(* The sequence of bytes in the pipe.                                      *)
LEMMA ContentsWindow ==
  Contents = Window(data, nread, Count, PIPESIZE)
BY Zenon DEF Contents, Window, Count

(* pipewrite appends a byte.                                               *)
LEMMA Put ==
  ASSUME BufInv, NEW p \in Procs, WriteByte(p)
  PROVE  /\ BufInv'
         /\ \E b \in Bytes : Contents' = Append(Contents, b)
         /\ UNCHANGED got
<1>1. PICK b \in Bytes : data' = [data EXCEPT ![nwrite % PIPESIZE] = b]
  BY ZenonT(30), Zenon DEF WriteByte
<1>2. ~ Full /\ nwrite' = (nwrite + 1) % UINT /\ UNCHANGED <<nread, got>>
  BY Zenon DEF WriteByte
<1>3. /\ Count \in Nat /\ Count < PIPESIZE /\ Count + 1 < UINT
      /\ nread \in Int /\ nwrite \in Int /\ nwrite + 1 \in Int
  BY <1>2, Behind, RoomOrByte, Multiple DEF BufInv
<1>4. Count' = Count + 1
  <2>1. (((nwrite + 1) % UINT) - nread) % UINT = ((nwrite - nread) % UINT) + 1
    BY <1>3, Multiple, CountPut, Zenon DEF Count
  <2> QED
    BY <1>2, <2>1, Zenon DEF Count
<1>5. nwrite % PIPESIZE \in 0 .. (PIPESIZE - 1) /\ (nwrite + 1) % UINT \in 0 .. (UINT - 1)
  BY <1>3, Multiple, ModDef, Zenon
<1>6. BufInv'
  <2>1. data' \in [0 .. (PIPESIZE - 1) -> Bytes \cup {Junk}]
    BY <1>1, <1>5, Zenon DEF BufInv
  <2> QED
    BY <1>2, <1>3, <1>4, <1>5, <2>1, Multiple DEF BufInv
<1>7. Window([data EXCEPT ![nwrite % PIPESIZE] = b], nread, ((nwrite - nread) % UINT) + 1, PIPESIZE)
        = Append(Window(data, nread, (nwrite - nread) % UINT, PIPESIZE), b)
  <2>1. (nwrite - nread) % UINT < PIPESIZE
    BY <1>3, Zenon DEF Count
  <2>2. IsBuffer(data, PIPESIZE)
    BY Zenon DEF BufInv, IsBuffer
  <2>3. \A buf, v : \A rd \in Int, wr \in Int :
          IsBuffer(buf, PIPESIZE) /\ (wr - rd) % UINT < PIPESIZE =>
            Window([buf EXCEPT ![wr % PIPESIZE] = v], rd, ((wr - rd) % UINT) + 1, PIPESIZE)
              = Append(Window(buf, rd, (wr - rd) % UINT, PIPESIZE), v)
    BY Multiple, PutWindow, Zenon
  <2> QED
    BY <1>3, <2>1, <2>2, <2>3, ZenonT(30), Zenon
<1>8. Contents' = Append(Contents, b)
  <2>1. Contents' = Window(data', nread', Count', PIPESIZE)
    BY Zenon DEF Contents, Window, Count
  <2> QED
    BY <1>1, <1>2, <1>4, <1>7, <2>1, ContentsWindow, ZenonT(30), Zenon DEF Count
<1> QED
  BY <1>2, <1>6, <1>8, Zenon

(* piperead hands over the oldest byte.                                    *)
LEMMA Get ==
  ASSUME BufInv, NEW p \in Procs, ReadByte(p)
  PROVE  /\ BufInv'
         /\ Contents # <<>> /\ Contents' = Tail(Contents)
         /\ got' = [msg |-> Head(Contents), flip |-> ~ got.flip]
<1>1. /\ ~ Empty /\ nread' = (nread + 1) % UINT
      /\ got' = [msg |-> data[nread % PIPESIZE], flip |-> ~ got.flip]
      /\ UNCHANGED <<data, nwrite>>
  BY Zenon DEF ReadByte
<1>2. /\ Count \in Nat \ {0} /\ Count > 0
      /\ nread \in Int /\ nwrite \in Int /\ nread + 1 \in Int
  BY <1>1, Behind, RoomOrByte, Multiple DEF BufInv
<1>3. Count' = Count - 1
  <2>1. (nwrite - ((nread + 1) % UINT)) % UINT = ((nwrite - nread) % UINT) - 1
    BY <1>2, Multiple, CountTake, Zenon DEF Count
  <2> QED
    BY <1>1, <2>1, Zenon DEF Count
<1>4. (nread + 1) % UINT \in 0 .. (UINT - 1)
  BY <1>2, Multiple, ModDef, ZenonT(30), Zenon
<1>5. BufInv'
  BY <1>1, <1>2, <1>3, <1>4, Multiple DEF BufInv
<1>6. /\ Window(data, nread, Count, PIPESIZE) # <<>>
      /\ Head(Window(data, nread, Count, PIPESIZE)) = data[nread % PIPESIZE]
      /\ Window(data, (nread + 1) % UINT, Count - 1, PIPESIZE)
           = Tail(Window(data, nread, Count, PIPESIZE))
  <2>1. IsBuffer(data, PIPESIZE)
    BY Zenon DEF BufInv, IsBuffer
  <2>2. \A buf : \A rd \in Int, k \in Nat \ {0} :
          IsBuffer(buf, PIPESIZE) =>
            /\ Window(buf, rd, k, PIPESIZE) # <<>>
            /\ Head(Window(buf, rd, k, PIPESIZE)) = buf[rd % PIPESIZE]
            /\ Window(buf, (rd + 1) % UINT, k - 1, PIPESIZE) = Tail(Window(buf, rd, k, PIPESIZE))
    BY Multiple, TakeWindow, Zenon
  <2> QED
    BY <1>2, <2>1, <2>2, Zenon
<1>7. Contents' = Window(data', nread', Count', PIPESIZE)
  BY Zenon DEF Contents, Window, Count
<1> QED
  BY <1>1, <1>3, <1>5, <1>6, <1>7, ContentsWindow, Zenon

(* The other steps leave the bytes alone.                                  *)
LEMMA BufSame ==
  ASSUME UNCHANGED <<data, nread, nwrite, got>>
  PROVE  /\ BufInv => BufInv'
         /\ UNCHANGED Stream!vars
<1>1. Contents' = Contents
  BY Zenon DEF Contents
<1>2. BufInv => BufInv'
  BY Zenon DEF BufInv, Count
<1> QED
  BY <1>1, <1>2, Zenon DEF Stream!vars

(* Every step is one of the FIFO, or leaves it alone.                      *)
LEMMA FifoStep ==
  ASSUME BufInv, [Next]_vars
  PROVE  BufInv' /\ [Stream!Next]_Stream!vars
<1>1. ASSUME NEW p \in Procs, WriteByte(p)
      PROVE  BufInv' /\ Stream!Next
  <2>1. PICK b \in Bytes : Contents' = Append(Contents, b)
    BY <1>1, Put, Zenon
  <2>2. Stream!Post("pipe", b)
    BY <1>1, <2>1, Put, Zenon DEF Stream!Post
  <2> QED
    BY <1>1, <2>2, Put, Zenon DEF Stream!Next
<1>2. ASSUME NEW p \in Procs, ReadByte(p)
      PROVE  BufInv' /\ Stream!Next
  <2>1. Stream!Take("pipe")
    BY <1>2, Get, Zenon DEF Stream!Take
  <2> QED
    BY <1>2, <2>1, Get, Zenon DEF Stream!Next
<1>3. ASSUME UNCHANGED vars
      PROVE  BufInv' /\ UNCHANGED Stream!vars
  BY <1>3, BufSame, Zenon DEF vars, pipeVars
<1>4. ASSUME NEW p \in Procs, Step(p) \/ Call(p) \/ fileclose(p) \/ kill(p),
             ~ WriteByte(p), ~ ReadByte(p)
      PROVE  BufInv' /\ UNCHANGED Stream!vars
  <2>1. UNCHANGED <<data, nread, nwrite, got>>
    BY <1>4, Zenon
       DEF Step, Acquire, WriteFails, WriteSleeps, WriteEnds, ReadSleeps, ReadFails, ReadCopies,
       ReadEnds, SleepRelease, SleepSwitch, SleepReturn, pipeclose, Call, fileclose, kill, pipeVars
  <2> QED
    BY <2>1, BufSame, Zenon
<1> QED
  BY <1>1, <1>2, <1>3, <1>4, Zenon DEF Next

(* A pipe is a FIFO of bytes: pipewrite and piperead lose, duplicate,      *)
(* invent and reorder none, also when nread and nwrite wrap around         *)
(* (pipe.c 77-121).                                                        *)
THEOREM FifoSafe == Spec => PipeFifo
<1>1. Init => BufInv /\ Stream!Init
  <2> SUFFICES ASSUME Init
               PROVE  BufInv /\ Stream!Init
    BY Zenon
  <2>1. nread = 0 /\ nwrite = 0
    BY Zenon DEF Init
  <2>2. Count = 0
    <3>1. 0 % UINT = 0
      BY Multiple, ModSmall
    <3> QED
      BY <2>1, <3>1 DEF Count
  <2>3. BufInv
    BY <2>2, Multiple DEF Init, BufInv
  <2>4. Contents = <<>>
    BY <2>2 DEF Contents, Count
  <2>5. Stream!Init
    BY <2>4, Zenon DEF Init, Stream!Init
  <2> QED
    BY <2>3, <2>5, Zenon
<1> QED
  BY <1>1, FifoStep, PTL DEF Spec, PipeFifo, Stream!Spec
=============================================================================
