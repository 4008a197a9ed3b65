-------------------------------- MODULE Bio ---------------------------------
(***************************************************************************)
(* The buffer cache (bio.c), its sleep locks (sleeplock.c), and the disk   *)
(* driver with its queue and its interrupt (ide.c).                        *)
(*                                                                         *)
(* A section of code under bcache.lock, under the spin lock of a sleep     *)
(* lock or under idelock is one step: these locks protect all that the     *)
(* section touches, and sleep gives them up atomically with going to sleep *)
(* (module Pipe has the detail).  A process sleeps on the sleep lock of a  *)
(* buffer or on the buffer itself, for its transfer.                       *)
(*                                                                         *)
(* The callers are log.c and fs.c: they hold a few buffers, taken in one   *)
(* order of the kinds of blocks (a log block before the block it is a copy *)
(* of, an indirect block before the bitmap), change them, pin them with    *)
(* B_DIRTY (log_write) or write them, and release them.  A block number    *)
(* here is the rank in that order, not the address on the disk.            *)
(***************************************************************************)
EXTENDS Naturals, Sequences, FiniteSets

CONSTANTS
  Procs,
  NBUF,         \* buffers in the cache
  Blocks,       \* block numbers, from 1
  Values, Blank,
  Nobody,
  DiskErrors,   \* whether a read may end with an error: a subset of BOOLEAN
  MaxHold,      \* bound: buffers each process holds at a time
  MaxDirty,     \* bound: buffers that are dirty at a time
  Written       \* bound: the blocks that are changed or written

Bufs == 1 .. NBUF

(* The block number of a buffer that was never used; no buffer.            *)
NoBlock == 0
NoBuf == 0

ASSUME BioAssumption ==
  /\ IsFiniteSet(Procs)
  /\ NBUF \in Nat \ {0} /\ MaxDirty \in Nat /\ MaxHold \in [Procs -> Nat]
  /\ Blocks \subseteq Nat \ {NoBlock}
  /\ Written \subseteq Blocks
  /\ Blank \in Values
  /\ Nobody \notin Procs
  /\ DiskErrors \subseteq BOOLEAN

VARIABLES
  lru,        \* the list of buffers by place, the most recently used first
  blockno, refcnt, valid, dirty, data,   \* struct buf
  holder,     \* the sleep lock of a buffer: Nobody, or the pid that locked it
  idequeue,   \* the buffers with a transfer to do; the first is active
  cmd,        \* what the drive was told and has not done yet: at most one
  irq,        \* the drive has an interrupt pending
  latch,      \* the data the drive offers after a read
  disk,
  pc, buf,    \* where a process is, the buffer it works on
  held,       \* the buffers a process has and has not released
  chan        \* what it sleeps on

cacheVars == <<lru, blockno, refcnt, valid, dirty, data>>
driveVars == <<idequeue, cmd, irq, latch, disk>>
procVars == <<pc, buf, held, chan>>
vars == <<cacheVars, holder, driveVars, procVars>>

Awake == <<"awake", 0>>
OnLock(b) == <<"lock", b>>
OnBuf(b) == <<"buf", b>>

(* "run": outside these functions.  "lock": in acquiresleep.  "got": bget  *)
(* has returned to bread.  "rw": at iderw.  "io": in the loop of iderw.    *)
(* "drop": in brelse, past releasesleep.  "panic": stopped.                *)
Locations == {"run", "lock", "got", "rw", "io", "drop", "panic"}

Goto(p, loc) == pc' = [pc EXCEPT ![p] = loc]

(* p returns to its caller, which then has the buffers bs.                 *)
Return(p, bs) ==
  /\ Goto(p, "run")
  /\ buf' = [buf EXCEPT ![p] = NoBuf]
  /\ held' = [held EXCEPT ![p] = bs]

Sleep(p, c) == chan' = [chan EXCEPT ![p] = c]

Wakeup(c) == [q \in Procs |-> IF chan[q] = c THEN Awake ELSE chan[q]]

Running(p, loc) == pc[p] = loc /\ chan[p] = Awake

-----------------------------------------------------------------------------
(* binit() and ideinit(); a disk with nothing on it.                       *)
Init ==
  /\ lru = [i \in 1 .. NBUF |-> NBUF + 1 - i]
  /\ blockno = [b \in Bufs |-> NoBlock]
  /\ refcnt = [b \in Bufs |-> 0]
  /\ valid = [b \in Bufs |-> FALSE]
  /\ dirty = [b \in Bufs |-> FALSE]
  /\ data = [b \in Bufs |-> Blank]
  /\ holder = [b \in Bufs |-> Nobody]
  /\ idequeue = <<>> /\ cmd = <<>> /\ irq = FALSE /\ latch = Blank
  /\ disk = [k \in Blocks |-> Blank]
  /\ pc = [p \in Procs |-> "run"]
  /\ buf = [p \in Procs |-> NoBuf]
  /\ held = [p \in Procs |-> {}]
  /\ chan = [p \in Procs |-> Awake]

-----------------------------------------------------------------------------
(* bget goes through the list: from its head for the buffer that caches    *)
(* block k, then from its tail for one that nobody refers to and that is   *)
(* not dirty.                                                              *)

Cached(k) == \E i \in Bufs : blockno[lru[i]] = k

(* Faulty: a dirty buffer is taken for unused.                             *)
UnusedDirty(b) == refcnt[b] = 0

Unused(b) == refcnt[b] = 0 /\ ~ dirty[b]

(* The block is cached.  Faulty: its reference is not counted.             *)
BgetHitUncounted(p, k) ==
  \E i \in Bufs :
    /\ blockno[lru[i]] = k
    /\ \A j \in 1 .. i - 1 : blockno[lru[j]] # k
    /\ buf' = [buf EXCEPT ![p] = lru[i]]
    /\ Goto(p, "lock")
    /\ UNCHANGED <<blockno, refcnt, valid>>

BgetHit(p, k) ==
  \E i \in Bufs :
    /\ blockno[lru[i]] = k
    /\ \A j \in 1 .. i - 1 : blockno[lru[j]] # k
    /\ buf' = [buf EXCEPT ![p] = lru[i]]
    /\ refcnt' = [refcnt EXCEPT ![lru[i]] = @ + 1]
    /\ Goto(p, "lock")
    /\ UNCHANGED <<blockno, valid>>

BgetRecycle(p, k) ==
  /\ ~ Cached(k)
  /\ \E i \in Bufs :
       LET b == lru[i]
       IN /\ Unused(b)
          /\ \A j \in i + 1 .. NBUF : ~ Unused(lru[j])
          /\ buf' = [buf EXCEPT ![p] = b]
          /\ blockno' = [blockno EXCEPT ![b] = k]
          /\ valid' = [valid EXCEPT ![b] = FALSE]
          /\ refcnt' = [refcnt EXCEPT ![b] = 1]
          /\ Goto(p, "lock")

BgetPanic(p, k) ==
  /\ ~ Cached(k)
  /\ \A i \in Bufs : ~ Unused(lru[i])
  /\ Goto(p, "panic")
  /\ UNCHANGED <<buf, blockno, valid, refcnt>>

bget(p, k) ==
  /\ Running(p, "run")
  /\ Cardinality(held[p]) < MaxHold[p]
  /\ \A b \in held[p] : blockno[b] < k
  /\ BgetHit(p, k) \/ BgetRecycle(p, k) \/ BgetPanic(p, k)
  /\ UNCHANGED <<lru, dirty, data, holder, driveVars, held, chan>>

-----------------------------------------------------------------------------
(* Sleep locks.                                                            *)

acquiresleep(p) ==
  /\ Running(p, "lock")
  /\ holder[buf[p]] = Nobody
  /\ holder' = [holder EXCEPT ![buf[p]] = p]
  /\ Goto(p, "got")
  /\ UNCHANGED <<cacheVars, driveVars, buf, held, chan>>

AcquireWaits(p) ==
  /\ Running(p, "lock")
  /\ holder[buf[p]] # Nobody
  /\ Sleep(p, OnLock(buf[p]))
  /\ UNCHANGED <<cacheVars, holder, driveVars, pc, buf, held>>

releasesleep(b) ==
  /\ holder' = [holder EXCEPT ![b] = Nobody]
  /\ chan' = Wakeup(OnLock(b))

holdingsleep(p, b) == holder[b] = p

-----------------------------------------------------------------------------
(* The drive.  idestart(b) hands it the command, and the data of a write.  *)

(* Faulty: a buffer that was read once is never written.                   *)
CommandRead(b, d) ==
  [write |-> dirty[b] /\ ~ valid[b], block |-> blockno[b], value |-> d[b]]

Command(b, d) ==
  [write |-> dirty[b], block |-> blockno[b], value |-> d[b]]

idestart(queue, d) == cmd' = <<Command(Head(queue), d)>>

(* The drive does what it was told.                                        *)
DriveDone ==
  /\ cmd # <<>>
  /\ LET c == Head(cmd)
     IN /\ disk' = IF c.write THEN [disk EXCEPT ![c.block] = c.value] ELSE disk
        /\ latch' = IF c.write THEN latch ELSE disk[c.block]
  /\ cmd' = <<>>
  /\ irq' = TRUE
  /\ UNCHANGED <<cacheVars, holder, idequeue, procVars>>

(* Faulty: the interrupt does not start the next transfer.                 *)
StartNone(queue, d) == UNCHANGED cmd

(* ideintr starts the next transfer of the queue, if there is one.         *)
StartNext(queue, d) == IF queue = <<>> THEN UNCHANGED cmd ELSE idestart(queue, d)

(* ideintr.  A read that ended with an error leaves the data as it was.    *)
ideintr ==
  /\ irq
  /\ irq' = FALSE
  /\ latch' = Blank
  /\ IF idequeue = <<>>
     THEN UNCHANGED <<idequeue, data, valid, dirty, chan, cmd>>
     ELSE \E error \in DiskErrors :
            LET b == Head(idequeue)
            IN /\ idequeue' = Tail(idequeue)
               /\ data' = IF dirty[b] \/ error THEN data ELSE [data EXCEPT ![b] = latch]
               /\ valid' = [valid EXCEPT ![b] = TRUE]
               /\ dirty' = [dirty EXCEPT ![b] = FALSE]
               /\ chan' = Wakeup(OnBuf(b))
               /\ StartNext(Tail(idequeue), data)
  /\ UNCHANGED <<lru, blockno, refcnt, holder, disk, pc, buf, held>>

(* iderw: join the queue, start the drive if it is idle, and sleep.        *)
iderw(p) ==
  /\ Running(p, "rw")
  /\ LET b == buf[p]
     IN IF ~ holdingsleep(p, b) \/ (valid[b] /\ ~ dirty[b])
        THEN Goto(p, "panic") /\ UNCHANGED <<idequeue, cmd, chan>>
        ELSE /\ idequeue' = Append(idequeue, b)
             /\ IF idequeue = <<>> THEN idestart(idequeue', data) ELSE UNCHANGED cmd
             /\ Sleep(p, OnBuf(b))
             /\ Goto(p, "io")
  /\ UNCHANGED <<cacheVars, holder, irq, latch, disk, buf, held>>

(* The loop of iderw after a wakeup, and the return to bread or bwrite:    *)
(* the process has the buffer.                                             *)
IderwLoop(p) ==
  /\ Running(p, "io")
  /\ LET b == buf[p]
     IN IF valid[b] /\ ~ dirty[b]
        THEN Return(p, held[p] \cup {b}) /\ UNCHANGED chan
        ELSE Sleep(p, OnBuf(b)) /\ UNCHANGED <<pc, buf, held>>
  /\ UNCHANGED <<cacheVars, holder, driveVars>>

-----------------------------------------------------------------------------
(* bread after bget: a valid buffer needs no transfer.                     *)
bread(p) ==
  /\ Running(p, "got")
  /\ IF valid[buf[p]]
     THEN Return(p, held[p] \cup {buf[p]})
     ELSE Goto(p, "rw") /\ UNCHANGED <<buf, held>>
  /\ UNCHANGED <<cacheVars, holder, driveVars, chan>>

(* The holder of a buffer changes it and marks it dirty: log_write pins it *)
(* in the cache this way until the log is committed.                       *)
Change(p, b, v) ==
  /\ Running(p, "run")
  /\ b \in held[p] /\ blockno[b] \in Written
  /\ Cardinality({c \in Bufs : dirty[c]} \cup {b}) <= MaxDirty
  /\ data' = [data EXCEPT ![b] = v]
  /\ dirty' = [dirty EXCEPT ![b] = TRUE]
  /\ UNCHANGED <<lru, blockno, refcnt, valid, holder, driveVars, procVars>>

bwrite(p, b) ==
  /\ Running(p, "run")
  /\ b \in held[p] /\ blockno[b] \in Written
  /\ buf' = [buf EXCEPT ![p] = b]
  /\ IF holdingsleep(p, b)
     THEN Goto(p, "rw") /\ dirty' = [dirty EXCEPT ![b] = TRUE]
     ELSE Goto(p, "panic") /\ UNCHANGED dirty
  /\ UNCHANGED <<lru, blockno, refcnt, valid, data, holder, driveVars, held, chan>>

(* brelse up to releasesleep.                                              *)
brelse(p, b) ==
  /\ Running(p, "run")
  /\ b \in held[p]
  /\ held' = [held EXCEPT ![p] = @ \ {b}]
  /\ buf' = [buf EXCEPT ![p] = b]
  /\ IF holdingsleep(p, b)
     THEN releasesleep(b) /\ Goto(p, "drop")
     ELSE Goto(p, "panic") /\ UNCHANGED <<holder, chan>>
  /\ UNCHANGED <<cacheVars, driveVars>>

(* b is unlinked from the list and put at its head.                        *)
MoveToHead(b) ==
  LET n == CHOOSE i \in Bufs : lru[i] = b
  IN [i \in Bufs |-> IF i = 1 THEN b ELSE IF i <= n THEN lru[i - 1] ELSE lru[i]]

(* The rest of brelse, under bcache.lock.                                  *)
BrelseDrop(p) ==
  /\ Running(p, "drop")
  /\ LET b == buf[p]
     IN /\ refcnt' = [refcnt EXCEPT ![b] = @ - 1]
        /\ lru' = IF refcnt[b] = 1 THEN MoveToHead(b) ELSE lru
  /\ Return(p, held[p])
  /\ UNCHANGED <<blockno, valid, dirty, data, holder, driveVars, chan>>

-----------------------------------------------------------------------------
Inside(p) == bread(p) \/ acquiresleep(p) \/ AcquireWaits(p) \/ iderw(p) \/ IderwLoop(p) \/ BrelseDrop(p)

Caller(p) ==
  \/ \E k \in Blocks : bget(p, k)
  \/ \E b \in Bufs : bwrite(p, b) \/ brelse(p, b) \/ \E v \in Values : Change(p, b, v)

Next ==
  \/ \E p \in Procs : Inside(p) \/ Caller(p)
  \/ DriveDone
  \/ ideintr

Spec == Init /\ [][Next]_vars

(* p releases the buffer it took first.                                    *)
ReleaseFirst(p) ==
  \E b \in held[p] : (\A c \in held[p] : blockno[b] <= blockno[c]) /\ brelse(p, b)

(* The drive answers, interrupts are served, processes go on inside these  *)
(* functions, a lock that becomes free again and again is obtained, and    *)
(* callers release their buffers.                                          *)
FairSpec ==
  /\ Spec
  /\ WF_vars(DriveDone) /\ WF_vars(ideintr)
  /\ \A p \in Procs :
       /\ WF_vars(Inside(p))
       /\ SF_vars(acquiresleep(p))
       /\ SF_vars(ReleaseFirst(p))

-----------------------------------------------------------------------------
(* Properties.                                                             *)

(* The processes between their bget of b and the end of their brelse.      *)
Users(b) ==
  {p \in Procs : \/ b \in held[p]
                 \/ buf[p] = b /\ pc[p] \in {"lock", "got", "rw", "io", "drop"}}

(* refcnt counts exactly the processes that are anywhere between bget and  *)
(* the end of brelse, so bget (bio.c 78-91) never gives away a buffer that *)
(* somebody waits for, transfers or holds, and never makes a second copy   *)
(* of a block.                                                             *)
RefcntExact ==
  /\ \A b \in Bufs : refcnt[b] = Cardinality(Users(b))
  /\ \A b, c \in Bufs : blockno[b] = blockno[c] /\ blockno[b] # NoBlock => b = c

(* A buffer that is valid and not dirty equals its block on the disk: what *)
(* bget may recycle (bio.c 82) is never the only copy, and a block is on   *)
(* the disk when bwrite returns (ide.c 119-122).                           *)
CleanMatchesDisk ==
  \A b \in Bufs : valid[b] /\ ~ dirty[b] => data[b] = disk[blockno[b]]

(* The valid copies of block k.                                            *)
Copies(k) == {b \in Bufs : blockno[b] = k /\ valid[b]}

(* The element of a set that has one.                                      *)
Only(S) == CHOOSE x \in S : TRUE

(* The array of blocks behind the cache: what a block holds, who has it.   *)
Content == [k \in Blocks |-> IF Copies(k) = {} THEN disk[k] ELSE data[Only(Copies(k))]]

Having(k) == {p \in Procs : \E b \in held[p] : blockno[b] = k}

Owner == [k \in Blocks |-> IF Having(k) = {} THEN Nobody ELSE Only(Having(k))]

BlocksAre == INSTANCE BlockStore WITH content <- Content, owner <- Owner

(* The cache, its locks and the driver together are an array of blocks     *)
(* that processes have to themselves between bread and brelse: evictions,  *)
(* reads and delayed writes are invisible (bio.c 3-15).                    *)
BlocksHeldAlone == BlocksAre!Spec

(* A process that asks for a block or waits for a transfer gets on: no     *)
(* wakeup of acquiresleep or iderw is lost, the interrupt keeps the queue  *)
(* moving (ide.c 127-129), and nobody waits in a circle.  A panic stops    *)
(* the machine.                                                            *)
BreadReturns ==
  \A p \in Procs :
    pc[p] \in {"lock", "got", "rw", "io"} ~> (pc[p] = "run" \/ \E q \in Procs : pc[q] = "panic")
=============================================================================
