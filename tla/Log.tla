-------------------------------- MODULE Log ---------------------------------
(***************************************************************************)
(* The write-ahead log of the file system (log.c) over a buffer cache that *)
(* recycles clean buffers (bio.c) and a disk that writes one block at a    *)
(* time and survives crashes.                                              *)
(*                                                                         *)
(* A file system call is a begin_op, some changes to blocks, each followed *)
(* by log_write, and an end_op; the last one to end commits.  log.lock is  *)
(* the atomicity of the actions, except where log_write reads lh.n without *)
(* it.  Disk writes are one action each.  A crash can fall between any     *)
(* two, also during the recovery from an earlier one.                      *)
(***************************************************************************)
EXTENDS Integers, Sequences, FiniteSets

CONSTANTS
  Procs,
  Blocks,       \* the blocks outside the log
  Values,       \* what a block can hold
  Blank,        \* what mkfs writes into every block
  None,         \* a block has no buffer
  OpBlocks,     \* how many blocks a system call writes at most
  MAXOPBLOCKS,  \* how many begin_op reserves for it
  LOGSIZE,      \* how many blocks it reserves them in
  size,         \* log.size: the header and the blocks of the log on the disk
  inodestart    \* the block behind the log

ASSUME LogAssumption ==
  /\ Blank \in Values
  /\ None \notin Values
  /\ OpBlocks \in Nat \ {0} /\ MAXOPBLOCKS \in Nat /\ LOGSIZE \in Nat
  /\ OpBlocks < MAXOPBLOCKS   \* 7 (file.c 133: 4 data, bitmap, indirect, inode) and 10
  /\ MAXOPBLOCKS <= LOGSIZE   \* param.h 11
  /\ size = LOGSIZE           \* mkfs.c 25
  /\ inodestart \in Blocks    \* mkfs.c 102
  /\ IsFiniteSet(Procs)       \* NPROC

VARIABLES
  lh,           \* log.lh: the blocks to commit
  outstanding, committing,
  cache,        \* what the buffer of each block holds, or None
  dirty,        \* the blocks whose buffer is B_DIRTY
  disk,         \* the blocks on the disk
  logdisk,      \* the blocks of the log on the disk, without the header
  head,         \* the header block on the disk
  tail,         \* the loop variable of write_log and install_trans
  pc,           \* where each process is
  block,        \* the block it has locked for log_write
  wrote,        \* the blocks its system call has written
  boot          \* "up", or the step of recover_from_log

memory == <<lh, outstanding, committing, cache, dirty>>
persistent == <<disk, logdisk, head>>
local == <<pc, block, wrote>>
vars == <<memory, persistent, local, tail, boot>>

(* "user": not in a call.  "retry": woken in begin_op.  "call": between    *)
(* begin_op and end_op.  "append": in log_write, past its checks.  Then    *)
(* the steps of commit: "write_log", "write_head", "install_trans",        *)
(* "erase", and "committed": back in end_op.  "panic": has panicked.       *)
InCommit == {"write_log", "write_head", "install_trans", "erase", "committed"}
Locations == {"user", "asleep", "retry", "call", "append", "panic"} \cup InCommit

Boots == {"up", "read_head", "install_trans", "erase"}

Goto(p, loc) == pc' = [pc EXCEPT ![p] = loc]

(* The kernel has recovered.  It goes on when a process panics: panic      *)
(* stops the other CPUs only when they print.                              *)
Up == boot = "up"

(* The blocks of the log on the disk: the first of its size is the header. *)
LogSlots == 1 .. (size - 1)

NoBlock == None

Elements(s) == {s[i] : i \in 1 .. Len(s)}

(* wakeup(&log), with the new place of the process that calls it.          *)
WakeAndGoto(p, loc) ==
  pc' = [q \in Procs |-> IF q = p THEN loc ELSE IF pc[q] = "asleep" THEN "retry" ELSE pc[q]]

-----------------------------------------------------------------------------
(* The disk after mkfs, at the first boot.                                 *)
Init ==
  /\ lh = <<>> /\ outstanding = 0 /\ committing = FALSE
  /\ cache = [b \in Blocks |-> None]
  /\ dirty = {}
  /\ disk = [b \in Blocks |-> Blank]
  /\ logdisk = [i \in LogSlots |-> Blank]
  /\ head = <<>>
  /\ tail = 0
  /\ pc = [p \in Procs |-> "user"]
  /\ block = [p \in Procs |-> NoBlock]
  /\ wrote = [p \in Procs |-> {}]
  /\ boot = "read_head"

-----------------------------------------------------------------------------
(* The buffer cache, as far as the log depends on it.                      *)

Locked(b) == \E p \in Procs : block[p] = b

(* What a bread of the block returns.                                      *)
Buffer(b) == IF cache[b] = None THEN disk[b] ELSE cache[b]

(* bread by a call that only reads.                                        *)
bread(b) ==
  /\ Up
  /\ cache[b] = None
  /\ cache' = [cache EXCEPT ![b] = disk[b]]
  /\ UNCHANGED <<lh, outstanding, committing, dirty, persistent, local, tail, boot>>

(* bget takes the buffer for another block.                                *)
Recycle(b) ==
  /\ Up
  /\ cache[b] # None
  /\ ~ Locked(b)
  /\ b \notin dirty
  /\ cache' = [cache EXCEPT ![b] = None]
  /\ UNCHANGED <<lh, outstanding, committing, dirty, persistent, local, tail, boot>>

-----------------------------------------------------------------------------
(* System calls.                                                           *)

MustWait ==
  \/ committing
  \/ Len(lh) + (outstanding + 1) * MAXOPBLOCKS > LOGSIZE

begin_op(p) ==
  /\ Up
  /\ pc[p] \in {"user", "retry"}
  /\ IF MustWait
       THEN Goto(p, "asleep") /\ UNCHANGED outstanding
       ELSE Goto(p, "call") /\ outstanding' = outstanding + 1
  /\ wrote' = [wrote EXCEPT ![p] = {}]
  /\ UNCHANGED <<lh, committing, cache, dirty, persistent, block, tail, boot>>

(* bread of a block to change it, and the checks of log_write, which hold  *)
(* no lock.                                                                *)
LogWriteCheck(p, b) ==
  /\ Up
  /\ pc[p] = "call"
  /\ Cardinality(wrote[p] \cup {b}) <= OpBlocks
  /\ ~ Locked(b)
  /\ block' = [block EXCEPT ![p] = b]
  /\ cache' = [cache EXCEPT ![b] = Buffer(b)]
  /\ Goto(p, IF Len(lh) >= LOGSIZE \/ Len(lh) >= size - 1 \/ outstanding < 1
               THEN "panic" ELSE "append")
  /\ UNCHANGED <<lh, outstanding, committing, dirty, persistent, wrote, tail, boot>>

(* The change of the buffer, the rest of log_write, and brelse.            *)
log_write(p, v) ==
  LET b == block[p] IN
  /\ Up
  /\ pc[p] = "append"
  /\ cache' = [cache EXCEPT ![b] = v]
  /\ lh' = IF b \in Elements(lh) THEN lh ELSE Append(lh, b)
  /\ dirty' = dirty \cup {b}
  /\ wrote' = [wrote EXCEPT ![p] = @ \cup {b}]
  /\ block' = [block EXCEPT ![p] = NoBlock]
  /\ Goto(p, "call")
  /\ UNCHANGED <<outstanding, committing, persistent, tail, boot>>

-----------------------------------------------------------------------------
(* end_op and commit.                                                      *)

(* Faulty: every end_op commits.                                           *)
EndOpAlways(p) ==
  /\ Up
  /\ pc[p] = "call"
  /\ outstanding' = outstanding - 1
  /\ committing' = TRUE
  /\ tail' = 0
  /\ Goto(p, IF lh = <<>> THEN "committed" ELSE "write_log")
  /\ UNCHANGED <<lh, cache, dirty, persistent, block, wrote, boot>>

end_op(p) ==
  /\ Up
  /\ pc[p] = "call"
  /\ outstanding' = outstanding - 1
  /\ IF outstanding' = 0
       THEN /\ committing' = TRUE
            /\ tail' = 0
            /\ Goto(p, IF lh = <<>> THEN "committed" ELSE "write_log")
       ELSE /\ WakeAndGoto(p, "user")
            /\ UNCHANGED <<committing, tail>>
  /\ UNCHANGED <<lh, cache, dirty, persistent, block, wrote, boot>>

(* The buffers of block log.start + i and of lh.block[i - 1] are locked    *)
(* together.  Behind the last block of the log is the first of the inodes: *)
(* a log_write that found lh.n = size - 2, before another one appended a   *)
(* block, would make i = size.                                             *)
CanLock(i) == i \in LogSlots \/ lh[i] # inodestart
LogBlock(i) == IF i \in LogSlots THEN logdisk[i] ELSE Buffer(inodestart)

(* A block from the cache to the log.                                      *)
write_log(p) ==
  LET v == Buffer(lh[tail + 1]) IN
  /\ pc[p] = "write_log" /\ Up
  /\ CanLock(tail + 1)
  /\ IF tail + 1 \in LogSlots
       THEN logdisk' = [logdisk EXCEPT ![tail + 1] = v] /\ UNCHANGED <<disk, cache, dirty>>
       ELSE /\ disk' = [disk EXCEPT ![inodestart] = v]
            /\ cache' = [cache EXCEPT ![inodestart] = v]
            /\ dirty' = dirty \ {inodestart}
            /\ UNCHANGED logdisk
  /\ tail' = tail + 1
  /\ Goto(p, IF tail' = Len(lh) THEN "write_head" ELSE "write_log")
  /\ UNCHANGED <<lh, outstanding, committing, head, block, wrote, boot>>

(* The header to the disk: the real commit.                                *)
write_head(p) ==
  /\ pc[p] = "write_head" /\ Up
  /\ head' = lh
  /\ tail' = 0
  /\ Goto(p, "install_trans")
  /\ UNCHANGED <<memory, disk, logdisk, block, wrote, boot>>

(* A block from the log to its place; bwrite clears B_DIRTY.               *)
InstallBlock ==
  LET b == lh[tail + 1]  v == LogBlock(tail + 1) IN
  /\ CanLock(tail + 1)
  /\ disk' = [disk EXCEPT ![b] = v]
  /\ cache' = [cache EXCEPT ![b] = v]
  /\ dirty' = dirty \ {b}
  /\ tail' = tail + 1

install_trans(p) ==
  /\ pc[p] = "install_trans" /\ Up
  /\ InstallBlock
  /\ Goto(p, IF tail' = Len(lh) THEN "erase" ELSE "install_trans")
  /\ UNCHANGED <<lh, outstanding, committing, logdisk, head, block, wrote, boot>>

(* Faulty: lh.n is not reset.                                              *)
EraseKeepsLh(p) ==
  /\ pc[p] = "erase" /\ Up
  /\ head' = <<>>
  /\ Goto(p, "committed")
  /\ UNCHANGED <<memory, disk, logdisk, block, wrote, tail, boot>>

(* The transaction is erased from the log.                                 *)
erase(p) ==
  /\ pc[p] = "erase" /\ Up
  /\ lh' = <<>>
  /\ head' = <<>>
  /\ Goto(p, "committed")
  /\ UNCHANGED <<outstanding, committing, cache, dirty, disk, logdisk, block, wrote, tail, boot>>

(* Faulty: nobody is woken.                                                *)
CommittedSilent(p) ==
  /\ pc[p] = "committed" /\ Up
  /\ committing' = FALSE
  /\ Goto(p, "user")
  /\ UNCHANGED <<lh, outstanding, cache, dirty, persistent, block, wrote, tail, boot>>

(* The end of end_op.                                                      *)
committed(p) ==
  /\ pc[p] = "committed" /\ Up
  /\ committing' = FALSE
  /\ WakeAndGoto(p, "user")
  /\ UNCHANGED <<lh, outstanding, cache, dirty, persistent, block, wrote, tail, boot>>

-----------------------------------------------------------------------------
(* A crash, and recover_from_log at the next boot.                         *)

Crash ==
  /\ lh' = <<>> /\ outstanding' = 0 /\ committing' = FALSE
  /\ cache' = [b \in Blocks |-> None]
  /\ dirty' = {}
  /\ tail' = 0
  /\ pc' = [p \in Procs |-> "user"]
  /\ block' = [p \in Procs |-> NoBlock]
  /\ wrote' = [p \in Procs |-> {}]
  /\ boot' = "read_head"
  /\ UNCHANGED persistent

read_head ==
  /\ boot = "read_head"
  /\ lh' = head
  /\ boot' = IF head = <<>> THEN "erase" ELSE "install_trans"
  /\ UNCHANGED <<outstanding, committing, cache, dirty, persistent, local, tail>>

RecoverInstall ==
  /\ boot = "install_trans"
  /\ InstallBlock
  /\ boot' = IF tail' = Len(lh) THEN "erase" ELSE "install_trans"
  /\ UNCHANGED <<lh, outstanding, committing, logdisk, head, local>>

RecoverErase ==
  /\ boot = "erase"
  /\ lh' = <<>>
  /\ head' = <<>>
  /\ boot' = "up"
  /\ UNCHANGED <<outstanding, committing, cache, dirty, disk, logdisk, local, tail>>

-----------------------------------------------------------------------------
Call(p) ==
  \/ begin_op(p)
  \/ \E b \in Blocks : LogWriteCheck(p, b)
  \/ \E v \in Values : log_write(p, v)
  \/ end_op(p)

Commit(p) == write_log(p) \/ write_head(p) \/ install_trans(p) \/ erase(p) \/ committed(p)

Next ==
  \/ \E p \in Procs : Call(p) \/ Commit(p)
  \/ \E b \in Blocks : bread(b) \/ Recycle(b)
  \/ Crash
  \/ read_head \/ RecoverInstall \/ RecoverErase

Spec == Init /\ [][Next]_vars

-----------------------------------------------------------------------------
(* Properties.                                                             *)

(* What recover_from_log would make of the disk after a crash now.         *)
Recovered ==
  [b \in Blocks |->
    IF b \in Elements(head)
      THEN logdisk[CHOOSE i \in 1 .. Len(head) : head[i] = b]
      ELSE disk[b]]

(* The blocks as system calls see them.                                    *)
Seen == IF Up THEN [b \in Blocks |-> Buffer(b)] ELSE Recovered

Active == {p \in Procs : pc[p] \in {"call", "append", "panic"}}

Abstract == INSTANCE Transactions WITH
  active <- Active, current <- Seen, durable <- Recovered

(* The comment at log.c 9-20: commits are atomic, whenever the machine     *)
(* crashes (also while it recovers), and a commit holds no changes of a    *)
(* call that is still active.                                              *)
CommitsAreAtomic == Abstract!Spec

(* When the last end_op is done the changes are durable and the log is     *)
(* empty.                                                                  *)
QuietIsDurable ==
  (Up /\ outstanding = 0 /\ ~ committing) =>
    /\ lh = <<>> /\ head = <<>> /\ dirty = {}
    /\ disk = Seen

(* begin_op loses no wakeup: while a process sleeps in it, there is a call *)
(* or a commit at whose end it will be woken.                              *)
BeginNoLostWakeup ==
  \A p \in Procs : pc[p] = "asleep" => committing \/ outstanding > 0
=============================================================================
