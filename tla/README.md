# A TLA+ model of the jacobi-maekawa kernel and its programs

The repository is xv6 for x86 (a small multiprocessor Unix kernel in C) with
three additions: messages between processes, multicasts that arrive as signals,
and two parallel programs, `assig1_8` (sum and variance by messages and
multicasts) and `jacob` (Jacobi iteration over pipes). Despite the repository's
name it has no Maekawa program.

This directory holds TLA+ modules for the kernel from the disk driver to the
system calls, for the shell with init, cat and echo, and for the two parallel
programs; TLC configurations that check them on small instances; and TLAPS
proofs, for all instances, about messages, signals, `assig1_8`, processes, pipes,
the log and the buffer cache.

## The system

| Part | State | Operations | What makes it hard |
|---|---|---|---|
| Process table, scheduler (`proc.c`, `trap.c`) | `ptable`: state, pid, parent, chan, killed, kernel stack; what each CPU runs | fork, exit, wait, kill, sleep, wakeup, yield, scheduler | two CPUs; a zombie's stack; orphans; fork fails half way |
| Unicast messages (`proc.c` 586-647) | `recv_queue` per process: an array with head and tail | send, recv | test and sleep against append and wakeup; no test for a full queue |
| Multicasts, signals (`proc.c` 649-850) | `recv_multi_queue`, `pending_signals`, `handling`, `handler` | send_multi, sig_send, sig_pause, handle_signals, sig_ret | send_signal takes no lock; two queues advanced together |
| Signal frames (`proc.c` 778-850, `trapasm.S`, `sigretcode.S`) | trapframe, user stack | trap, trapret, handle_signals, handler, sig_ret | frame and handler share the user's stack; traps at any instruction |
| `assig1_8.c` | what the parent has received, `sreceived` and the mean of a child | the program | sums and variances in one queue; test of `sreceived` then pause |
| Pipes (`pipe.c`, part of `file.c`) | buffer, `nread`, `nwrite`, `readopen`, `writeopen` | read, write, close, kill | sleep on another lock than ptable.lock; counters wrap; page freed by the last close |
| Log (`log.c`) | header in memory and on disk, `outstanding`, `committing` | begin_op, log_write, end_op, commit, recovery | crashes between disk writes; group commit; eviction of buffers |
| `jacob.c` | grids, pipes, `count` | ghost exchange, computation, reports, orders, collection | neighbours at different rounds; short reads; writes that block |
| Buffer cache, disk driver (`bio.c`, `ide.c`) | LRU list, reference counts, `idequeue` | bget, brelse, iderw, ideintr | a process waits for an interrupt that serves a queue; no free buffer |
| Sleep locks (`sleeplock.c`) | `locked`, `pid` | acquiresleep, releasesleep | a wakeup that finds the lock taken again |
| Inodes, directories (`fs.c`, `sysfile.c`) | inode cache, `nlink`, `ref`, bitmap | iget, iput, ilock, create, link, unlink | last reference against unlink; calls that lock two inodes; lookups through directories that disappear |
| Open files (`file.c`, `sysfile.c`) | `ftable`, descriptors | dup, close, open, pipe, fork, exit | reference counts across processes; tables full |
| Memory (`kalloc.c`, `vm.c`, `exec.c`) | free list, page tables | kalloc, kfree, allocuvm, copyuvm, exec, sbrk | failure half way must free what was taken |
| Console (`console.c`) | `input.r`, `input.w`, `input.e` | consoleintr, consoleread | interrupt against reader; indices wrap; end of file |
| Shell, init (`sh.c`, `init.c`) | the line, the tree of commands | the parser, runcmd, the main loops | who closes which end of which pipe; who waits for whom; failing forks |
| `mkfs.c` | the image of the disk | run once on the host | the kernel relies on what it leaves |

How they interact: every part sleeps and wakes through `sleep` and `wakeup1` of
the process table under `ptable.lock`. Messages and signals are part of
`struct proc` and use the same lock. `jacob` uses pipes; `assig1_8` uses
messages, multicasts and signals; files and directories use the log, which uses
the buffer cache, which uses the disk driver. The shell uses processes, memory,
open files, pipes and the console at once.

## The modules

| Module | Models | Notes |
|---|---|---|
| `Ring` | the circular queues of `types.h` | the append, the removal and the contents of a queue; no test for full, as in the code |
| `Mailbox` | abstract | a FIFO per process: the specification of unicasts, multicasts and pipes |
| `Ipc` | `proc.c` 586-850 with sleep, wakeup1, kill, yield, scheduler | core module |
| `MCIpc` | instances of `Ipc` | which process makes which calls |
| `CircularLemmas` | lemmas on sequences and circular buffers | what putting and taking does to the contents; for `Ring` and `Pipe` |
| `Ipc_proofs` | proofs about `Ipc` | types, FIFO queues, synchronisation |
| `Assig1_8`, `MCAssig1_8` | `assig1_8.c` composed with `Ipc` | the program's steps constrain and use the kernel's actions; proofs in `Assig1_8_proofs` |
| `SignalFrame` | user stack and trapframe of one process, word by word | the delivery of signals and `sig_ret`; proofs in `SignalFrame_proofs` |
| `ProcTable` | fork, exit, wait, kill, scheduling | a process table with slots, kernel stacks and several CPUs; proofs in `ProcTable_proofs` |
| `Pipe` | `pipe.c`, `fileclose`, sleep with another lock | refines `Mailbox`; proofs in `Pipe_proofs` |
| `Log`, `MCLog` | `log.c`, with what it needs of `bio.c` | refines `Transactions`; proofs in `Log_proofs` |
| `Transactions` | abstract | atomic, durable groups of changes |
| `Jacobi` | `jacob.c` after its set-up | composed with the behaviour of pipes of limited size |
| `Bio`, `MCBio` | `bio.c`, `sleeplock.c`, `ide.c` | refines `BlockStore`; proofs in `Bio_proofs` |
| `BlockStore` | abstract | an array of blocks that a process has to itself while it holds them |
| `Inode` | `fs.c` below the system calls | functions on the state of the inode layer |
| `Mkfs` | `mkfs.c` | the image as a function of the programs to install |
| `Fs`, `MCFs` | `sysfile.c`, `file.c`, and `iput` and `namex` of `fs.c` | several processes on `Inode`, from the image of `Mkfs` |
| `Vm` | `kalloc.c`, `vm.c`, `exec.c` | functions on the free pages and an address space |
| `Console` | the input half of `console.c` | functions on the input buffer |
| `Files` | `file.c`, the calls on descriptors in `sysfile.c`, `pipealloc`, `pipeclose` | functions on the file table |
| `ShParse` | the parser of `sh.c`, and its grammar | recursive operators, used by TLC only |
| `Shell`, `MCShell` | `sh.c`, `init.c`, `cat.c`, `echo.c` on all four | composition of `Vm`, `Console`, `Files` and `ShParse` |

### Ipc

A section of code under `ptable.lock` that shares nothing with unlocked code is
one action: `send_mess`, `recv_mess` up to its sleep, `kill`, `exit`. `send_signal`
has its `acquire` and `release` commented out (`proc.c` 703, 712). `send_multicast`
holds the lock around it and `sys_sig_send` does not, so its memory accesses are
actions of their own: `SignalLoadTail`, `SignalStoreTail`, `SignalLoadChan`,
`SignalTest`, `SignalWake`. `pause_signal` is split between test and sleep for the
same reason. `handle_signals` runs without the lock on the way to user space.
`oncpu[p]` counts CPUs that execute `p`, so that a process made RUNNABLE while
it executes can be seen to run twice. `Calls` says who may call what on whom,
and `MCIpc` splits it into the sets of calls that one execution makes;
`MaxPending` and `MaxSignals` bound the waiting messages and signals.

### SignalFrame

The stack is an array of words. `handle_signals` pushes the trapframe (a few of
its words stand for all: eip, esp, eax), the code of `sigret`, the message and the
return address; the handler uses the stack below; `ret_signal` finds the frame by
its distance from esp. Interrupts and system calls fall between any two steps.

### ProcTable

Actions are the critical sections of `proc.c` between acquires and releases of
`ptable.lock`, with fork in the four parts in which others can intervene (slot,
stack, copy, publish), and `ForkFail` at the two places where memory can run out.
Init (the process) never exits and is not killed.

### Pipe

Each byte is one action under `p->lock`; `sleep` is two actions (ptable.lock
taken and `p->lock` released; SLEEPING and ptable.lock released), and the return
from sleep acquires `p->lock` again. `UINT` is the number of unsigned ints, so
that the counters wrap within a run.

### Log

A system call is `begin_op`, some `log_write`s and `end_op`. `log_write` tests
`lh.n` before it takes `log.lock`, hence two actions. Every disk write is an
action; `Crash` clears memory and starts `recover_from_log`. `Recycle` models
that `bget` may reuse any clean unlocked buffer. `panic` stops the process but
not the other CPUs. A block write is atomic: a block is one disk sector.

`begin_op` reserves `MAXOPBLOCKS` blocks out of `LOGSIZE`, but the log on the disk is
`size = LOGSIZE` blocks with its header (`mkfs.c` 25), so it holds one less
(`LogSlots`). What follows it on the disk is the first block of inodes: a copy to
slot `size` goes there, and is read back from there (`LogBlock`). A call writes at
most `OpBlocks` blocks, fewer than are reserved: 7 of 10 for `filewrite`, with
four data blocks, the bitmap, the indirect block and the inode.

### Jacobi

A number of the grid is abstracted to its row and the number of times the row was
computed; a row computed from rows of unequal rounds is `Junk`. Whether a
change exceeds E is a free choice at each computation. Pipes hold `PipeUnits`
words of 4 bytes, with partial writes and short reads as in `pipe.c`. Closing of
descriptors, failing forks and failing pipes are left out.

### Bio

A section under `bcache.lock`, under the spin lock of a sleep lock or under
`idelock` is one action, and so is what the drive does. A caller takes buffers in
ascending order. The numbers of the model are ranks, not addresses: `log.c` takes a
log block before the block it copies, `fs.c` an indirect block before the bitmap,
whose address is lower. In no fixed order two callers can wait for each other. `Change` stands for a caller that changes a
buffer it holds and pins it with `B_DIRTY`, as `log_write` does.

`BlockStore` is what the callers see: the content of a block is that of its
valid buffer, or of the disk if it has none, and its owner is who holds it.

### Inode, Mkfs and Fs

A block holds `BSIZE` cells: a directory entry, an address or a datum each. The
functions of `fs.c` that run under the lock of one inode or of one buffer are
functions in `Inode`. `Fs` runs them: taking the lock of an inode is a step of its
own, and so is every part of a call that others can see (`CreateNew`,
`CreateDots`, `CreateEnter`; `LinkOld`, `sys_link`, `LinkBad`). `iput` is three
steps, because it looks at `ref` under `icache.lock` and decrements it later, in
another section. A path is a sequence of names with a start; `skipelem` and the
truncation of long names are left out. A process has at most one open file.
`tx` is `log.outstanding` with names: when it is empty everything is committed,
which is what module `Log` shows, so `CommittedIsConsistent` is about all states a
crash can bring back.

### Vm, Console, Files, ShParse and Shell

A user program is the sequence of system calls it still makes; `runcmd`
translates a tree of commands into one. Each call is a step (reads and writes on
the console and on pipes take as many steps as they sleep), so processes of a
pipeline interleave between their calls. What happens inside a call is in
`ProcTable`, `Pipe` and `Fs`. Pages have identities, contents have not; a space has
a directory, tables on demand and `NKTAB` tables for the kernel. Keys are
characters; what programs print is counted.

## What TLC checks

Passing runs:

| Run | Instance | Shows |
|---|---|---|
| `Ipc` | two processes, two messages, queues of 3, two signals waiting: one multicasts to both and kills, the other pauses and exits; or one sends, signals itself and kills, the other receives and exits; both are preempted | `TypeOK`, `PauseNoLostWakeup`, `RunsOnOneCpu`, `ZombieStays`, `MulticastFifo` (refinement of `Mailbox`) |
| `Assig1_8` | `assig1_8` with type 1 on the kernel of `Ipc` | `VarianceUsesMean`, `EachChildOnce`, `RecvNoLostWakeup`, `UnicastFifo` (refinement of `Mailbox`), `StopsOnlyAtMissedMean` |
| `SignalFrame` | stack of 12 words, two values, two words of program data, fair | `FrameIntact`, `ContextRestored`, `SignalsHandled` |
| `ProcTable` | init and three slots, two CPUs, kills, failing forks, fair | `StackNotShared`, `WaitNoLostWakeup`, `KilledNotAsleep`, `OrphansReaped` |
| `Pipe` | two readers, a writer, buffer of 2, ints modulo 4, writes of 1 and 3, kills of one of each, fair | `PipeFifo`, `PipeNoLostWakeup`, `NotUsedAfterFree`, `ClosedEndsCall` |
| `Log` | two processes, three blocks of two values, calls of 2 blocks of 3 reserved, log of 6 with the header | `CommitsAreAtomic` (refinement of `Transactions`), `QuietIsDurable`, `BeginNoLostWakeup` |
| `Jacobi` | three children, 7 x 7 grid, two rounds, pipes of one row, fair | `RowsOfOneRound`, `ResultIsSequential`, `Terminates` |
| `Bio` | two processes, two buffers, three blocks of two values, fair | `BlocksHeldAlone` (refinement of `BlockStore`), `RefcntExact`, `CleanMatchesDisk`, `BreadReturns` |
| `Fs` | two processes, 30 pairs of scripts of up to five calls, 6 inodes, 12 blocks of 2 cells, one direct and two indirect blocks per file, 5 cache entries | `CommittedIsConsistent`, `CacheCoherent`, `RefsExact`, `OnlyDropsDeadlock` |
| `Shell` | 13 kinds of sessions on machines of 30 to 64 pages, 6 processes, 4 files, 5 descriptors, pipes of 2 characters, a console buffer of 13 and a line buffer of 11; the parser on all lines of up to 5 tokens | `LinesAsEdited`, `PagesExact`, `FilesExact`, `ParsedAsWritten`, `BackToPrompt` |

Runs that refute a statement of the repository:

| Run | Statement | What happens |
|---|---|---|
| `IpcSigSendPause` | "Once we hold ptable.lock, we can be guaranteed that we won't miss any wakeup" (`proc.c` 453-455) | sig_send without the lock falls between the test and the sleep of sig_pause |
| `FsOrphan` | "If that was the last reference and the inode has no links to it, free the inode (and its content) on disk." (`fs.c` 328-329) | two processes drop the last two references to an unlinked inode at once; each sees the other's, and nobody frees it |

Why the bounds are enough. Queues of 2 or 3 slots wrap around within the bound on
waiting messages; the bounds keep a queue below its capacity, because the code
has no test for full and a full queue reads as empty. Two CPUs and four slots
are what a process needs that exits with a zombie child and a parent other
than init. A pipe of two bytes gets full,
empty and wraps with a write of three. Two calls fit into the log only
while it is empty, so they overlap and they make `begin_op` wait. Three children give one with two neighbours; pipes of one row make the
final collection block. Two buffers for three blocks make `bget` recycle, and
reach its panic when one process holds both; two processes are enough for a
queue at the drive and for waiting on a held buffer. In `Fs` a directory with
three entries needs a second block, and a file of three blocks uses the indirect
one and is full; the scripts pair every call that removes a name with calls that
use it, one of them with links to `.` and `..`. In `Shell` most sessions run out of pages at every point of
fork, exec and sbrk in turn, a pipeline of three runs out of files, and `cat` fills
a pipe that nobody reads. One line does not fit into the console buffer and
is lost; another one only exceeds the buffer of the shell, which takes it for two
commands, and the line after it wraps around in the console buffer. Grammar and
parser are compared on all 66430 lines of up to 5 characters out of a letter, the
blank and the seven symbols, and on some longer ones with parentheses.

Fairness. A process that is RUNNABLE is eventually run (round robin in
`scheduler`), one that executes takes its next step, and a lock that is free again
and again is eventually obtained. The last is strong fairness, which spin locks
with `xchg` do not promise in theory and give in practice; the liveness
properties of `ProcTable` and `Pipe`, and `BreadReturns` for sleep locks, rest on it.
`Bio` assumes besides that the drive answers and that callers release
their buffers. `Shell` assumes only that the machine does not stand still while
some process can go on or a key is to come: its sessions are finite. `Jacobi` needs
only weak fairness, because a pipe has one reader and one writer there.
`ProcTable` assumes for processes other than init only that they go on while they
execute and that the timer ticks, and for init that it keeps calling wait
(`init.c`). Nothing is assumed about programs making calls.

Deadlock is checked in `ProcTable`, `Log` and `SignalFrame`. The others
may stop: every process may have exited, nobody calls anything, the scripts and
sessions end, or the kernel has panicked. In `Assig1_8` and `Fs` an invariant says
instead in which states processes may stand still.

Symmetry is used in `Ipc` (of messages) and in `Log` (of processes, and of the blocks
other than the one behind the log), whose properties are all safety properties
that do not tell these apart.

## What is proved

The theorems hold for all constants that satisfy the named assumption of the
module they are about; TLC evaluates the assumptions on every run. Each one
concludes from an inductive invariant, which TLC confirmed on the instance of the
module's run (`SyncInv` on that of `Ipc` with the sig_send call taken out). The
proof of its preservation has a lemma for each action, and actions that touch
nothing of it share one.

| Theorem | Module | States | For all |
|---|---|---|---|
| `TypeCorrect` | `Ipc_proofs` | `[]TypeOK` | processes, queue sizes, calls, bounds |
| `UnicastSafe` | `Ipc_proofs` | `UnicastFifo`, a refinement of `Mailbox` | the same, if `MaxPending < NUM_MSG` |
| `MulticastSafe` | `Ipc_proofs` | `MulticastFifo`, a refinement of `Mailbox` | the same, if `MaxSignals` is below `NUM_MSG` and `MAX_SIG` |
| `RecvSafe` | `Ipc_proofs` | `RecvNoLostWakeup` | the same |
| `PauseSafe`, `OneCpu`, `ZombiesStay` | `Ipc_proofs` | `PauseNoLostWakeup`, `RunsOnOneCpu`, `ZombieStays` | the same, if nobody calls sig_send (`NoSigSend`) |
| `VarianceCorrect`, `SumsCorrect`, `StopsSafe` | `Assig1_8_proofs` | `VarianceUsesMean`, `EachChildOnce`, `StopsOnlyAtMissedMean` | numbers of children, both types, bounds, if `2 * CHILDS < NUM_MSG` and `MAX_SIG > 1` |
| `FrameSafe`, `RestoreSafe` | `SignalFrame_proofs` | `[]FrameIntact`, `ContextRestored` | stacks, depths of the program, messages |
| `StacksSafe`, `WaitSafe`, `KillSafe` | `ProcTable_proofs` | `StackNotShared`, `WaitNoLostWakeup`, `KilledNotAsleep` | slots, CPUs, pids |
| `FreeSafe`, `SleepSafe` | `Pipe_proofs` | `NotUsedAfterFree`, `PipeNoLostWakeup` | readers, writers, sizes of calls and of the buffer |
| `FifoSafe` | `Pipe_proofs` | `PipeFifo`, a refinement of `Mailbox` | the same, and counters that wrap at any multiple of `PIPESIZE` above it |
| `DurableWhenQuiet`, `BeginSafe` | `Log_proofs` | `QuietIsDurable`, `BeginNoLostWakeup` | finite sets of processes, blocks, values, sizes of the log and of calls with `OpBlocks < MAXOPBLOCKS <= LOGSIZE` |
| `LogRefines` | `Log_proofs` | `CommitsAreAtomic`, a refinement of `Transactions` | the same |
| `LogNeverFull` | `Log_proofs` | the log on the disk is never full and `log_write` never panics | the same, if `OpBlocks + 2 <= MAXOPBLOCKS` |
| `RefcntSafe` | `Bio_proofs` | `RefcntExact` | finite sets of processes, buffers, blocks, values, failing reads |
| `CleanSafe` | `Bio_proofs` | `CleanMatchesDisk` | the same, if no read fails (`TRUE \notin DiskErrors`) |
| `BioRefines` | `Bio_proofs` | `BlocksHeldAlone`, a refinement of `BlockStore` | the same as `CleanSafe` |

### Messages and signals

`TypeInv` adds to `TypeOK` that a process in the middle of a multicast has a
receiver left. `RecvNoLostWakeup` is inductive beside it: only `recv_mess` puts a
process to sleep on its queue, after finding it empty under the lock; `send_mess`
wakes whoever it appends to; `pause_signal` sleeps on another channel. All other
steps wake processes at most (`WakesOnly`), and then the loop tests again.

With sig_send the three properties of the synchronisation fail: `IpcSigSendPause` shows
it for the first, and the observations below name the other two. None of the
three is inductive by itself. `SyncInv` is: it adds who holds the lock and where that
process may be (`LockInv`), that state and channel of a process agree with its
place in the code (`StateInv`), that what send_signal has read of its receiver is
still true because it holds the lock (`PostInv`), and a form of
`PauseNoLostWakeup` that names the holder of the lock (`PauseInv`).

The two FIFO theorems rest on `CircularLemmas`: putting an entry into a circular
buffer that is not full appends it to the contents, taking one removes the
first, whatever the two counters are and wherever they wrap. `UnicastSafe` needs
no more than the types. `MulticastSafe` has to relate two queues that the code
advances together but at different moments: `PairInv` says that a process has a
message for each of its signals, and one more while a multicast that has
stored the message has not yet stored the signal (`Flying`). There is one such
multicast at a time because it holds the lock (`OwnInv`). That handle_signals
takes no lock does not matter. Processes that others send bare signals to are
excluded (`MulticastOnly`), because such a signal takes a message that is not
its own. The hypotheses on `MaxPending` and `MaxSignals` are needed: no
function of the code tests for a full queue.

### The program assig1_8

A step of the program is a step of `Ipc` or one that `Ipc` does not see
(`ProgramStep`), so the theorems about `Ipc` hold of the program. It calls no
sig_send (`ProgCalls`), hence `SyncInv` holds, and the proofs here build on it.

`ProgInv` has five parts. `MeanInv` follows the mean on its way to each child: not
sent, in the queue, signalled, with the handler, noted in `sreceived`
(`Fresh`, `Queued`, `Signalled`, `Handles`, `Informed`); where the multicast is decides which.
`ChildInv` and `ParentInv` tie the statement of the program to the place in
the kernel and to the number of messages added up. `PauseEnds` says that a child
past sig_pause without the mean is still inside pause_signal, or has the
signal and is on its way to handle_signals. `MailInv` says that every message sent
is in one place: waiting, in hand, or added up.

`VarianceCorrect` is `PauseEnds` for a child in user mode. The step that needs an
argument is the wakeup: a child is woken from the pause only by the multicast that
has already stored its signal, because it holds the lock (`PostInv`).

`SumsCorrect` rests on a count. A variance is sent only after the mean, so after all
sums are added up; as each child has sent one sum, the first `CHILDS` messages are
these. That the queue has room is part of it: at most `2 * CHILDS` messages are
ever sent (`Counts`, proved in `HowMany` from `FiniteSetTheorems`), and the
assumption says that they fit (`CHILDS` is 5 and `NUM_MSG` 32).

`StopsSafe` looks at a state where everybody sleeps or has exited. Nobody
holds the lock then, so no wakeup is on its way. A parent asleep in recv has
an empty queue (`RecvSafe`), so it has added up all that was sent; the children are in
the pause or gone, so that is all sums, and the multicast is over. A child in the
pause has no signal left, so it has handled the mean: this is the missed mean. If there
is none, all children are gone and have sent their variances, and the parent would
not be waiting.

### Signal frames

`ret_signal` finds the trapframe from esp alone, so the invariant fixes where eip
and esp are relative to the interrupted esp: in the handler, or in the code of
sigret after it (`HandlerInv`). `FrameInv` is `FrameIntact` word by word. The
argument is that the handler and the traps in it write below the frame only.

### Processes

The invariant says of each state which code the process is in (`CodeInv`), on how
many CPUs it is (`CpuInv`), who holds `ptable.lock` between two steps (`LockInv`),
that the slot fork works on is an EMBRYO of its own (`ForkInv`), that init has no
parent and does not exit (`ParentInv`), and who may sleep (`SleepInv`).
`StackNotShared` follows because a process is a ZOMBIE or SLEEPING with a CPU
on its stack only while it holds the lock.

### Pipes

The invariant has the holders of the two locks (`LockInv`), the side of a process
(`RoleInv`), that who is in the kernel has its end open and that one process at most closes
an end (`EndInv`), and for those who have called sleep and are not woken yet that
the reason still holds or that somebody is still in the loop at whose end it wakes
them (`ReaderInv`, `WriterInv`). For the FIFO a smaller one suffices: at most
`PIPESIZE` bytes lie between the counters.

### The log

`Log_proofs` goes from the invariant and the system calls to commit, crashes,
recovery and the conclusions. The invariant says what is on the disk, in
the log and in the cache at each place of the commit (`CommitInv`) and of recovery
(`BootInv`): which prefix of the log is copied (`Copied`), which is installed
(`Installed`), which buffers are dirty.

That the log on the disk never overflows is a counting argument, and not one about
the test in `log_write`: two processes can both pass it with one block left, since
it reads `lh.n` without the lock. `Unused` is the set of blocks that the active calls
may still log, as pairs of a call and a number; `SpaceInv` says that the blocks in
the header and these together fit into
`Room == LOGSIZE - (MAXOPBLOCKS - OpBlocks)`. `begin_op` adds `OpBlocks` pairs after testing
that `MAXOPBLOCKS` fit, a call that logs a new block gives up a pair, and a
block that another call has logged takes no room. `Room` is at most the
`size - 1` blocks on the disk because a call writes less than is reserved for it
(`OpBlocks < MAXOPBLOCKS`). This is needed: with `OpBlocks = MAXOPBLOCKS` TLC finds
two calls whose last block is copied over the first block of inodes. With
one more block to spare, as in the code, the panic is out of reach too (`LogNeverFull`).
The sizes come from `FiniteSetTheorems`.

For the refinement, what a crash would leave (`Recovered`) changes in one step
only, the write of the header. All other steps of commit and recovery, crashes
in the middle of either included, leave it alone.

### The buffer cache

Neither `RefcntExact` nor `CleanMatchesDisk` is inductive. `Inv` adds that every buffer
is in the list (`ListInv`, so that bget finds what is cached), that a dirty
buffer is valid (`CopyInv`), what a process knows of the buffer it locks, reads or
holds (`LockInv`), that a buffer in `idequeue` has a transfer to do and a process
that waits for it (`QueueInv`), and that the drive works on the head of the
queue or has done so, with the result in its latch or on the disk (`DriveInv`).
`RefInv` counts the users of a buffer as a set of processes; a step adds or removes
one. All this holds with failing reads too.

The other two theorems need a drive whose reads do not fail, because ideintr
marks the buffer of a failed read valid (see the observations below). The
refinement maps a block to its valid copy, or to the disk if it has none: a
transfer in either direction changes neither, recycling is safe because what is
recycled is clean, and a process has a block from the end of bread to the start of
brelse because of the sleep lock.

### What is only model-checked

- Liveness (`SignalsHandled`, `OrphansReaped`, `ClosedEndsCall`, `Terminates`,
  `BreadReturns`, `BackToPrompt`): out of the prover's reach, as is ENABLED.
- All of `Shell`: it uses the recursive operators of `ShParse`, and tlapm has no SMT
  backend in a module that reaches RECURSIVE operators. `ParsedAsWritten` would
  need induction over data besides, which the provers do not have.
- `RowsOfOneRound` and `ResultIsSequential` of `Jacobi`: that the rows of the children
  adjoin, are not empty and cover the grid are facts about sums over the children
  (`works`, `end_index`), and for all sizes these need induction over data.
- The four invariants of `Fs`: they quantify over all blocks and entries that writei
  changes, and writei is a fold over the cells it is given (`Inode`), again induction over
  data.

## Observations without a run

- sig_send without the lock also lets `wakeup1` store RUNNABLE into a process that
  has since run or exited: in `Ipc` with other `Calls`, `RunsOnOneCpu` and
  `ZombieStays` fail in the same way.
- `NUM_MSG` messages waiting make a queue read as empty (`types.h`, `proc.c` 599).
- A child of `assig1_8` that handles the mean between its test of `sreceived`
  (`assig1_8.c` 118) and `sig_pause` sleeps for ever. `StopsOnlyAtMissedMean` says that
  the program stops in no other way.
- `syscall()` stores the result of `sig_ret` over the restored eax (`syscall.c` 172).
  `ContextRestored` is about eip and esp.
- A fork that fails leaves the pid in the slot (`proc.c` 214), and `kill` does not
  look at the state: the next process in this slot can be born killed.
- A writer killed when the pipe is full returns without a wakeup (`pipe.c` 85):
  readers sleep although there are bytes, until the next write or close.
- The log on the disk has `LOGSIZE - 1` blocks besides its header (`mkfs.c` 25), one
  less than `begin_op` reserves and `param.h` 11 says. Calls that write all of
  `MAXOPBLOCKS` blocks would reach the panic of `log_write` or, when two of them pass
  its test together, the block behind the log; those of `fs.c` write fewer.
- `jacob` ignores the result of read. If a child's rows exceed a pipe and a row does
  not divide it, a short read shifts the rows the parent prints (`Jacobi` with
  `PipeUnits = 10`). Rows longer than a pipe (N > 512) deadlock.
- A read that ends with an error marks the buffer valid (`ide.c` 119-123): with
  `DiskErrors = {TRUE, FALSE}`, `CleanMatchesDisk` fails.
- `sys_unlink` (`sysfile.c` 225) and `create` (`sysfile.c` 281) drop the parent with the
  child locked. `iput` takes the lock of the parent again, and a process that holds
  the parent and waits for the child never gets it. A link to the name `..` of a
  directory does the same: `dirlink` finds the parent and drops it, with the directory
  locked (`sysfile.c` 147). With the name `.` it finds the locked directory, and the
  process waits for itself. `OnlyDropsDeadlock` says that there is no other circle.
- A name entered in a directory that was removed after the lookup is lost with
  it, and its inode with it. The scripts have none.
- An inode that is unlinked while open stays allocated after a crash.
- The comment at `fs.c` 133-134 says that `iput` clears `valid` when `ref` reaches
  zero. It does so only for an inode without links; `iget` clears it on reuse.
- `mkfs` rounds the size of the root directory up by a whole block when it is
  already full (`mkfs.c` 161): the last block then has no address.
- The shell treats `>>` like `>` without truncation (`sh.c` 391), and does not look
  whether malloc returned 0; `Sbrk` takes such a process to end. A shell that
  cannot fork ends and is replaced by init. If init cannot fork, it exits and the
  kernel panics; the machines of the run have the pages for init's fork.

## Not modelled

- Boot, CPU discovery and interrupt controllers run once before there is anything
  to interleave. Segment descriptors and the format of page tables are hardware.
- The contents of pages, `copyout`, and the check of user pointers: no property
  here tells contents apart.
- Screen, serial port, key map, `cprintf` and `printf` are input and output of
  characters one at a time.
- Counting of system calls, `ps`, `sleep`, `uptime` and the ticks counter.
- The other utilities, `usertests.c`, `forktest.c`, `stressfs.c` and `assig1_7.c`:
  sequential programs over the modelled calls, or tests of them. `malloc` and
  `free` are there only as the sbrk that the shell makes.
- `jacob`: its input, the case N <= 2, its failing forks and pipes and the closing of
  descriptors. `jacoblinux.c` is the same program for Linux.
- Kills and signals in `Shell`, and exec in `SignalFrame`: exec resets the handler
  but not `handling` nor the pending signals.
- Spin locks: they are the atomicity of the actions. Interrupts are off while one
  is held (`pushcli`), so no handler can wait for it on the same CPU.
