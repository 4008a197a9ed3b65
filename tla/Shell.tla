------------------------------- MODULE Shell --------------------------------
(***************************************************************************)
(* A session at the console: init keeps a shell running, the shell reads   *)
(* lines that somebody types and edits, parses them (ShParse.tla) and runs *)
(* them with fork, exec, wait, pipe, dup, open and close on the memory of  *)
(* Vm.tla, the files of Files.tla and the console of Console.tla.          *)
(*                                                                         *)
(* A process is an entry of the process table with `ops', what its user    *)
(* program still does: a sequence of system calls, each of which is one    *)
(* step of the model, or several where the kernel sleeps in between.  What *)
(* is inside a system call is modelled in ProcTable, Pipe and Fs.  There   *)
(* are no kills and no signals here.  Characters are counted, not kept,    *)
(* once a filter has read them.                                            *)
(***************************************************************************)
EXTENDS Integers, Sequences, FiniteSets, Vm, Console, Files, ShParse

LOCAL INSTANCE FiniteSetsExt
LOCAL INSTANCE SequencesExt

CONSTANTS
  NPROC,      \* entries of the process table; the first is init
  Sessions,   \* what is typed: [keys, pages, out] with the pages of the
              \* machine and what the programs may print in all
  Programs,   \* the executable files of the disk with their pages
  Lines,      \* lines on which the parser is compared with its grammar
  SBRK,       \* pages by which malloc grows a process (morecore)
  BUF,        \* characters that cat reads at once
  NBUF        \* size of the buffer for a line in main of sh

VARIABLES
  con,        \* input of the console
  keys,       \* what is still to be typed
  typed,      \* what has been typed
  taken,      \* what has been read from the console
  lost,       \* a key found the buffer full, or filled it
  F,          \* free pages, open files, pipes and the disk
  proc,       \* ptable.proc
  out,        \* how much echo and cat have written to the console
  session

vars == <<con, keys, typed, taken, lost, F, proc, out, session>>
terminal == <<con, keys, typed, taken, lost, session>>

Slots == 1 .. NPROC
initproc == 1
Registers == {"0", "1", "p0", "p1", "fd"}

-----------------------------------------------------------------------------
(* The programs, as the system calls they make.                            *)

(* runcmd of a pipeline.                                                   *)
CloseBoth == <<<<"close", "p0">>, <<"close", "p1">>>>
PipeChildren(l, r) ==
  <<<<"pipe">>,
    <<"fork", <<<<"close", "1">>, <<"dup", "p1">>>> \o CloseBoth \o l>>,
    <<"fork", <<<<"close", "0">>, <<"dup", "p0">>>> \o CloseBoth \o r>>>>

(* Faulty: the write end stays open in the process that waits.             *)
PipeOpsKeeps(l, r) ==
  PipeChildren(l, r) \o <<<<"close", "p0">>, <<"wait">>, <<"wait">>, <<"exit">>>>

PipeOps(l, r) == PipeChildren(l, r) \o CloseBoth \o <<<<"wait">>, <<"wait">>, <<"exit">>>>

(* runcmd.                                                                 *)
RECURSIVE runcmd(_)
runcmd(cmd) ==
  CASE cmd.type = "EXEC" ->
         IF cmd.argv = <<>> THEN <<<<"exit">>>> ELSE <<<<"exec", cmd.argv>>, <<"exit">>>>
    [] cmd.type = "REDIR" ->
         <<<<"close", IF cmd.fd = 0 THEN "0" ELSE "1">>,
           <<"open", cmd.file, cmd.create>>>> \o runcmd(cmd.cmd)
    [] cmd.type = "LIST" -> <<<<"fork", runcmd(cmd.left)>>, <<"wait">>>> \o runcmd(cmd.right)
    [] cmd.type = "PIPE" -> PipeOps(runcmd(cmd.left), runcmd(cmd.right))
    [] cmd.type = "BACK" -> <<<<"fork", runcmd(cmd.cmd)>>, <<"exit">>>>
    [] OTHER -> <<<<"exit">>>>

(* The main loop of init.                                                  *)
InitLoop == <<<<"fork", <<<<"exec", <<<<"s", "h">>>>>>, <<"exit">>>>>>, <<"reap">>>>

(* main of sh once it has read a line: the child allocates the tree with   *)
(* malloc while it parses.  A line with cd changes only the directory.     *)
RunLine(line) ==
  IF IsPrefix(<<"c", "d", " ">>, line) THEN <<<<"gets">>>>
  ELSE <<<<"fork", <<<<"sbrk">>>> \o With(parsecmd(line), LAMBDA cmd : runcmd(cmd))>>,
         <<"wait">>, <<"gets">>>>

(* echo writes a character at a time, through printf.                      *)
EchoChars(argv) ==
  LET word(n, i) == n + Len(argv[i]) + 1
  IN FoldLeft(word, 0, [i \in 1 .. Len(argv) - 1 |-> i + 1])
echo(argv) == [i \in 1 .. EchoChars(argv) |-> <<"write", 1, FALSE>>] \o <<<<"exit">>>>

cat(argv) ==
  LET file(ops, i) == ops \o <<<<"open", argv[i], FALSE>>, <<"copy", "fd", 0>>, <<"close", "fd">>>>
  IN IF Len(argv) = 1 THEN <<<<"copy", "0", 0>>, <<"exit">>>>
     ELSE FoldLeft(file, <<>>, [i \in 1 .. Len(argv) - 1 |-> i + 1]) \o <<<<"exit">>>>

main(argv) ==
  CASE argv[1] = <<"i">> -> <<<<"console">>, <<"dup", "0">>, <<"dup", "0">>>> \o InitLoop
    [] argv[1] = <<"s", "h">> -> <<<<"fds">>, <<"gets">>>>
    [] argv[1] = <<"e">> -> echo(argv)
    [] argv[1] = <<"c">> -> cat(argv)

-----------------------------------------------------------------------------
NoProc == [state |-> "UNUSED", parent |-> 0, kstack |-> None, sp |-> NoSpace, sz |-> 0,
           fds |-> [d \in Descriptors |-> Nofile],
           reg |-> [r \in Registers |-> CASE r = "0" -> 0 [] r = "1" -> 1 [] OTHER -> -1],
           ops |-> <<>>, line |-> <<>>]

(* userinit: the first process, with a stack and a page for initcode,      *)
(* which does exec("/init").                                               *)
userinit(n) ==
  LET v == setupkvm(kinit(n) \ {kalloc(kinit(n))})
      w == inituvm(v)
  IN [free |-> w.free,
      p |-> [NoProc EXCEPT !.state = "RUNNABLE", !.kstack = kalloc(kinit(n)), !.sp = w.sp,
                           !.sz = 1, !.ops = <<<<"exec", <<<<"i">>>>>>, <<"exit">>>>]]

Init ==
  /\ session \in Sessions
  /\ keys = session.keys /\ typed = <<>> /\ taken = <<>> /\ lost = FALSE /\ out = 0
  /\ con = consoleinit
  /\ LET u == userinit(session.pages)
     IN /\ F = fileinit(u.free, [f \in DOMAIN Programs |-> 1])
        /\ proc = [q \in Slots |-> IF q = initproc THEN u.p ELSE NoProc]

(* A key is typed: kbdintr or uartintr, then consoleintr.                  *)
Type ==
  /\ keys # <<>>
  /\ con' = consoleintr(con, Head(keys))
  /\ typed' = Append(typed, Head(keys)) /\ keys' = Tail(keys)
  /\ lost' = (lost \/ (Head(keys) \notin {Kill, Backspace} /\ con.e + 1 - con.r >= INPUT_BUF))
  /\ UNCHANGED <<taken, F, proc, out, session>>

-----------------------------------------------------------------------------
(* Steps of a process.                                                     *)

Op(p) == Head(proc[p].ops)
At(p, name) == proc[p].state = "RUNNABLE" /\ Op(p)[1] = name
Reg(p, r) == proc[p].reg[r]

Children(p) == {q \in Slots : proc[q].state # "UNUSED" /\ proc[q].parent = p}
Zombies(p) == {q \in Children(p) : proc[q].state = "ZOMBIE"}

(* p goes on with its next call, or with the given ones.                   *)
Goes(p, ops) == [proc[p] EXCEPT !.ops = ops]
Then(p) == Tail(proc[p].ops)
Exits == <<<<"exit">>>>

(* The result r of a call on descriptors; p goes on with ops.              *)
Called(p, r, ops) ==
  /\ F' = r.F
  /\ proc' = [proc EXCEPT ![p] = [Goes(p, ops) EXCEPT !.fds = r.fds]]
  /\ UNCHANGED <<terminal, out>>

Close(p) ==
  /\ At(p, "close")
  /\ Called(p, sys_close(F, proc[p].fds, Reg(p, Op(p)[2])), Then(p))

Dup(p) ==
  /\ At(p, "dup")
  /\ Called(p, sys_dup(F, proc[p].fds, Reg(p, Op(p)[2])), Then(p))

(* open for a redirection or by cat.  A file that cannot be opened ends    *)
(* the process.                                                            *)
Open(p) ==
  /\ At(p, "open")
  /\ LET create == Op(p)[3]
         r == sys_open(F, proc[p].fds, Op(p)[2], create, ~ create, create)
     IN /\ F' = r.F
        /\ proc' = [proc EXCEPT ![p] = [Goes(p, IF r.ret < 0 THEN Exits ELSE Then(p))
                                          EXCEPT !.fds = r.fds, !.reg["fd"] = r.ret]]
  /\ UNCHANGED <<terminal, out>>

(* init opens the console; on a new disk it is made first.                 *)
OpenConsole(p) ==
  /\ At(p, "console")
  /\ IF ConsoleName \in DOMAIN F.size
     THEN Called(p, sys_open(F, proc[p].fds, ConsoleName, FALSE, TRUE, TRUE), Then(p))
     ELSE /\ F' = [F EXCEPT !.size = @ @@ (ConsoleName :> 0)]
          /\ UNCHANGED <<terminal, proc, out>>

(* main of sh: the console is opened until descriptors 0 to 2 are in use,  *)
(* and the one too many is closed.                                         *)
ThreeOpen(p) ==
  /\ At(p, "fds")
  /\ LET r == sys_open(F, proc[p].fds, ConsoleName, FALSE, TRUE, TRUE)
     IN /\ F' = r.F
        /\ proc' = [proc EXCEPT ![p] =
             [Goes(p, CASE r.ret < 0 -> Then(p)
                        [] r.ret \in 0 .. 2 -> proc[p].ops
                        [] OTHER -> <<<<"close", "fd">>>> \o Then(p))
                EXCEPT !.fds = r.fds, !.reg["fd"] = r.ret]]
  /\ UNCHANGED <<terminal, out>>

Pipe(p) ==
  /\ At(p, "pipe")
  /\ LET r == sys_pipe(F, proc[p].fds)
     IN /\ F' = r.F
        /\ proc' = [proc EXCEPT ![p] = [Goes(p, IF r.ret < 0 THEN Exits ELSE Then(p))
                                          EXCEPT !.fds = r.fds, !.reg["p0"] = r.ret, !.reg["p1"] = r.ret1]]
  /\ UNCHANGED <<terminal, out>>

-----------------------------------------------------------------------------
(* fork: allocproc takes an entry and a stack, copyuvm the memory; what    *)
(* was taken is given back when something is missing, and fork1 panics.    *)
UnusedProcs == {q \in Slots : proc[q].state = "UNUSED"}

ForkFails(p, free) ==
  /\ F' = [F EXCEPT !.free = free]
  /\ proc' = [proc EXCEPT ![p] = Goes(p, Exits)]
  /\ UNCHANGED <<terminal, out>>

ForkDone(p, c, kstack, v) ==
  /\ F' = DupAll([F EXCEPT !.free = v.free], proc[p].fds)
  /\ proc' = [proc EXCEPT
       ![p] = [Goes(p, Then(p)) EXCEPT !.reg["fd"] = IF p = initproc THEN c ELSE @],
       ![c] = [proc[p] EXCEPT !.parent = p, !.kstack = kstack, !.sp = v.sp, !.ops = Op(p)[2],
                              !.line = <<>>]]
  /\ UNCHANGED <<terminal, out>>

Fork(p) ==
  /\ At(p, "fork")
  /\ LET kstack == kalloc(F.free)
     IN IF UnusedProcs = {} \/ kstack = None THEN ForkFails(p, F.free)
        ELSE \E v \in {copyuvm(F.free \ {kstack}, proc[p].sp, proc[p].sz)} :
               IF v.ok THEN ForkDone(p, Min(UnusedProcs), kstack, v)
               ELSE ForkFails(p, kfree(v.free, {kstack}))

(* exec: a program that is there and fits in memory replaces this one;     *)
(* otherwise the call returns.                                             *)
Exec(p) ==
  /\ At(p, "exec")
  /\ LET argv == Op(p)[2]
     IN IF argv[1] \notin DOMAIN Programs
        THEN /\ proc' = [proc EXCEPT ![p] = Goes(p, Then(p))] /\ UNCHANGED F
        ELSE \E v \in {exec(F.free, proc[p].sp, Programs[argv[1]])} :
               /\ F' = [F EXCEPT !.free = v.free]
               /\ proc' = [proc EXCEPT ![p] =
                    IF v.ok THEN [Goes(p, main(argv)) EXCEPT !.sp = v.sp, !.sz = Programs[argv[1]] + 2,
                                                             !.reg = NoProc.reg]
                    ELSE Goes(p, Then(p))]
  /\ UNCHANGED <<terminal, out>>

(* sys_sbrk for the first malloc of a process.  sh does not look whether   *)
(* malloc returned 0: what it writes to then is its own first page, and    *)
(* the process is taken to end.                                            *)
Sbrk(p) ==
  /\ At(p, "sbrk")
  /\ \E v \in {growproc([free |-> F.free, sp |-> proc[p].sp, ok |-> TRUE], proc[p].sz, SBRK)} :
       /\ F' = [F EXCEPT !.free = v.free]
       /\ proc' = [proc EXCEPT ![p] =
            IF v.ok THEN [Goes(p, Then(p)) EXCEPT !.sp = v.sp, !.sz = @ + SBRK]
            ELSE [Goes(p, Exits) EXCEPT !.sp = v.sp]]
  /\ UNCHANGED <<terminal, out>>

(* exit: the descriptors are closed one by one; then the children go to    *)
(* init and the process waits for its parent as a zombie.  init must not   *)
(* exit: the kernel panics.                                                *)
ExitClose(p) ==
  /\ At(p, "exit") /\ p # initproc
  /\ \E d \in Descriptors \ Closed(proc[p].fds) :
       /\ \A e \in Descriptors \ Closed(proc[p].fds) : d <= e
       /\ Called(p, sys_close(F, proc[p].fds, d), proc[p].ops)

Exit(p) ==
  /\ At(p, "exit") /\ p # initproc
  /\ Closed(proc[p].fds) = Descriptors
  /\ proc' = [q \in Slots |->
       CASE q = p -> [proc[q] EXCEPT !.state = "ZOMBIE", !.ops = <<>>]
         [] q \in Children(p) -> [proc[q] EXCEPT !.parent = initproc]
         [] OTHER -> proc[q]]
  /\ UNCHANGED <<terminal, F, out>>

(* wait frees the memory and the entry of the first zombie.  Whoever calls *)
(* it here has a child.                                                    *)
Reap(p, z, ops) ==
  /\ F' = [F EXCEPT !.free = kfree(@, SpacePages(proc[z].sp) \cup {proc[z].kstack})]
  /\ proc' = [proc EXCEPT ![p] = Goes(p, ops), ![z] = NoProc]
  /\ UNCHANGED <<terminal, out>>

Wait(p) ==
  /\ At(p, "wait") /\ Zombies(p) # {}
  /\ Reap(p, Min(Zombies(p)), Then(p))

(* init waits until the zombie is the shell it has started.                *)
WaitForShell(p) ==
  /\ At(p, "reap") /\ Zombies(p) # {}
  /\ LET z == Min(Zombies(p))
     IN Reap(p, z, IF z = Reg(p, "fd") THEN InitLoop ELSE proc[p].ops)

-----------------------------------------------------------------------------
(* Reading and writing.                                                    *)

(* The keys that r, a result of consoleread, has taken.                    *)
Taken(r) == SubSeq(Waiting(con), 1, r.c.r - con.r)

(* gets in getcmd: a key at a time until the end of the line, or until buf *)
(* is full: the rest is then the next line.  An end of file at the start   *)
(* of a line ends the shell.                                               *)
Gets(p) ==
  /\ At(p, "gets") /\ Waiting(con) # <<>>
  /\ \E r \in {consoleread(con, 1, 1)} : \E line \in {proc[p].line \o r.got} :
       /\ con' = r.c /\ taken' = taken \o Taken(r)
       /\ proc' = [proc EXCEPT ![p] =
            CASE r.got # <<>> /\ Last(line) # Newline /\ Len(line) + 1 < NBUF ->
                   [proc[p] EXCEPT !.line = line]
              [] line = <<>> -> Goes(p, Exits)
              [] OTHER -> [Goes(p, RunLine(line)) EXCEPT !.line = <<>>]]
  /\ UNCHANGED <<keys, typed, lost, F, out, session>>

(* read in cat: n characters have come; 0 is the end.  The descriptors     *)
(* that cat reads and writes are always open in the right mode here: a     *)
(* process whose redirection fails exits before it gets to exec.           *)
CopyNext(p, n) ==
  IF n = 0 THEN Then(p) ELSE <<<<"write", n, TRUE>>, <<"copy", Op(p)[2], 0>>>> \o Then(p)

CopyFile(p) == proc[p].fds[Reg(p, Op(p)[2])]
Copies(p, type) == At(p, "copy") /\ F.file[CopyFile(p)].type = type

CopyConsole(p) ==
  /\ Copies(p, "FD_INODE") /\ F.file[CopyFile(p)].ip = ConsoleName
  /\ Waiting(con) # <<>>
  /\ \E r \in {consoleread(con, BUF - Op(p)[3], BUF)} :
       LET n == Op(p)[3] + Len(r.got)
       IN /\ con' = r.c /\ taken' = taken \o Taken(r)
          /\ proc' = [proc EXCEPT ![p] =
               Goes(p, IF r.done THEN CopyNext(p, n) ELSE <<<<"copy", Op(p)[2], n>>>> \o Then(p))]
  /\ UNCHANGED <<keys, typed, lost, F, out, session>>

CopyInode(p) ==
  /\ Copies(p, "FD_INODE") /\ F.file[CopyFile(p)].ip # ConsoleName
  /\ LET f == CopyFile(p)
         n == Min({BUF, Max({0, F.size[F.file[f].ip] - F.file[f].off})})
     IN /\ F' = [F EXCEPT !.file[f].off = @ + n]
        /\ proc' = [proc EXCEPT ![p] = Goes(p, CopyNext(p, n))]
  /\ UNCHANGED <<terminal, out>>

(* piperead: sleeps while the pipe is empty and has a writer.              *)
CopyPipe(p) ==
  /\ Copies(p, "FD_PIPE")
  /\ LET q == F.file[CopyFile(p)].pipe
         n == Min({BUF, F.pipe[q].n})
     IN /\ F.pipe[q].n > 0 \/ ~ F.pipe[q].writeopen
        /\ F' = [F EXCEPT !.pipe[q].n = @ - n]
        /\ proc' = [proc EXCEPT ![p] = Goes(p, CopyNext(p, n))]
  /\ UNCHANGED <<terminal, out>>

(* write to descriptor 1.  cat ends when it fails, printf does not look.   *)
WriteFile(p) == proc[p].fds[1]
Writes(p, type) == At(p, "write") /\ F.file[WriteFile(p)].type = type

WriteFails(p) ==
  /\ proc' = [proc EXCEPT ![p] = Goes(p, IF Op(p)[3] THEN Exits ELSE Then(p))]
  /\ UNCHANGED <<terminal, F, out>>

WriteInode(p) ==
  /\ Writes(p, "FD_INODE")
  /\ LET f == WriteFile(p)
         e == F.file[f].off + Op(p)[2]
     IN IF F.file[f].ip = ConsoleName
        THEN out' = out + Op(p)[2] /\ UNCHANGED F
        ELSE /\ F' = [F EXCEPT !.file[f].off = e, !.size[F.file[f].ip] = Max({@, e})]
             /\ UNCHANGED out
  /\ proc' = [proc EXCEPT ![p] = Goes(p, Then(p))]
  /\ UNCHANGED terminal

(* pipewrite: while the pipe is full it sleeps, or fails when there is no  *)
(* reader; what fits is stored in any case.                                *)
WritePipe(p) ==
  /\ Writes(p, "FD_PIPE")
  /\ LET q == F.file[WriteFile(p)].pipe
         k == Op(p)[2]
         n == Min({k, PIPESIZE - F.pipe[q].n})
     IN IF n > 0
        THEN /\ F' = [F EXCEPT !.pipe[q].n = @ + n]
             /\ proc' = [proc EXCEPT ![p] =
                  Goes(p, IF n = k THEN Then(p) ELSE <<<<"write", k - n, Op(p)[3]>>>> \o Then(p))]
             /\ UNCHANGED <<terminal, out>>
        ELSE ~ F.pipe[q].readopen /\ WriteFails(p)

-----------------------------------------------------------------------------
Step(p) ==
  \/ Close(p) \/ Dup(p) \/ Open(p) \/ OpenConsole(p) \/ ThreeOpen(p) \/ Pipe(p)
  \/ Fork(p) \/ Exec(p) \/ Sbrk(p) \/ ExitClose(p) \/ Exit(p) \/ Wait(p) \/ WaitForShell(p)
  \/ Gets(p) \/ CopyConsole(p) \/ CopyInode(p) \/ CopyPipe(p)
  \/ WriteInode(p) \/ WritePipe(p)

Next == Type \/ \E p \in Slots : Step(p)

(* The keyboard raises its interrupts and a runnable process is scheduled  *)
(* in the end; no more is assumed than that the machine does not stand     *)
(* still while something can happen.                                       *)
Spec == Init /\ [][Next]_vars /\ WF_vars(Next)

-----------------------------------------------------------------------------
(* What readers of the console have got, and what waits for them, is what  *)
(* was typed with the editing keys applied to the line they were typed in, *)
(* as long as the buffer was never full: an editing key never reaches a    *)
(* line that was handed over (consoleintr), and an end of file is seen by  *)
(* exactly one read that returns nothing (consoleread).                    *)
LinesAsEdited == lost \/ taken \o Waiting(con) = Edited(typed)[1]

(* Every page is free or has exactly one use: a kernel stack, a page of    *)
(* one address space, or a pipe; also after a fork, exec, sbrk or pipe     *)
(* that failed half way (allocproc, copyuvm, exec, allocuvm, pipealloc).   *)
PagesExact ==
  LET live == {q \in Slots : proc[q].state # "UNUSED"}
      owned(q) == {proc[q].kstack} \cup SpacePages(proc[q].sp)
  IN /\ \A q \in live : /\ proc[q].kstack \notin SpacePages(proc[q].sp) \cup {None}
                         /\ \A a \in Vas : (proc[q].sp.pte[a] # None) = (a < proc[q].sz)
     /\ \A q, r \in live : q # r => owned(q) \cap owned(r) = {}
     /\ UNION {owned(q) : q \in live} \cup DOMAIN F.pipe = (1 .. session.pages) \ F.free
     /\ DOMAIN F.pipe \cap UNION {owned(q) : q \in live} = {}

(* A file is referenced by exactly the descriptors that processes have,    *)
(* and an end of a pipe is open as long as there is a file for it: a pipe  *)
(* has no reader left when the last process that could read it has closed  *)
(* it or exited, and not before (filedup, fileclose, fork, exit).          *)
FilesExact ==
  /\ \A f \in 1 .. NFILE :
       F.file[f].ref = Cardinality({x \in Slots \X Descriptors : proc[x[1]].fds[x[2]] = f})
  /\ \A q \in DOMAIN F.pipe : \A w \in BOOLEAN :
       (IF w THEN F.pipe[q].writeopen ELSE F.pipe[q].readopen)
         = (\E f \in 1 .. NFILE : /\ F.file[f].type = "FD_PIPE" /\ F.file[f].pipe = q
                                  /\ F.file[f].writable = w)
  /\ \A f \in 1 .. NFILE : F.file[f].type = "FD_PIPE" => F.file[f].pipe \in DOMAIN F.pipe

(* The recursive descent of parseline, parsepipe, parseexec and parseblock *)
(* builds the tree that the grammar gives a line, and panics on the lines  *)
(* that it does not derive.  (One initial state is enough to say it.)      *)
ParsedAsWritten ==
  At(initproc, "exec") /\ typed = <<>> /\ session = (CHOOSE s \in Sessions : TRUE)
    => \A l \in Lines : parsecmd(l) = RefLine(Tokens(l))

(* A shell waits for input, and init for the shell; the programs have      *)
(* printed what the lines ask for.                                         *)
AtPrompt ==
  /\ keys = <<>> /\ Waiting(con) = <<>>
  /\ At(initproc, "reap") /\ Cardinality(Slots \ UnusedProcs) = 2
  /\ \E q \in Children(initproc) : At(q, "gets") /\ proc[q].line = <<>>
  /\ out \in session.out

(* Once all is typed, a shell is back at its prompt with nothing else      *)
(* running: every command ended and was waited for by its shell or by      *)
(* init, a shell that ended was replaced, and the programs have printed    *)
(* what the lines ask for (unless keys were lost on the way).              *)
BackToPrompt == <>[](lost \/ AtPrompt)
=============================================================================
