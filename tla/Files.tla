------------------------------- MODULE Files --------------------------------
(***************************************************************************)
(* Open files (file.c), descriptors (sysfile.c) and the ends of pipes      *)
(* (pipe.c), as functions on a record F:                                   *)
(*                                                                         *)
(*   free   the free pages (Vm.tla)                                        *)
(*   file   ftable: references, type, pipe or inode (by its name) and mode *)
(*   pipe   the pipes, by the page each of them lives in                   *)
(*   size   the files of the disk with the size of each                    *)
(*                                                                         *)
(* A system call on descriptors also has the table fds of its process and  *)
(* returns both with the value the process gets, -1 for an error.          *)
(***************************************************************************)
EXTENDS Integers, Sequences, FiniteSets, TLC, Vm

LOCAL INSTANCE FiniteSetsExt
LOCAL INSTANCE Functions

CONSTANTS NFILE, NOFILE, PIPESIZE

Nofile == 0
Descriptors == 0 .. NOFILE - 1
ConsoleName == <<"console">>

NoFile == [ref |-> 0, type |-> "FD_NONE", pipe |-> None, ip |-> <<>>, off |-> 0,
           readable |-> FALSE, writable |-> FALSE]

(* fileinit, on a disk with the given files.                               *)
fileinit(free, size) ==
  [free |-> free, file |-> [f \in 1 .. NFILE |-> NoFile], pipe |-> << >>, size |-> size]

Unreferenced(F) == {f \in 1 .. NFILE : F.file[f].ref = 0}
Closed(fds) == {d \in Descriptors : fds[d] = Nofile}

(* A system call that fails without a trace.                               *)
Error(F, fds) == [F |-> F, fds |-> fds, ret |-> -1]

-----------------------------------------------------------------------------
(* filealloc and fdalloc: the first unused entry.                          *)
filealloc(F) == Min(Unreferenced(F))
fdalloc(fds) == Min(Closed(fds))

(* filedup: one reference more.  Fork does it for every descriptor.        *)
filedup(F, f) == [F EXCEPT !.file[f].ref = @ + 1]
DupAll(F, fds) ==
  [F EXCEPT !.file = [f \in 1 .. NFILE |->
     [@[f] EXCEPT !.ref = @ + Cardinality({d \in Descriptors : fds[d] = f})]]]

pipeclose(F, p, writable) ==
  LET q == IF writable THEN [F.pipe[p] EXCEPT !.writeopen = FALSE]
           ELSE [F.pipe[p] EXCEPT !.readopen = FALSE]
  IN IF q.readopen \/ q.writeopen THEN [F EXCEPT !.pipe[p] = q]
     ELSE [F EXCEPT !.pipe = Restrict(@, DOMAIN @ \ {p}), !.free = kfree(@, {p})]

(* Faulty: an end of a pipe is closed with the first reference to it.      *)
filecloseEarly(F, f) ==
  LET e == F.file[f]
      left == IF e.ref > 1 THEN [e EXCEPT !.ref = @ - 1] ELSE NoFile
  IN IF e.type = "FD_PIPE" /\ e.pipe \in DOMAIN F.pipe
     THEN pipeclose([F EXCEPT !.file[f] = left], e.pipe, e.writable)
     ELSE [F EXCEPT !.file[f] = left]

fileclose(F, f) ==
  LET e == F.file[f]
  IN CASE e.ref > 1 -> [F EXCEPT !.file[f].ref = @ - 1]
       [] e.ref <= 1 /\ e.type = "FD_PIPE" ->
            pipeclose([F EXCEPT !.file[f] = NoFile], e.pipe, e.writable)
       [] OTHER -> [F EXCEPT !.file[f] = NoFile]

-----------------------------------------------------------------------------
sys_close(F, fds, d) ==
  IF d \notin Descriptors \/ fds[d] = Nofile THEN Error(F, fds)
  ELSE [F |-> fileclose(F, fds[d]), fds |-> [fds EXCEPT ![d] = Nofile], ret |-> 0]

sys_dup(F, fds, d) ==
  IF d \notin Descriptors \/ fds[d] = Nofile \/ Closed(fds) = {} THEN Error(F, fds)
  ELSE [F |-> filedup(F, fds[d]), fds |-> [fds EXCEPT ![fdalloc(fds)] = fds[d]],
        ret |-> fdalloc(fds)]

(* sys_open: the file is created first, if it may be, and stays when there *)
(* is no entry or no descriptor for it.                                    *)
sys_open(F, fds, name, create, readable, writable) ==
  LET G == IF name \in DOMAIN F.size THEN F ELSE [F EXCEPT !.size = @ @@ (name :> 0)]
      f == filealloc(F)
  IN CASE name \notin DOMAIN F.size /\ ~ create -> Error(F, fds)
       [] (name \in DOMAIN F.size \/ create) /\ (Unreferenced(F) = {} \/ Closed(fds) = {}) ->
            Error(G, fds)
       [] OTHER ->
            [F |-> [G EXCEPT !.file[f] = [NoFile EXCEPT !.ref = 1, !.type = "FD_INODE", !.ip = name,
                                                 !.readable = readable, !.writable = writable]],
             fds |-> [fds EXCEPT ![fdalloc(fds)] = f], ret |-> fdalloc(fds)]

(* pipealloc and sys_pipe: two entries, a page and two descriptors, or     *)
(* nothing.  ret is the descriptor of the read end, ret1 of the write end.  *)
sys_pipe(F, fds) ==
  LET r == filealloc(F)
      w == Min(Unreferenced(F) \ {r})
      p == kalloc(F.free)
      d == fdalloc(fds)
      end(writable) == [NoFile EXCEPT !.ref = 1, !.type = "FD_PIPE", !.pipe = p,
                                      !.readable = ~ writable, !.writable = writable]
  IN IF Cardinality(Unreferenced(F)) < 2 \/ p = None \/ Cardinality(Closed(fds)) < 2
     THEN Error(F, fds) @@ [ret1 |-> -1]
     ELSE [F |-> [F EXCEPT !.free = @ \ {p},
                           !.file[r] = end(FALSE), !.file[w] = end(TRUE),
                           !.pipe = @ @@ (p :> [n |-> 0, readopen |-> TRUE, writeopen |-> TRUE])],
           fds |-> [fds EXCEPT ![d] = r, ![Min(Closed(fds) \ {d})] = w],
           ret |-> d, ret1 |-> Min(Closed(fds) \ {d})]
=============================================================================
