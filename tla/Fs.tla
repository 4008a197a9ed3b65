--------------------------------- MODULE Fs ---------------------------------
(***************************************************************************)
(* The file system calls of sysfile.c and file.c, made by several          *)
(* processes at once on the inode layer of fs.c (module Inode), from the   *)
(* disk image that mkfs.c builds (module Mkfs).                            *)
(*                                                                         *)
(* Taking the lock of an inode is a step of its own, the only place where  *)
(* a process can be held up.  What a step does after it is protected by    *)
(* the inode locks the process holds, by the buffer of the bitmap or of an *)
(* inode (one function of Inode each), or by icache.lock.  In iput the     *)
(* check, the freeing and the decrement are separate steps.                *)
(*                                                                         *)
(* A process has one descriptor here: an open with a file already open is  *)
(* the call that finds no descriptor.  tx is the set of processes between  *)
(* begin_op and end_op, log.outstanding; while it is empty all changes are *)
(* committed (module Log), so the states with tx = {} are those a crash    *)
(* can bring back.                                                         *)
(***************************************************************************)
EXTENDS Mkfs, FiniteSets

CONSTANTS
  Procs,
  Programs,    \* what mkfs installs: a sequence of <<name, cells>>
  Scripts,     \* bound: for each process, the sequences of calls it may make
  MaxChunk     \* cells written in one transaction

VARIABLES
  s,       \* the state of the inode layer
  todo,    \* the calls each process still makes
  fr,      \* where each process is, and the inodes it has in hand
  cwd,     \* current directories: cache entries
  file,    \* the open file of each process: a cache entry and an offset
  tx       \* the processes inside a transaction

vars == <<s, todo, fr, cwd, file, tx>>

NoCall == [op |-> "none"]

(* cur, rest, parent: the walk of namex.  dp, ip, name: the variables of   *)
(* the call.  lk, put: the entry ilock is locking, iput is dropping; then  *)
(* the process goes on at after.                                           *)
Idle == [pc |-> "idle", call |-> NoCall, cur |-> None, rest |-> <<>>, parent |-> FALSE,
         dp |-> None, ip |-> None, name |-> "", lk |-> None, put |-> None, after |-> "",
         left |-> 0]

NoFile == [ip |-> None, off |-> 0]

Creates == {"create", "mkdir", "mknod"}

(* The type of inode a call creates.                                       *)
NewType(op) == CASE op = "create" -> "file" [] op = "mkdir" -> "dir" [] op = "mknod" -> "dev"

(* The root directory is cached for the processes, which all start there.  *)
Init ==
  LET boot == iget(Image(Programs), ROOTINO)
  IN /\ s = [boot.s EXCEPT !.inode[boot.ip].ref = Cardinality(Procs)]
     /\ todo \in {t \in [Procs -> UNION {Scripts[p] : p \in Procs}] :
                   \A p \in Procs : t[p] \in Scripts[p]}
     /\ fr = [p \in Procs |-> Idle]
     /\ cwd = [p \in Procs |-> boot.ip]
     /\ file = [p \in Procs |-> NoFile]
     /\ tx = {}

(* p goes on with frame f.                                                 *)
Go(p, f) == fr' = [fr EXCEPT ![p] = f]

At(p, loc) == fr[p].pc = loc /\ ~ s.panic

(* f calls iput(i), or ilock(i), and then goes on at loc.                  *)
Put(f, i, loc) == [f EXCEPT !.pc = "put", !.put = i, !.after = loc]
Lock(f, i, loc) == [f EXCEPT !.pc = "ilock", !.lk = i, !.after = loc]

(* ilock.                                                                  *)
Ilock(p) ==
  /\ At(p, "ilock")
  /\ CanLock(s, fr[p].lk)
  /\ s' = ilock(s, p, fr[p].lk)
  /\ Go(p, [fr[p] EXCEPT !.pc = fr[p].after, !.lk = None])
  /\ UNCHANGED <<cwd, file, tx>>

-----------------------------------------------------------------------------
(* iput.                                                                   *)

(* Under the lock of the entry: are there no links, and no other reference? *)
iput(p) ==
  /\ At(p, "put")
  /\ LET i == fr[p].put
         n == s.inode[i]
     IN /\ CanLock(s, i)
        /\ IF n.valid /\ n.nlink = 0 /\ n.ref = 1
           THEN s' = [s EXCEPT !.inode[i].lock = p] /\ Go(p, [fr[p] EXCEPT !.pc = "free"])
           ELSE s' = s /\ Go(p, [fr[p] EXCEPT !.pc = "drop"])
  /\ UNCHANGED <<cwd, file, tx>>

IputFree(p) ==
  /\ At(p, "free")
  /\ LET i == fr[p].put
         t == iupdate([itrunc(s, i) EXCEPT !.inode[i].type = "free"], i)
     IN s' = [t EXCEPT !.inode[i].valid = FALSE, !.inode[i].lock = Nobody]
  /\ Go(p, [fr[p] EXCEPT !.pc = "drop"])
  /\ UNCHANGED <<cwd, file, tx>>

IputDrop(p) ==
  /\ At(p, "drop")
  /\ s' = [s EXCEPT !.inode[fr[p].put].ref = @ - 1]
  /\ Go(p, [fr[p] EXCEPT !.pc = fr[p].after, !.put = None])
  /\ UNCHANGED <<cwd, file, tx>>

-----------------------------------------------------------------------------
(* namex, namei, nameiparent.                                              *)

(* The entry a walk along path starts from, with a reference for it.       *)
WalkFrom(p, path) ==
  IF path.root THEN iget(s, ROOTINO) ELSE [s |-> idup(s, cwd[p]), ip |-> cwd[p]]

(* f walks on from entry i along names.                                    *)
Walking(f, i, names) ==
  LET g == [f EXCEPT !.cur = i, !.rest = names]
  IN IF names = <<>> THEN [g EXCEPT !.pc = "walked"] ELSE Lock(g, i, "walk")

(* Where a call goes on when the walk finds nothing: sys_link takes back   *)
(* its link if the new name is the one that failed.                        *)
NotFound(f) == IF f.ip # None THEN Lock(f, f.ip, "undo") ELSE [f EXCEPT !.pc = "end"]

(* No more elements.                                                       *)
NamexDone(p) ==
  /\ At(p, "walked")
  /\ LET f == [fr[p] EXCEPT !.cur = None]
     IN Go(p, IF f.parent THEN Put(f, fr[p].cur, "notfound")
              ELSE Lock([f EXCEPT !.ip = fr[p].cur], fr[p].cur, "found"))
  /\ UNCHANGED <<s, cwd, file, tx>>

(* One element, in the locked directory: look it up, unlock and drop the   *)
(* directory.                                                              *)
namex(p) ==
  /\ At(p, "walk")
  /\ LET f == fr[p]
         i == f.cur
         gone == [f EXCEPT !.cur = None]
         r == dirlookup(s, i, Head(f.rest))
     IN CASE s.inode[i].type # "dir" ->
               s' = iunlock(s, p, i) /\ Go(p, Put(gone, i, "notfound"))
          [] s.inode[i].type = "dir" /\ f.parent /\ Len(f.rest) = 1 ->
               /\ s' = iunlock(s, p, i)
               /\ Go(p, Lock([gone EXCEPT !.dp = i, !.name = Head(f.rest)], i, "parent"))
          [] OTHER ->
               /\ s' = iunlock(r.s, p, i)
               /\ Go(p, IF r.ip = None THEN Put(gone, i, "notfound")
                        ELSE Put([f EXCEPT !.cur = r.ip, !.rest = Tail(@)], i, "next"))
  /\ UNCHANGED <<cwd, file, tx>>

NamexNext(p) ==
  /\ \/ At(p, "next") /\ Go(p, Walking(fr[p], fr[p].cur, fr[p].rest))
     \/ At(p, "notfound") /\ Go(p, NotFound(fr[p]))
  /\ UNCHANGED <<s, cwd, file, tx>>

-----------------------------------------------------------------------------
(* The start and the end of the calls.                                     *)

(* The next call of p is c, of one of these kinds.                         *)
NextCall(p, c, ops) ==
  /\ At(p, "idle")
  /\ c.op \in ops
  /\ todo' = [todo EXCEPT ![p] = Tail(@)]

(* A call with a path: begin_op, and namei or nameiparent.                 *)
CallWithPath(p, c) ==
  /\ NextCall(p, c, Creates \cup {"open", "openrw", "chdir", "link", "unlink"})
  /\ LET w == WalkFrom(p, c.path)
         f == [Idle EXCEPT !.call = c, !.parent = c.op \in Creates \cup {"unlink"}]
     IN s' = w.s /\ Go(p, Walking(f, w.ip, c.path.names))
  /\ tx' = tx \cup {p}
  /\ UNCHANGED <<cwd, file>>

(* A call on a descriptor that is not open (argfd).                        *)
NoSuchFd(p, c) ==
  /\ NextCall(p, c, {"close", "read", "write"})
  /\ file[p] = NoFile
  /\ UNCHANGED <<s, fr, cwd, file, tx>>

(* sys_close, and fileclose of the last reference: the descriptor is gone  *)
(* before the inode is dropped.                                            *)
sys_close(p, c) ==
  /\ NextCall(p, c, {"close"})
  /\ file[p] # NoFile
  /\ file' = [file EXCEPT ![p] = NoFile]
  /\ tx' = tx \cup {p}
  /\ Go(p, Put([Idle EXCEPT !.call = c], file[p].ip, "end"))
  /\ UNCHANGED <<s, cwd>>

(* end_op and the return.                                                  *)
EndOp(p) ==
  /\ At(p, "end")
  /\ tx' = tx \ {p}
  /\ Go(p, Idle)
  /\ UNCHANGED <<s, cwd, file>>

-----------------------------------------------------------------------------
(* create, sys_open, sys_mkdir, sys_mknod.                                 *)

(* p changes the inode layer to t and goes on with frame f.                *)
Do(p, t, f) ==
  /\ s' = t
  /\ Go(p, f)
  /\ UNCHANGED <<cwd, file, tx>>

(* iunlockput(ip), iunlockput(dp), and on at loc.                          *)
UnlockPutIp(p, loc) ==
  Do(p, iunlock(s, p, fr[p].ip), Put([fr[p] EXCEPT !.ip = None], fr[p].ip, loc))
UnlockPutDp(p, loc) ==
  Do(p, iunlock(s, p, fr[p].dp), Put([fr[p] EXCEPT !.dp = None], fr[p].dp, loc))

(* create with dp locked: the name exists, or a new inode is allocated.    *)
create(p) ==
  /\ At(p, "parent") /\ fr[p].call.op \in Creates
  /\ LET f == fr[p]
         r == dirlookup(s, f.dp, f.name)
         a == ialloc(s, NewType(f.call.op))
     IN IF r.ip # None
        THEN Do(p, iunlock(r.s, p, f.dp), Put([f EXCEPT !.ip = r.ip, !.dp = None], f.dp, "lockip"))
        ELSE Do(p, a.s, Lock([f EXCEPT !.ip = a.ip], a.ip, "new"))

(* The name exists already: only a file can be opened that way.            *)
CreateExisting(p) ==
  \/ At(p, "lockip") /\ Do(p, s, Lock(fr[p], fr[p].ip, "existing"))
  \/ /\ At(p, "existing")
     /\ IF fr[p].call.op = "create" /\ s.inode[fr[p].ip].type = "file"
        THEN Do(p, s, [fr[p] EXCEPT !.pc = "fd"])
        ELSE UnlockPutIp(p, "end")

(* A new inode; a directory counts as a link of its parent.                *)
CreateNew(p) ==
  /\ At(p, "new")
  /\ LET ip == fr[p].ip
     IN Do(p, iupdate([s EXCEPT !.inode[ip].nlink = 1], ip),
           [fr[p] EXCEPT !.pc = IF fr[p].call.op = "mkdir" THEN "dots" ELSE "enter"])

CreateDots(p) ==
  LET f == fr[p]
  IN \/ /\ At(p, "dots")
        /\ Do(p, iupdate([s EXCEPT !.inode[f.dp].nlink = @ + 1], f.dp), [f EXCEPT !.pc = "dot"])
     \/ /\ At(p, "dot")
        /\ Do(p, dirlink(s, f.ip, ".", s.inode[f.ip].inum), [f EXCEPT !.pc = "dotdot"])
     \/ /\ At(p, "dotdot")
        /\ Do(p, dirlink(s, f.ip, "..", s.inode[f.dp].inum), [f EXCEPT !.pc = "enter"])

(* The entry in dp; dp is let go with the new inode still locked.          *)
CreateEnter(p) ==
  \/ /\ At(p, "enter")
     /\ Do(p, dirlink(s, fr[p].dp, fr[p].name, s.inode[fr[p].ip].inum), [fr[p] EXCEPT !.pc = "entered"])
  \/ At(p, "entered") /\ UnlockPutDp(p, IF fr[p].call.op = "create" THEN "fd" ELSE "made")

(* sys_mkdir and sys_mknod after create.                                   *)
Made(p) == At(p, "made") /\ UnlockPutIp(p, "end")

(* sys_open of an existing name: a directory can only be read.             *)
OpenFound(p) ==
  /\ At(p, "found") /\ fr[p].call.op \in {"open", "openrw"}
  /\ IF s.inode[fr[p].ip].type = "dir" /\ fr[p].call.op = "openrw"
     THEN UnlockPutIp(p, "end")
     ELSE Do(p, s, [fr[p] EXCEPT !.pc = "fd"])

(* sys_open with ip locked: a file and a descriptor for it, or neither.    *)
sys_open(p) ==
  /\ At(p, "fd")
  /\ IF file[p] = NoFile
     THEN /\ s' = iunlock(s, p, fr[p].ip)
          /\ file' = [file EXCEPT ![p] = [ip |-> fr[p].ip, off |-> 0]]
          /\ tx' = tx \ {p}
          /\ Go(p, Idle)
          /\ UNCHANGED cwd
     ELSE UnlockPutIp(p, "end")

-----------------------------------------------------------------------------
(* sys_chdir once the directory is found.  The new directory is noted      *)
(* here; the code does so after end_op, and no other process looks at it.  *)
sys_chdir(p) ==
  /\ At(p, "found") /\ fr[p].call.op = "chdir"
  /\ IF s.inode[fr[p].ip].type # "dir" THEN UnlockPutIp(p, "end")
     ELSE /\ s' = iunlock(s, p, fr[p].ip)
          /\ cwd' = [cwd EXCEPT ![p] = fr[p].ip]
          /\ Go(p, Put([fr[p] EXCEPT !.ip = None], cwd[p], "end"))
          /\ UNCHANGED <<file, tx>>

-----------------------------------------------------------------------------
(* sys_link.                                                               *)

(* The old name is found: count the link first, then walk to the new one.  *)
(* Faulty: with the inode still locked.                                    *)
LinkOldLocked(p) ==
  LET f == fr[p]
  IN \/ /\ At(p, "found") /\ f.call.op = "link"
        /\ IF s.inode[f.ip].type = "dir" THEN UnlockPutIp(p, "end")
           ELSE Do(p, iupdate([s EXCEPT !.inode[f.ip].nlink = @ + 1], f.ip), [f EXCEPT !.pc = "to"])
     \/ /\ At(p, "to")
        /\ LET w == WalkFrom(p, f.call.to)
           IN Do(p, w.s, Walking([f EXCEPT !.parent = TRUE], w.ip, f.call.to.names))

LinkOld(p) ==
  LET f == fr[p]
  IN \/ /\ At(p, "found") /\ f.call.op = "link"
        /\ IF s.inode[f.ip].type = "dir" THEN UnlockPutIp(p, "end")
           ELSE Do(p, iupdate([s EXCEPT !.inode[f.ip].nlink = @ + 1], f.ip), [f EXCEPT !.pc = "counted"])
     \/ At(p, "counted") /\ Do(p, iunlock(s, p, f.ip), [f EXCEPT !.pc = "to"])
     \/ /\ At(p, "to")
        /\ LET w == WalkFrom(p, f.call.to)
           IN Do(p, w.s, Walking([f EXCEPT !.parent = TRUE], w.ip, f.call.to.names))

(* With the new parent locked: enter the name, unless it exists; then the  *)
(* reference dirlookup returned is dropped with the parent still locked.   *)
sys_link(p) ==
  /\ At(p, "parent") /\ fr[p].call.op = "link"
  /\ LET f == fr[p]
         r == dirlookup(s, f.dp, f.name)
     IN IF r.ip # None THEN Do(p, r.s, Put(f, r.ip, "exists"))
        ELSE Do(p, dirlink(s, f.dp, f.name, s.inode[f.ip].inum), [f EXCEPT !.pc = "linked"])

LinkDrop(p) ==
  \/ At(p, "exists") /\ UnlockPutDp(p, "notfound")
  \/ At(p, "linked") /\ UnlockPutDp(p, "drop ip")
  \/ At(p, "drop ip") /\ Do(p, s, Put([fr[p] EXCEPT !.ip = None], fr[p].ip, "end"))

(* bad: take the link back.  Faulty: it stays counted.                     *)
LinkBadKeeps(p) ==
  /\ At(p, "undo")
  /\ Do(p, s, [fr[p] EXCEPT !.pc = "made"])

LinkBad(p) ==
  /\ At(p, "undo")
  /\ Do(p, iupdate([s EXCEPT !.inode[fr[p].ip].nlink = @ - 1], fr[p].ip), [fr[p] EXCEPT !.pc = "made"])

-----------------------------------------------------------------------------
(* sys_unlink.                                                             *)

(* With the parent locked: find the entry, and keep the parent locked.     *)
UnlinkFind(p) ==
  /\ At(p, "parent") /\ fr[p].call.op = "unlink"
  /\ LET f == fr[p]
         r == dirlookup(s, f.dp, f.name)
     IN IF f.name \in {".", ".."} \/ r.ip = None THEN UnlockPutDp(p, "end")
        ELSE Do(p, r.s, Lock([f EXCEPT !.ip = r.ip], r.ip, "victim"))

(* Only the first two entries are in use.                                  *)
isdirempty(i) == \A o \in Offsets(s, i) : o >= 2 => CellAt(s, i, o)[2] = None

(* With both locked: clear the entry.                                      *)
sys_unlink(p) ==
  /\ At(p, "victim")
  /\ LET f == fr[p]
         isdir == s.inode[f.ip].type = "dir"
         w == writei(s, f.dp, DirOffset(s, f.dp, f.name), <<ZeroCell>>)
     IN CASE s.inode[f.ip].nlink < 1 -> Do(p, Panic(s), f)
          [] s.inode[f.ip].nlink >= 1 /\ isdir /\ ~ isdirempty(f.ip) -> UnlockPutIp(p, "notempty")
          [] OTHER -> Do(p, w.s, [f EXCEPT !.pc = IF isdir THEN "cleardir" ELSE "cleared"])

(* The parent loses the ".." of a directory, and is let go with the child  *)
(* still locked; then the child loses a link.                              *)
UnlinkDrop(p) ==
  LET f == fr[p]
  IN \/ At(p, "notempty") /\ UnlockPutDp(p, "end")
     \/ /\ At(p, "cleardir")
        /\ Do(p, iupdate([s EXCEPT !.inode[f.dp].nlink = @ - 1], f.dp), [f EXCEPT !.pc = "cleared"])
     \/ At(p, "cleared") /\ UnlockPutDp(p, "unlinked")
     \/ /\ At(p, "unlinked")
        /\ Do(p, iupdate([s EXCEPT !.inode[f.ip].nlink = @ - 1], f.ip), [f EXCEPT !.pc = "made"])

-----------------------------------------------------------------------------
(* Calls on the open file.                                                 *)

(* sys_read and fileread, sys_fstat and filestat: no transaction.          *)
ReadCall(p, c) ==
  /\ NextCall(p, c, {"read"})
  /\ file[p] # NoFile
  /\ Go(p, Lock([Idle EXCEPT !.call = c], file[p].ip, "read"))
  /\ UNCHANGED <<s, cwd, file, tx>>

fileread(p) ==
  /\ At(p, "read")
  /\ s' = iunlock(s, p, file[p].ip)
  /\ LET r == readi(s, file[p].ip, file[p].off, 1)
     IN file' = IF r.n > 0 THEN [file EXCEPT ![p].off = @ + r.n] ELSE file
  /\ Go(p, Idle)
  /\ UNCHANGED <<cwd, tx>>

(* filewrite: a transaction for every MaxChunk cells.                      *)
WriteCall(p, c) ==
  /\ NextCall(p, c, {"write"})
  /\ file[p] # NoFile
  /\ Go(p, [Idle EXCEPT !.pc = "chunk", !.call = c, !.left = c.n])
  /\ UNCHANGED <<s, cwd, file, tx>>

WriteBegin(p) ==
  /\ At(p, "chunk")
  /\ Go(p, Lock(fr[p], file[p].ip, "write"))
  /\ tx' = tx \cup {p}
  /\ UNCHANGED <<s, cwd, file>>

filewrite(p) ==
  /\ At(p, "write")
  /\ LET f == fr[p]
         n1 == IF f.left > MaxChunk THEN MaxChunk ELSE f.left
         w == writei(s, file[p].ip, file[p].off, [k \in 1 .. n1 |-> <<"datum", 1>>])
     IN /\ s' = w.s
        /\ file' = IF w.n > 0 THEN [file EXCEPT ![p].off = @ + w.n] ELSE file
        /\ Go(p, [f EXCEPT !.pc = "written", !.left = IF w.n < 0 THEN 0 ELSE @ - n1])
  /\ UNCHANGED <<cwd, tx>>

Written(p) ==
  /\ At(p, "written")
  /\ s' = iunlock(s, p, file[p].ip)
  /\ tx' = tx \ {p}
  /\ Go(p, IF fr[p].left = 0 THEN Idle ELSE [fr[p] EXCEPT !.pc = "chunk"])
  /\ UNCHANGED <<cwd, file>>

-----------------------------------------------------------------------------
Step(p) ==
  \/ Ilock(p) \/ iput(p) \/ IputFree(p) \/ IputDrop(p)
  \/ NamexDone(p) \/ namex(p) \/ NamexNext(p)
  \/ EndOp(p)
  \/ create(p) \/ CreateExisting(p) \/ CreateNew(p) \/ CreateDots(p) \/ CreateEnter(p)
  \/ Made(p) \/ OpenFound(p) \/ sys_open(p)
  \/ sys_chdir(p)
  \/ LinkOld(p) \/ sys_link(p) \/ LinkDrop(p) \/ LinkBad(p)
  \/ UnlinkFind(p) \/ sys_unlink(p) \/ UnlinkDrop(p)
  \/ fileread(p) \/ WriteBegin(p) \/ filewrite(p) \/ Written(p)

CallOf(p, c) ==
  CallWithPath(p, c) \/ NoSuchFd(p, c) \/ sys_close(p, c) \/ ReadCall(p, c) \/ WriteCall(p, c)

Next ==
  \E p \in Procs :
    \/ Step(p) /\ UNCHANGED todo
    \/ todo[p] # <<>> /\ CallOf(p, Head(todo[p]))

Spec == Init /\ [][Next]_vars

-----------------------------------------------------------------------------
(* Properties.                                                             *)

Dirs == {n \in Inums : s.dinode[n].type = "dir"}

(* The address of block bn of disk inode n, None if it has none.           *)
AddrOf(n, bn) ==
  LET d == s.dinode[n]
  IN CASE bn < NDIRECT -> d.addrs[bn]
       [] bn >= NDIRECT /\ d.addrs[NDIRECT] = None -> None
       [] OTHER -> s.block[d.addrs[NDIRECT]][bn - NDIRECT][2]

(* The places that hold the address of a block: the direct ones are        *)
(* numbered from 0, the indirect block itself is -1.                       *)
Holders(b) ==
  {<<n, bn>> \in Inums \X (-1 .. MAXFILE - 1) :
     IF bn = -1 THEN s.dinode[n].addrs[NDIRECT] = b ELSE AddrOf(n, bn) = b}

(* The entries that name inode n, "." excepted, in directories that are    *)
(* not removed.                                                            *)
Entries(n) ==
  {<<d, o>> \in Dirs \X (0 .. MAXFILE * BSIZE - 1) :
     /\ s.dinode[d].nlink > 0
     /\ o < s.dinode[d].size
     /\ LET c == s.block[AddrOf(d, o \div BSIZE)][o % BSIZE]
        IN c[2] = n /\ c[1] # "." /\ ~ (c[1] = ".." /\ d = ROOTINO)}

(* What a crash can bring back is a sound file system: every inode has as  *)
(* many links as entries name it (create, sys_link with its way back,      *)
(* sys_unlink), no entry names a free inode, the blocks in use are exactly *)
(* the ones one inode has, once each (bmap, itrunc), and no file has holes *)
(* (readi would allocate, outside a transaction).                          *)
CommittedIsConsistent ==
  tx = {} =>
    /\ \A n \in Inums :
         /\ s.dinode[n].nlink = Cardinality(Entries(n)) + (IF n = ROOTINO THEN 1 ELSE 0)
         /\ Entries(n) # {} => s.dinode[n].type # "free"
         /\ \A o \in 0 .. s.dinode[n].size - 1 : AddrOf(n, o \div BSIZE) # None
    /\ \A b \in Blocks :
         IF b \in s.bitmap THEN Cardinality(Holders(b)) = 1 ELSE Holders(b) = {}

(* The inode cache is write-through: an entry that is valid equals the     *)
(* inode on the disk, although entries are recycled and inodes are freed   *)
(* and allocated again under other processes' eyes (iget, ilock, iput).    *)
CacheCoherent ==
  \A i \in Slots :
    s.inode[i].ref > 0 /\ s.inode[i].valid => Copy(s.inode[i]) = s.dinode[s.inode[i].inum]

(* The pointers to entry i: current directories, open files, and what the  *)
(* calls have in hand.                                                     *)
Pointers(i) ==
  {<<p, "cwd">> : p \in {q \in Procs : cwd[q] = i}}
  \cup {<<p, "file">> : p \in {q \in Procs : file[q].ip = i}}
  \cup {<<p, h>> \in Procs \X {"cur", "dp", "ip", "put"} : fr[p][h] = i}

(* ip->ref is the number of pointers to the entry, an inode that somebody  *)
(* points to is allocated unless it is just being dropped for the last     *)
(* time, no inode is in the cache twice (iget, idup, iput), a process       *)
(* returns with no inode locked, and none of the panics of the inode layer *)
(* (no type, freeing a free block, out of entries) is reached.             *)
RefsExact ==
  /\ ~ s.panic
  /\ \A i \in Slots : s.inode[i].ref = Cardinality(Pointers(i))
  /\ \A i \in Slots, x \in {"cwd", "file", "cur", "dp", "ip"} : \A p \in Procs :
       <<p, x>> \in Pointers(i) => s.dinode[s.inode[i].inum].type # "free"
  /\ \A i, j \in Slots :
       s.inode[i].ref > 0 /\ s.inode[j].ref > 0 /\ s.inode[i].inum = s.inode[j].inum => i = j
  /\ \A i \in Slots, p \in Procs : s.inode[i].lock = p => fr[p].pc # "idle"

(* An inode without links that is still allocated is in use: the last iput *)
(* frees the inode (fs.c 325-331).                                         *)
OrphansInUse ==
  tx = {} =>
    \A n \in Inums :
      s.dinode[n].type # "free" /\ s.dinode[n].nlink = 0 => CachedAt(s, n) # {}

(* The entry whose lock a process needs for its next step.                 *)
Wants(p) == CASE fr[p].pc = "ilock" -> fr[p].lk [] fr[p].pc = "put" -> fr[p].put [] OTHER -> None

(* Each process of Q waits for a lock that one of Q holds.                 *)
CircularWait(Q) == Q # {} /\ \A p \in Q : Wants(p) # None /\ s.inode[Wants(p)].lock \in Q

(* Processes wait in a circle only where iput takes the lock of a          *)
(* directory with that of a child held, or of the directory itself,        *)
(* against the order parent, child that everybody else keeps:              *)
(* create (sysfile.c 281) and sys_unlink (sysfile.c 225) drop the parent   *)
(* with the child locked, and sys_link to a name "." or ".." drops what    *)
(* dirlink has found in the locked directory (sysfile.c 147).              *)
OnlyDropsDeadlock ==
  \A Q \in SUBSET Procs :
    CircularWait(Q) =>
      \E p \in Q :
        /\ fr[p].pc = "put"
        /\ \/ fr[p].after \in {"unlinked", "fd", "made"} /\ s.inode[fr[p].ip].lock = p
           \/ fr[p].after = "exists" /\ fr[p].name \in {".", ".."}
=============================================================================
