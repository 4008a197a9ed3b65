------------------------------- MODULE Inode --------------------------------
(***************************************************************************)
(* The inode layer of fs.c as functions on its state, a record s:          *)
(*                                                                         *)
(*   dinode   the inodes on the disk, by number                            *)
(*   bitmap   the blocks in use                                            *)
(*   block    the contents of the data blocks                              *)
(*   inode    icache.inode: the cache entries                              *)
(*   panic    the kernel has panicked                                      *)
(*                                                                         *)
(* dinode, bitmap and block are seen through the buffer cache and the log  *)
(* (modules Bio and Log).  A block holds BSIZE cells <<name, number>>: a   *)
(* cell of a directory is a struct dirent, a cell of an indirect block an  *)
(* address, a cell of a file a datum.  A function that returns a value     *)
(* besides the new state returns a record.                                 *)
(***************************************************************************)
EXTENDS Integers, Sequences

LOCAL INSTANCE FiniteSetsExt
LOCAL INSTANCE SequencesExt

CONSTANTS
  NINODES,     \* inodes on the disk are 1 .. NINODES - 1
  FSSIZE,      \* size of the file system in blocks
  NMETA,       \* the first blocks: boot, super, log, inodes and bitmap
  NDIRECT, NINDIRECT, BSIZE,
  NINODE,      \* entries of the inode cache
  Nobody       \* the holder of a free lock

Inums == 1 .. NINODES - 1
Slots == 1 .. NINODE
Blocks == NMETA .. FSSIZE - 1
MAXFILE == NDIRECT + NINDIRECT
ROOTINO == 1

ASSUME InodeAssumption ==
  /\ NINODES > ROOTINO /\ NINODE > 0 /\ BSIZE > 0
  /\ NMETA > 0 /\ FSSIZE > NMETA
  /\ NDIRECT > 0 /\ NINDIRECT \in 1 .. BSIZE

None == 0              \* no inode, no address
ZeroCell == <<"", 0>>
ZeroBlock == [o \in 0 .. BSIZE - 1 |-> ZeroCell]
NoAddrs == [a \in 0 .. NDIRECT |-> None]

(* struct dinode.  The device numbers are left out.                        *)
FreeDinode == [type |-> "free", nlink |-> 0, size |-> 0, addrs |-> NoAddrs]

(* The fields of a cache entry that are copies of the disk inode.          *)
Copy(n) == [type |-> n.type, nlink |-> n.nlink, size |-> n.size, addrs |-> n.addrs]

(* A cache entry with the fields of disk inode d.                          *)
WithCopy(n, d) ==
  [n EXCEPT !.type = d.type, !.nlink = d.nlink, !.size = d.size, !.addrs = d.addrs]

(* iinit(): an empty inode cache.                                          *)
iinit ==
  [i \in Slots |-> [inum |-> None, ref |-> 0, valid |-> FALSE, lock |-> Nobody,
                    type |-> "free", nlink |-> 0, size |-> 0, addrs |-> NoAddrs]]

Panic(s) == [s EXCEPT !.panic = TRUE]

-----------------------------------------------------------------------------
(* Blocks.                                                                 *)

FreeBlocks(s) == (0 .. FSSIZE - 1) \ s.bitmap

(* The first free block, marked and zeroed.                                *)
balloc(s) ==
  IF FreeBlocks(s) = {} THEN [s |-> Panic(s), addr |-> NMETA]
  ELSE LET b == Min(FreeBlocks(s))
       IN [s |-> [s EXCEPT !.bitmap = @ \cup {b}, !.block[b] = ZeroBlock], addr |-> b]

(* bfree of every block of bs.                                             *)
bfree(s, bs) ==
  [s EXCEPT !.bitmap = @ \ bs, !.panic = @ \/ ~ (bs \subseteq s.bitmap)]

-----------------------------------------------------------------------------
(* The inode cache and its reference counts.                               *)

iupdate(s, i) == [s EXCEPT !.dinode[s.inode[i].inum] = Copy(s.inode[i])]

CachedAt(s, inum) == {i \in Slots : s.inode[i].ref > 0 /\ s.inode[i].inum = inum}
EmptySlots(s) == {i \in Slots : s.inode[i].ref = 0}

(* Faulty: a recycled entry keeps the contents of the inode it had.        *)
igetStale(s, inum) ==
  CASE CachedAt(s, inum) # {} ->
         LET i == Min(CachedAt(s, inum))
         IN [s |-> [s EXCEPT !.inode[i].ref = @ + 1], ip |-> i]
    [] EmptySlots(s) = {} -> [s |-> Panic(s), ip |-> 1]
    [] OTHER ->
         LET i == Min(EmptySlots(s))
         IN [s |-> [s EXCEPT !.inode[i].inum = inum, !.inode[i].ref = 1], ip |-> i]

iget(s, inum) ==
  CASE CachedAt(s, inum) # {} ->
         LET i == Min(CachedAt(s, inum))
         IN [s |-> [s EXCEPT !.inode[i].ref = @ + 1], ip |-> i]
    [] CachedAt(s, inum) = {} /\ EmptySlots(s) = {} -> [s |-> Panic(s), ip |-> 1]
    [] OTHER ->
         LET i == Min(EmptySlots(s))
         IN [s |-> [s EXCEPT !.inode[i].inum = inum, !.inode[i].ref = 1,
                             !.inode[i].valid = FALSE],
             ip |-> i]

(* Faulty: the second pointer to the entry is not counted.                 *)
idupUncounted(s, i) == s

idup(s, i) == [s EXCEPT !.inode[i].ref = @ + 1]

(* The first free inode on the disk, and an entry for it.                  *)
ialloc(s, type) ==
  LET free == {n \in Inums : s.dinode[n].type = "free"}
  IN IF free = {} THEN [s |-> Panic(s), ip |-> 1]
     ELSE iget([s EXCEPT !.dinode[Min(free)] = [FreeDinode EXCEPT !.type = type]], Min(free))

(* The lock of entry i is free: acquiresleep would return.                 *)
CanLock(s, i) == s.inode[i].lock = Nobody

(* ilock once the lock is free.                                            *)
ilock(s, p, i) ==
  LET n == [s.inode[i] EXCEPT !.lock = p]
      d == s.dinode[n.inum]
  IN CASE n.ref < 1 -> Panic(s)
       [] n.ref >= 1 /\ n.valid -> [s EXCEPT !.inode[i] = n]
       [] OTHER -> [s EXCEPT !.inode[i] = [WithCopy(n, d) EXCEPT !.valid = TRUE],
                             !.panic = @ \/ d.type = "free"]

iunlock(s, p, i) ==
  IF s.inode[i].lock # p \/ s.inode[i].ref < 1 THEN Panic(s)
  ELSE [s EXCEPT !.inode[i].lock = Nobody]

-----------------------------------------------------------------------------
(* Inode content.                                                          *)

(* The address of block bn of inode i, None if it has none.                *)
Addr(s, i, bn) ==
  LET addrs == s.inode[i].addrs
  IN CASE bn < NDIRECT -> addrs[bn]
       [] bn >= NDIRECT /\ addrs[NDIRECT] = None -> None
       [] OTHER -> s.block[addrs[NDIRECT]][bn - NDIRECT][2]

(* balloc for the direct block or the indirect block at addrs[a].          *)
NewDirect(s, i, a) ==
  LET m == balloc(s)
  IN [s |-> [m.s EXCEPT !.inode[i].addrs[a] = m.addr], addr |-> m.addr]

(* balloc for entry bn of the indirect block at addrs[NDIRECT].            *)
NewIndirect(s, i, bn) ==
  LET m == balloc(s)
  IN [s |-> [m.s EXCEPT !.block[s.inode[i].addrs[NDIRECT]][bn] = <<"", m.addr>>],
      addr |-> m.addr]

(* The address of block bn of inode i, allocated if it has none.           *)
bmap(s, i, bn) ==
  CASE bn >= MAXFILE -> [s |-> Panic(s), addr |-> NMETA]
    [] bn < MAXFILE /\ Addr(s, i, bn) # None -> [s |-> s, addr |-> Addr(s, i, bn)]
    [] bn < NDIRECT /\ Addr(s, i, bn) = None -> NewDirect(s, i, bn)
    [] OTHER -> IF s.inode[i].addrs[NDIRECT] # None THEN NewIndirect(s, i, bn - NDIRECT)
                ELSE NewIndirect(NewDirect(s, i, NDIRECT).s, i, bn - NDIRECT)

(* The blocks of inode i.                                                  *)
BlocksOf(s, i) ==
  LET addrs == s.inode[i].addrs
      indirect == IF addrs[NDIRECT] = None THEN {}
                  ELSE {s.block[addrs[NDIRECT]][j][2] : j \in 0 .. NINDIRECT - 1}
  IN ({addrs[a] : a \in 0 .. NDIRECT} \cup indirect) \ {None}

itrunc(s, i) ==
  iupdate([bfree(s, BlocksOf(s, i)) EXCEPT !.inode[i].addrs = NoAddrs, !.inode[i].size = 0], i)

(* The cell at offset off of inode i, which is not past its end: its block *)
(* has an address, as the check of the committed states in Fs shows.       *)
CellAt(s, i, off) == s.block[Addr(s, i, off \div BSIZE)][off % BSIZE]

(* readi: at most n cells from offset off; -1 for an error.  A device      *)
(* reads what it likes: here, nothing (module Console has one).            *)
readi(s, i, off, n) ==
  LET size == s.inode[i].size
      count == IF off + n > size THEN size - off ELSE n
  IN CASE s.inode[i].type = "dev" -> [n |-> 0, cells |-> <<>>]
       [] s.inode[i].type # "dev" /\ off > size -> [n |-> -1, cells |-> <<>>]
       [] OTHER -> [n |-> count,
                    cells |-> [k \in 1 .. count |-> CellAt(s, i, off + k - 1)]]

(* One cell written at offset off, its block allocated if need be.         *)
PutCell(s, i, off, c) ==
  LET m == bmap(s, i, off \div BSIZE)
  IN [m.s EXCEPT !.block[m.addr][off % BSIZE] = c]

(* writei: the cells from offset off on, and the size if it grows.         *)
writei(s, i, off, cells) ==
  LET n == Len(cells)
      s1 == FoldLeft(LAMBDA t, k : PutCell(t, i, off + k - 1, cells[k]), s,
                     [k \in 1 .. n |-> k])
      grows == n > 0 /\ off + n > s.inode[i].size
  IN CASE s.inode[i].type = "dev" -> [s |-> s, n |-> n]
       [] s.inode[i].type # "dev" /\ (off > s.inode[i].size \/ off + n > MAXFILE * BSIZE) ->
            [s |-> s, n |-> -1]
       [] OTHER ->
            [s |-> IF grows THEN iupdate([s1 EXCEPT !.inode[i].size = off + n], i) ELSE s1,
             n |-> n]

-----------------------------------------------------------------------------
(* Directories.                                                            *)

Offsets(s, i) == 0 .. s.inode[i].size - 1

(* The offset of name in directory i, -1 if it has no such entry.          *)
DirOffset(s, i, name) ==
  LET found == {o \in Offsets(s, i) : CellAt(s, i, o)[2] # None /\ CellAt(s, i, o)[1] = name}
  IN IF found = {} THEN -1 ELSE Min(found)

(* dirlookup: the entry of name in directory i, with a reference.          *)
dirlookup(s, i, name) ==
  LET o == DirOffset(s, i, name)
  IN CASE s.inode[i].type # "dir" -> [s |-> Panic(s), ip |-> None]
       [] s.inode[i].type = "dir" /\ o = -1 -> [s |-> s, ip |-> None]
       [] OTHER -> iget(s, CellAt(s, i, o)[2])

(* dirlink when name is not in directory i: it takes the first unused      *)
(* entry, or the end of the directory.                                     *)
dirlink(s, i, name, inum) ==
  LET unused == {o \in Offsets(s, i) : CellAt(s, i, o)[2] = None}
      off == IF unused = {} THEN s.inode[i].size ELSE Min(unused)
      w == writei(s, i, off, <<<<name, inum>>>>)
  IN IF w.n = 1 THEN w.s ELSE Panic(w.s)
=============================================================================
