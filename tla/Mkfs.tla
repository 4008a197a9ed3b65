-------------------------------- MODULE Mkfs --------------------------------
(***************************************************************************)
(* mkfs.c: the disk image the kernel starts from, as functions on the      *)
(* image, a record m of the disk inodes, the blocks, and the next free     *)
(* inode and block.  The programs to install are pairs of a name and the   *)
(* cells of the file.                                                      *)
(***************************************************************************)
EXTENDS Inode

LOCAL INSTANCE SequencesExt

(* The image before anything is in it: the first free block is NMETA.      *)
EmptyImage ==
  [dinode |-> [n \in Inums |-> FreeDinode], block |-> [b \in Blocks |-> ZeroBlock],
   freeinode |-> 1, freeblock |-> NMETA]

(* ialloc(type): the number of the new inode is m.freeinode.               *)
MkfsIalloc(m, type) ==
  [m EXCEPT !.dinode[m.freeinode] = [FreeDinode EXCEPT !.type = type, !.nlink = 1],
            !.freeinode = @ + 1]

(* iappend of one cell to inode inum.                                      *)
AppendCell(m, inum, c) ==
  LET d == m.dinode[inum]
      fbn == d.size \div BSIZE
      a == IF fbn < NDIRECT THEN fbn ELSE NDIRECT
      new == d.addrs[a] = None
      addr == IF new THEN m.freeblock ELSE d.addrs[a]
      m1 == [m EXCEPT !.dinode[inum].addrs[a] = addr, !.dinode[inum].size = @ + 1,
                      !.freeblock = IF new THEN @ + 1 ELSE @]
      entry == m1.block[addr][fbn - NDIRECT][2]
      x == IF entry = None THEN m1.freeblock ELSE entry
      m2 == [m1 EXCEPT !.block[addr][fbn - NDIRECT] = <<"", x>>,
                       !.freeblock = IF entry = None THEN @ + 1 ELSE @]
  IN IF fbn < NDIRECT THEN [m1 EXCEPT !.block[addr][d.size % BSIZE] = c]
     ELSE [m2 EXCEPT !.block[x][d.size % BSIZE] = c]

iappend(m, inum, cells) == FoldLeft(LAMBDA t, c : AppendCell(t, inum, c), m, cells)

(* A program: its inode, its entry in the root directory, its content.     *)
Install(m, program) ==
  LET inum == m.freeinode
      m1 == iappend(MkfsIalloc(m, "file"), ROOTINO, <<<<program[1], inum>>>>)
  IN iappend(m1, inum, program[2])

(* main: the root directory, the programs, the size of the root directory  *)
(* rounded up, and the bitmap (balloc).                                    *)
Image(programs) ==
  LET root == iappend(MkfsIalloc(EmptyImage, "dir"), ROOTINO,
                      <<<<".", ROOTINO>>, <<"..", ROOTINO>>>>)
      m == FoldLeft(Install, root, programs)
  IN [dinode |-> [m.dinode EXCEPT ![ROOTINO].size = (@ \div BSIZE + 1) * BSIZE],
      block |-> m.block,
      bitmap |-> 0 .. m.freeblock - 1,
      inode |-> iinit,
      panic |-> FALSE]
=============================================================================
