----------------------------- MODULE Log_proofs -----------------------------
(***************************************************************************)
(* Proofs about the write-ahead log (Log), for every number of processes   *)
(* and blocks and every size of the log: commits are atomic whenever the   *)
(* machine crashes (the refinement of Transactions), a quiet log has       *)
(* everything on the disk, and begin_op loses no wakeup.                   *)
(*                                                                         *)
(* The argument follows a block.  Until the header is written, disk and    *)
(* an empty header are the last commit; write_log makes the log a copy of  *)
(* the buffers of lh; from the header on, the log is what counts, and      *)
(* install_trans only makes disk agree with it, in a commit as well as in  *)
(* a recovery that is itself interrupted.  That the log is large enough    *)
(* rests on the reservations of begin_op, and on calls that write less     *)
(* than it reserves for them: the blocks logged and those the active calls *)
(* may still log fit in Room, which leaves the block of the header free.   *)
(***************************************************************************)
EXTENDS Log, FiniteSetTheorems, TLAPS

(* The time the provers are given, where a step does not say.              *)
USE SMTT(20), ZenonT(20)

Types ==
  /\ lh \in Seq(Blocks) /\ head \in Seq(Blocks)
  /\ outstanding \in Nat /\ committing \in BOOLEAN
  /\ cache \in [Blocks -> Values \cup {None}]
  /\ dirty \in SUBSET Blocks
  /\ disk \in [Blocks -> Values]
  /\ logdisk \in [LogSlots -> Values]
  /\ tail \in Nat
  /\ pc \in [Procs -> Locations]
  /\ block \in [Procs -> Blocks \cup {NoBlock}]
  /\ wrote \in [Procs -> SUBSET Blocks]
  /\ boot \in Boots

At(loc) == \E p \in Procs : pc[p] = loc

(* One process commits, with no call active, and nothing runs in a boot.   *)
ProcInv ==
  /\ outstanding = Cardinality(Active)
  /\ committing <=> \E p \in Procs : pc[p] \in InCommit
  /\ \A p, q \in Procs : pc[p] \in InCommit /\ pc[q] \in InCommit => p = q
  /\ committing => Active = {}
  /\ ~ Up => \A p \in Procs : pc[p] = "user"
  /\ \A p \in Procs : pc[p] = "append" => block[p] \in Blocks

(* A buffer that is not dirty agrees with the disk.                        *)
CacheInv ==
  \A b \in Blocks :
    IF b \in dirty THEN cache[b] # None ELSE cache[b] \in {None, disk[b]}

Distinct(s) == \A i, j \in 1 .. Len(s) : s[i] = s[j] => i = j

(* The part of LOGSIZE that calls can fill: as long as one is active, what *)
(* begin_op reserved for it and it does not write stays free.              *)
Room == LOGSIZE - (MAXOPBLOCKS - OpBlocks)

(* The blocks that the active calls may still log, as pairs of a process   *)
(* and the number of the block in its call.                                *)
Credits(A, w) == {c \in A \X (1 .. OpBlocks) : c[2] > Cardinality(w[c[1]])}
Unused == Credits(Active, wrote)

(* The reservations of begin_op.                                           *)
SpaceInv ==
  /\ Len(lh) + Cardinality(Unused) <= Room
  /\ Len(head) <= Room
  /\ \A p \in Procs : IsFiniteSet(wrote[p])
  /\ \A p \in Active : wrote[p] \subseteq Elements(lh)
  /\ \A p \in Procs : pc[p] = "append" => Cardinality(wrote[p] \cup {block[p]}) <= OpBlocks

(* The first k blocks of the log are copies of buffers; are installed.     *)
Copied(k) == \A i \in 1 .. k : logdisk[i] = Buffer(lh[i])
Installed(k) == \A i \in 1 .. k : disk[lh[i]] = logdisk[i]

OpenInv ==
  Up /\ ~ committing => /\ head = <<>> /\ dirty = Elements(lh)
                        /\ outstanding = 0 => lh = <<>>

CommitInv ==
  /\ At("write_log") => /\ head = <<>> /\ dirty = Elements(lh)
                        /\ tail < Len(lh) /\ Copied(tail)
  /\ At("write_head") => /\ head = <<>> /\ dirty = Elements(lh)
                         /\ Copied(Len(lh)) /\ Len(lh) > 0
  /\ At("install_trans") => /\ head = lh /\ dirty = {lh[i] : i \in (tail + 1) .. Len(lh)}
                            /\ tail < Len(lh) /\ Copied(Len(lh)) /\ Installed(tail)
  /\ At("erase") => head = lh /\ dirty = {} /\ Installed(Len(lh))
  /\ At("committed") => head = <<>> /\ lh = <<>> /\ dirty = {}

BootInv ==
  /\ ~ Up => dirty = {} /\ ~ committing
  /\ boot = "read_head" => lh = <<>> /\ tail = 0
  /\ boot = "install_trans" => lh = head /\ tail < Len(lh) /\ Installed(tail)
  /\ boot = "erase" => lh = head /\ Installed(Len(lh))

DistinctInv == Distinct(lh) /\ Distinct(head)

SleepInv == BeginNoLostWakeup

Inv ==
  /\ Types /\ ProcInv /\ CacheInv /\ DistinctInv /\ SpaceInv
  /\ OpenInv /\ CommitInv /\ BootInv /\ SleepInv

-----------------------------------------------------------------------------
(* A buffer holds a value, whether or not the block is in the cache.       *)
LEMMA BufferValue ==
  Types => \A b \in Blocks : Buffer(b) \in Values
BY Zenon DEF Types, Buffer

(* The room for data is on the disk.                                       *)
LEMMA RoomOnDisk ==
  Room \in Nat /\ Room < size /\ Room >= 1
BY LogAssumption DEF Room

(* The credits of a set of calls are finitely many, at most OpBlocks for   *)
(* each.                                                                   *)
LEMMA CreditsBound ==
  ASSUME NEW A \in SUBSET Procs, NEW w
  PROVE  /\ IsFiniteSet(A) /\ Cardinality(A) \in Nat
         /\ IsFiniteSet(Credits(A, w)) /\ Cardinality(Credits(A, w)) \in Nat
         /\ Cardinality(Credits(A, w)) <= Cardinality(A) * OpBlocks
<1>1. IsFiniteSet(A) /\ Cardinality(A) \in Nat
  BY LogAssumption, FS_Subset, FS_CardinalityType, Zenon
<1>2. OpBlocks \in Nat /\ OpBlocks >= 1
  BY LogAssumption
<1>3. IsFiniteSet(1 .. OpBlocks) /\ Cardinality(1 .. OpBlocks) = OpBlocks
  BY <1>2, FS_Interval
<1> DEFINE C == A \X (1 .. OpBlocks)
<1>4. IsFiniteSet(C) /\ Cardinality(C) = Cardinality(A) * OpBlocks
  BY <1>1, <1>3, FS_Product, Zenon
<1>5. Credits(A, w) \in SUBSET C
  BY Zenon DEF Credits
<1> HIDE DEF C
<1>6. IsFiniteSet(Credits(A, w)) /\ Cardinality(Credits(A, w)) <= Cardinality(C)
  BY <1>4, <1>5, FS_Subset, Zenon
<1>7. Cardinality(Credits(A, w)) \in Nat
  BY <1>6, FS_CardinalityType, Zenon
<1> QED
  BY <1>1, <1>4, <1>6, <1>7, Zenon

(* What k calls do not write of what is reserved for them.                 *)
LEMMA Spare ==
  ASSUME NEW k \in Nat
  PROVE  (k + 1) * OpBlocks + (MAXOPBLOCKS - OpBlocks) <= (k + 1) * MAXOPBLOCKS
<1> DEFINE d == MAXOPBLOCKS - OpBlocks
<1>1. d \in Nat /\ OpBlocks \in Nat /\ MAXOPBLOCKS = OpBlocks + d
  BY LogAssumption
<1> HIDE DEF d
<1>2. k * d >= 0
  BY <1>1
<1>3. (k + 1) * (OpBlocks + d) = (k + 1) * OpBlocks + k * d + d
  BY <1>1
<1> QED
  BY <1>1, <1>2, <1>3

(* The log has room for the blocks it lists.                               *)
LEMMA LogFits ==
  Types /\ SpaceInv => Len(lh) <= Room /\ Len(head) <= Room
<1> SUFFICES ASSUME Types, SpaceInv PROVE Len(lh) <= Room /\ Len(head) <= Room
  BY Zenon
<1>1. Active \in SUBSET Procs
  BY Zenon DEF Active
<1>2. Cardinality(Unused) \in Nat
  BY <1>1, CreditsBound, Zenon DEF Unused
<1>3. Len(lh) \in Nat /\ Room \in Nat
  BY RoomOnDisk DEF Types
<1> QED
  BY <1>2, <1>3 DEF SpaceInv

(* There are calls exactly when outstanding is not 0.                      *)
LEMMA Outstanding ==
  ProcInv => (outstanding = 0 <=> Active = {})
<1>1. Active \in SUBSET Procs
  BY Zenon DEF Active
<1>2. IsFiniteSet(Active)
  BY <1>1, CreditsBound, Zenon
<1> QED
  BY <1>2, FS_EmptySet, Zenon DEF ProcInv

(* Sequences: the elements of a longer one.                                *)
LEMMA AppendElements ==
  ASSUME NEW S, NEW s \in Seq(S), NEW b \in S
  PROVE  /\ Elements(Append(s, b)) = Elements(s) \cup {b}
         /\ Distinct(s) /\ b \notin Elements(s) => Distinct(Append(s, b))
<1>1. /\ Append(s, b) \in Seq(S) /\ Len(Append(s, b)) = Len(s) + 1
      /\ \A i \in 1 .. Len(s) : Append(s, b)[i] = s[i]
      /\ Append(s, b)[Len(s) + 1] = b
      /\ Len(s) \in Nat
  OBVIOUS
<1> DEFINE t == Append(s, b)
<1> HIDE DEF t
<1>2. /\ Len(t) = Len(s) + 1 /\ Len(s) \in Nat
      /\ \A i \in 1 .. Len(s) : t[i] = s[i]
      /\ t[Len(s) + 1] = b
  BY <1>1, Zenon DEF t
<1>3. Elements(t) = Elements(s) \cup {b}
  <2>1. \A i \in 1 .. Len(t) : t[i] \in Elements(s) \cup {b}
    BY <1>2 DEF Elements
  <2>2. \A i \in 1 .. Len(s) : i \in 1 .. Len(t) /\ s[i] = t[i]
    BY <1>2
  <2>3. Len(s) + 1 \in 1 .. Len(t) /\ b = t[Len(s) + 1]
    BY <1>2
  <2> QED
    BY <2>1, <2>2, <2>3, Zenon DEF Elements
<1>4. Distinct(s) /\ b \notin Elements(s) => Distinct(t)
  BY <1>2 DEF Distinct, Elements
<1> QED
  BY <1>3, <1>4, Zenon DEF t

(* The empty sequence has no elements.                                     *)
LEMMA NoElements ==
  Elements(<<>>) = {} /\ Distinct(<<>>)
BY DEF Elements, Distinct

-----------------------------------------------------------------------------
(* Frame lemmas.                                                           *)

(* What is said of a commit depends on what its steps change only.         *)
LEMMA CommitSame ==
  ASSUME Types, CommitInv, UNCHANGED <<lh, head, dirty, tail, logdisk, disk>>,
         \A b \in Blocks : Buffer(b)' = Buffer(b),
         \A loc \in InCommit, q \in Procs : pc'[q] = loc => pc[q] = loc
  PROVE  CommitInv'
<1>1. \A loc \in InCommit : At(loc)' => At(loc)
  BY Zenon DEF At
<1>2. \A i \in 1 .. Len(lh) : lh[i] \in Blocks
  BY DEF Types
<1>3. \A k \in Nat : k <= Len(lh) /\ Copied(k) => Copied(k)'
  BY <1>2 DEF Copied
<1>4. \A k : Installed(k) => Installed(k)'
  BY Zenon DEF Installed
<1>5. Len(lh) \in Nat /\ tail \in Nat
  BY DEF Types
<1>6. /\ At("write_log")' => At("write_log")
      /\ At("write_head")' => At("write_head")
      /\ At("install_trans")' => At("install_trans")
      /\ At("erase")' => At("erase")
      /\ At("committed")' => At("committed")
  BY <1>1, Zenon DEF InCommit
<1>7. /\ tail < Len(lh) /\ Copied(tail) => Copied(tail)'
      /\ Copied(Len(lh)) => Copied(Len(lh))'
      /\ Installed(tail) => Installed(tail)'
      /\ Installed(Len(lh)) => Installed(Len(lh))'
  BY <1>3, <1>4, <1>5
<1>8. (At("write_log") => /\ head = <<>> /\ dirty = Elements(lh)
                        /\ tail < Len(lh) /\ Copied(tail))'
  BY <1>6, <1>7, Zenon DEF CommitInv, Elements
<1>9. (At("write_head") => /\ head = <<>> /\ dirty = Elements(lh)
                         /\ Copied(Len(lh)) /\ Len(lh) > 0)'
  BY <1>6, <1>7, Zenon DEF CommitInv, Elements
<1>10. (At("install_trans") => /\ head = lh /\ dirty = {lh[i] : i \in (tail + 1) .. Len(lh)}
                            /\ tail < Len(lh) /\ Copied(Len(lh)) /\ Installed(tail))'
  BY <1>6, <1>7, Zenon DEF CommitInv
<1>11. (At("erase") => head = lh /\ dirty = {} /\ Installed(Len(lh)))'
  BY <1>6, <1>7, Zenon DEF CommitInv
<1>12. (At("committed") => head = <<>> /\ lh = <<>> /\ dirty = {})'
  BY <1>6, Zenon DEF CommitInv
<1> QED
  BY <1>8, <1>9, <1>10, <1>11, <1>12, Zenon DEF CommitInv

(* When no commit runs, nothing is said of one.                            *)
LEMMA NoCommit ==
  ASSUME ProcInv', ~ committing'
  PROVE  CommitInv'
<1>1. \A p \in Procs : pc'[p] \notin InCommit
  BY Zenon DEF ProcInv
<1>2. \A p \in Procs : /\ pc'[p] # "write_log" /\ pc'[p] # "write_head"
                       /\ pc'[p] # "install_trans" /\ pc'[p] # "erase" /\ pc'[p] # "committed"
  BY <1>1, Zenon DEF InCommit
<1> QED
  BY <1>2, Zenon DEF CommitInv, At

(* A step of the commit of process p that leaves the counters alone.       *)
LEMMA CommitFrame ==
  ASSUME Inv, NEW p \in Procs, pc[p] \in InCommit, Up, NEW loc \in InCommit,
         pc' = [pc EXCEPT ![p] = loc],
         UNCHANGED <<outstanding, committing, block, wrote, boot>>,
         lh' \in Seq(Blocks), Len(lh)' <= Room, Len(head)' <= Room
  PROVE  /\ ProcInv' /\ SpaceInv' /\ OpenInv' /\ BootInv' /\ SleepInv'
         /\ \A l \in InCommit : At(l)' => l = loc
         /\ pc' \in [Procs -> Locations]
         /\ Active = {} /\ Active' = {}
<1>1. /\ pc'[p] = loc /\ \A q \in Procs \ {p} : pc'[q] = pc[q]
      /\ pc' \in [Procs -> Locations]
  BY Zenon DEF Inv, Types, Locations
<1>2. committing /\ Active = {} /\ \A q \in Procs \ {p} : pc[q] \notin InCommit
  BY Zenon DEF Inv, ProcInv
<1>3. /\ \A q \in Procs : q \notin Active
      /\ \A q \in Procs : pc'[q] \in {"call", "append", "panic"} =>
                             pc[q] \in {"call", "append", "panic"}
      /\ \A q \in Procs : pc'[q] = "append" => FALSE
  BY <1>1, <1>2, Zenon DEF InCommit, Active
<1>4. Active' = {}
  BY <1>2, <1>3, Zenon DEF Active
<1>5. \A l \in InCommit : At(l)' => l = loc
  BY <1>1, <1>2, Zenon DEF At
<1>6. ProcInv'
  <2>1. (committing <=> \E q \in Procs : pc[q] \in InCommit)'
    BY <1>1, <1>2, Zenon
  <2>2. (\A q, r \in Procs : pc[q] \in InCommit /\ pc[r] \in InCommit => q = r)'
    BY <1>1, <1>2, Zenon
  <2>3. Up'
    BY Zenon DEF Up
  <2> QED
    BY <1>2, <1>3, <1>4, <2>1, <2>2, <2>3, Zenon DEF ProcInv, Inv
<1>7. SpaceInv'
  <2>1. Unused' = {}
    BY <1>4, Zenon DEF Unused, Credits
  <2>2. Len(lh)' \in Nat
    OBVIOUS
  <2>3. Len(lh)' + Cardinality(Unused)' <= Room
    BY <2>1, <2>2, FS_EmptySet
  <2> QED
    BY <1>3, <1>4, <2>3, Zenon DEF SpaceInv, Inv
<1> QED
  BY <1>1, <1>2, <1>4, <1>5, <1>6, <1>7, Zenon DEF OpenInv, BootInv, SleepInv, BeginNoLostWakeup,
     Up, Boots

-----------------------------------------------------------------------------
(* The initial state.                                                      *)
LEMMA InitInv ==
  Init => Inv
<1> SUFFICES ASSUME Init PROVE Inv
  BY Zenon
<1>1. Types
  <2>1. lh \in Seq(Blocks) /\ head \in Seq(Blocks)
    BY DEF Init
  <2>2. logdisk \in [LogSlots -> Values] /\ disk \in [Blocks -> Values]
    BY LogAssumption, Zenon DEF Init
  <2>3. pc \in [Procs -> Locations] /\ wrote \in [Procs -> SUBSET Blocks]
    BY Zenon DEF Init, Locations
  <2> QED
    BY <2>1, <2>2, <2>3, Zenon DEF Init, Types, Boots
<1>2. Active = {} /\ Unused = {}
  BY Zenon DEF Init, Active, Unused, Credits
<1>3. ProcInv
  BY <1>2, FS_EmptySet, Zenon DEF Init, ProcInv, InCommit, Up
<1>4. CacheInv
  BY Zenon DEF Init, CacheInv
<1>5. SpaceInv
  BY <1>2, FS_EmptySet, RoomOnDisk DEF Init, SpaceInv
<1>6. CommitInv
  BY Zenon DEF Init, CommitInv, At
<1> QED
  BY <1>1, <1>3, <1>4, <1>5, <1>6, NoElements, Zenon
     DEF Inv, Init, DistinctInv, OpenInv, BootInv, SleepInv, BeginNoLostWakeup, Up, Installed

(* The buffer cache by itself changes no block that anybody can see.       *)
LEMMA Inv_Cache ==
  ASSUME Inv, UNCHANGED <<lh, outstanding, committing, dirty, persistent, local, tail, boot>>,
         cache' \in [Blocks -> Values \cup {None}],
         \A b \in Blocks : cache'[b] = cache[b] \/ (b \notin dirty /\ cache'[b] \in {None, disk[b]})
  PROVE  Inv' /\ \A b \in Blocks : Buffer(b)' = Buffer(b)
<1>1. UNCHANGED <<lh, outstanding, committing, dirty, disk, logdisk, head, pc, block, wrote,
                  tail, boot>>
  BY Zenon DEF persistent, local
<1>2. CacheInv'
  BY <1>1, Zenon DEF Inv, CacheInv
<1>3. \A b \in Blocks : Buffer(b)' = Buffer(b)
  BY <1>1, LogAssumption, Zenon DEF Inv, CacheInv, Buffer, Types
<1>4. CommitInv'
  BY <1>1, <1>3, CommitSame, Zenon DEF Inv
<1>5. Active' = Active /\ Unused' = Unused
  BY <1>1, Zenon DEF Active, Unused
<1>6. Types'
  BY <1>1, Zenon DEF Inv, Types
<1>7. ProcInv'
  BY <1>1, <1>5 DEF Inv, ProcInv, Up
<1>8. SpaceInv'
  BY <1>1, <1>5 DEF Inv, SpaceInv, Elements
<1>9. BootInv' /\ OpenInv' /\ DistinctInv' /\ SleepInv'
  BY <1>1 DEF Inv, BootInv, OpenInv, DistinctInv, SleepInv, BeginNoLostWakeup, Up, Installed,
              Distinct, Elements
<1> QED
  BY <1>2, <1>3, <1>4, <1>6, <1>7, <1>8, <1>9, Zenon DEF Inv

(* bread fills a buffer from the disk.                                     *)
LEMMA Inv_bread ==
  ASSUME Inv, NEW b \in Blocks, bread(b)
  PROVE  Inv' /\ \A c \in Blocks : Buffer(c)' = Buffer(c)
<1>1. /\ cache' \in [Blocks -> Values \cup {None}]
      /\ \A c \in Blocks : cache'[c] = cache[c] \/ (c \notin dirty /\ cache'[c] \in {None, disk[c]})
  BY Zenon DEF bread, Inv, Types, CacheInv
<1> QED
  BY <1>1, Inv_Cache, Zenon DEF bread

(* bget drops a clean buffer.                                              *)
LEMMA Inv_Recycle ==
  ASSUME Inv, NEW b \in Blocks, Recycle(b)
  PROVE  Inv' /\ \A c \in Blocks : Buffer(c)' = Buffer(c)
<1>1. /\ cache' \in [Blocks -> Values \cup {None}]
      /\ \A c \in Blocks : cache'[c] = cache[c] \/ (c \notin dirty /\ cache'[c] \in {None, disk[c]})
  BY Zenon DEF Recycle, Inv, Types, CacheInv
<1> QED
  BY <1>1, Inv_Cache, Zenon DEF Recycle

-----------------------------------------------------------------------------
(* begin_op: a call that goes on has reserved OpBlocks blocks of the    *)
(* log, and one that sleeps has somebody to wake it.                       *)
LEMMA Inv_begin_op ==
  ASSUME Inv, NEW p \in Procs, begin_op(p)
  PROVE  /\ Inv'
         /\ \/ Active' = Active
            \/ p \notin Active /\ Active' = Active \cup {p}
<1>1. /\ Up /\ pc[p] \in {"user", "retry"}
      /\ UNCHANGED <<lh, committing, cache, dirty, disk, logdisk, head, block, tail, boot>>
      /\ wrote'[p] = {} /\ \A q \in Procs \ {p} : wrote'[q] = wrote[q] /\ pc'[q] = pc[q]
      /\ pc' \in [Procs -> Locations] /\ wrote' \in [Procs -> SUBSET Blocks]
  BY Zenon DEF begin_op, persistent, Inv, Types, Goto, Locations
<1>2. \/ /\ MustWait /\ pc'[p] = "asleep" /\ outstanding' = outstanding
      \/ /\ ~ MustWait /\ pc'[p] = "call" /\ outstanding' = outstanding + 1
  BY Zenon DEF begin_op, Inv, Types, Goto
<1>3. \A b \in Blocks : Buffer(b)' = Buffer(b)
  BY <1>1, Zenon DEF Buffer
<1>4. \A q \in Procs : pc'[q] \in InCommit \/ pc[q] \in InCommit => pc'[q] = pc[q]
  BY <1>1, <1>2, Zenon DEF InCommit
<1>5. CommitInv'
  BY <1>1, <1>3, <1>4, CommitSame, Zenon DEF Inv
<1>6. Types'
  BY <1>1, <1>2 DEF Inv, Types
<1>7. CacheInv' /\ DistinctInv' /\ BootInv'
  BY <1>1 DEF Inv, CacheInv, DistinctInv, Distinct, BootInv, Up, Installed, Boots
<1>8. p \notin Active /\ Active \in SUBSET Procs /\ Active' \in SUBSET Procs
  BY <1>1, Zenon DEF Active
<1>9. outstanding \in Nat /\ Len(lh) \in Nat /\ MAXOPBLOCKS \in Nat /\ LOGSIZE \in Nat
  BY LogAssumption DEF Inv, Types
<1>10. CASE MustWait /\ pc'[p] = "asleep" /\ outstanding' = outstanding
  <2>1. Active' = Active
    BY <1>1, <1>10, Zenon DEF Active
  <2>2. Unused' = Unused
    BY <1>1, <1>8, <2>1, Zenon DEF Unused, Credits
  <2>3. ProcInv'
    BY <1>1, <1>4, <1>10, <2>1, Zenon DEF Inv, ProcInv, Up
  <2>4. SpaceInv'
    <3>1. \A q \in Procs : IsFiniteSet(wrote'[q])
      BY <1>1, FS_EmptySet, ZenonT(30), Zenon DEF Inv, SpaceInv
    <3>2. \A q \in Active' : wrote'[q] \subseteq Elements(lh)'
      BY <1>1, <1>8, <2>1 DEF Inv, SpaceInv, Elements
    <3>3. \A q \in Procs : pc'[q] = "append" =>
            Cardinality(wrote'[q] \cup {block'[q]}) <= OpBlocks
      BY <1>1, <1>10, Zenon DEF Inv, SpaceInv
    <3> QED
      BY <1>1, <2>2, <3>1, <3>2, <3>3, Zenon DEF Inv, SpaceInv
  <2>5. OpenInv'
    BY <1>1, <1>10, Zenon DEF Inv, OpenInv, Up, Elements
  <2>6. committing \/ outstanding > 0
    <3> SUFFICES ASSUME ~ committing, outstanding = 0 PROVE FALSE
      BY <1>9
    <3>1. Len(lh) = 0
      BY <1>1 DEF Inv, OpenInv
    <3> QED
      BY <1>10, <1>9, <3>1, LogAssumption DEF MustWait
  <2>7. SleepInv'
    BY <1>1, <1>10, <2>6, Zenon DEF SleepInv, BeginNoLostWakeup
  <2> QED
    BY <1>5, <1>6, <1>7, <2>1, <2>3, <2>4, <2>5, <2>7, Zenon DEF Inv
<1>11. CASE ~ MustWait /\ pc'[p] = "call" /\ outstanding' = outstanding + 1
  <2>1. Active' = Active \cup {p}
    BY <1>1, <1>11, Zenon DEF Active
  <2>2. ~ committing /\ Len(lh) + (outstanding + 1) * MAXOPBLOCKS <= LOGSIZE
    BY <1>9, <1>11 DEF MustWait
  <2>3. Cardinality(Active') = outstanding + 1
    <3>1. IsFiniteSet(Active) /\ outstanding = Cardinality(Active)
      BY <1>8, CreditsBound, Zenon DEF Inv, ProcInv
    <3> QED
      BY <1>8, <2>1, <3>1, FS_AddElement, Zenon
  <2>4. Len(lh)' + Cardinality(Unused') <= Room
    <3>1. Cardinality(Unused') \in Nat /\ Cardinality(Unused') <= Cardinality(Active') * OpBlocks
      BY <1>8, CreditsBound, Zenon DEF Unused
    <3>2. Cardinality(Unused') <= (outstanding + 1) * OpBlocks
      BY <2>3, <3>1, Zenon
    <3>3. (outstanding + 1) * OpBlocks + (MAXOPBLOCKS - OpBlocks) <= (outstanding + 1) * MAXOPBLOCKS
      BY <1>9, Spare
    <3> QED
      BY <1>1, <1>9, <2>2, <3>1, <3>2, <3>3, LogAssumption DEF Room
  <2>5. ProcInv'
    <3>1. \A q \in Procs : pc'[q] \notin InCommit
      BY <1>4, <1>11, <2>2, Zenon DEF Inv, ProcInv
    <3> QED
      BY <1>1, <1>11, <2>2, <2>3, <3>1, Zenon DEF Inv, ProcInv, Up
  <2>6. SpaceInv'
    <3>1. \A q \in Procs : IsFiniteSet(wrote'[q])
      BY <1>1, FS_EmptySet, ZenonT(40) DEF Inv, SpaceInv
    <3>2. \A q \in Active' : wrote'[q] \subseteq Elements(lh)'
      BY <1>1, <1>8, <2>1 DEF Inv, SpaceInv, Elements
    <3>3. \A q \in Procs : pc'[q] = "append" =>
            Cardinality(wrote'[q] \cup {block'[q]}) <= OpBlocks
      BY <1>1, <1>11, ZenonT(30), Zenon DEF Inv, SpaceInv
    <3> QED
      BY <1>1, <2>4, <3>1, <3>2, <3>3, Zenon DEF Inv, SpaceInv
  <2>7. OpenInv'
    BY <1>1, <1>9, <1>11 DEF Inv, OpenInv, Up, Elements
  <2>8. SleepInv'
    BY <1>9, <1>11 DEF SleepInv, BeginNoLostWakeup
  <2> QED
    BY <1>5, <1>6, <1>7, <1>8, <2>1, <2>5, <2>6, <2>7, <2>8, Zenon DEF Inv
<1> QED
  BY <1>2, <1>10, <1>11, Zenon

(* bread and the checks of log_write.                                      *)
LEMMA Inv_LogWriteCheck ==
  ASSUME Inv, NEW p \in Procs, NEW b \in Blocks, LogWriteCheck(p, b)
  PROVE  /\ Inv' /\ Active' = Active
         /\ \A c \in Blocks : Buffer(c)' = Buffer(c)
<1>1. /\ Up /\ pc[p] = "call" /\ pc'[p] \in {"append", "panic"}
      /\ UNCHANGED <<lh, outstanding, committing, dirty, disk, logdisk, head, wrote, tail, boot>>
      /\ block'[p] = b
      /\ \A q \in Procs \ {p} : block'[q] = block[q] /\ pc'[q] = pc[q]
      /\ pc' \in [Procs -> Locations] /\ block' \in [Procs -> Blocks \cup {NoBlock}]
      /\ Cardinality(wrote[p] \cup {b}) <= OpBlocks
  BY Zenon DEF LogWriteCheck, persistent, Inv, Types, Goto, Locations
<1>2. /\ cache'[b] = Buffer(b) /\ \A c \in Blocks \ {b} : cache'[c] = cache[c]
      /\ cache' \in [Blocks -> Values \cup {None}]
  BY BufferValue, Zenon DEF LogWriteCheck, Inv, Types
<1>3. \A c \in Blocks : Buffer(c)' = Buffer(c)
  BY <1>1, <1>2, LogAssumption, Zenon DEF Inv, Types, Buffer
<1>4. CacheInv'
  BY <1>1, <1>2, LogAssumption, Zenon DEF Inv, CacheInv, Buffer, Types
<1>5. \A q \in Procs : pc'[q] \in InCommit \/ pc[q] \in InCommit => pc'[q] = pc[q]
  BY <1>1, Zenon DEF InCommit
<1>6. CommitInv'
  BY <1>1, <1>3, <1>5, CommitSame, Zenon DEF Inv
<1>7. Active' = Active /\ Unused' = Unused
  BY <1>1, Zenon DEF Active, Unused
<1>8. Types'
  BY <1>1, <1>2, Zenon DEF Inv, Types
<1>9. ProcInv'
  BY <1>1, <1>5, <1>7, Zenon DEF Inv, ProcInv, Up
<1>10. SpaceInv'
  <2>1. Len(lh)' + Cardinality(Unused') <= Room /\ Len(head)' <= Room
    BY <1>1, <1>7, Zenon DEF Inv, SpaceInv
  <2>2. \A q \in Procs : IsFiniteSet(wrote'[q])
    BY <1>1, Zenon DEF Inv, SpaceInv
  <2>3. \A q \in Active' : wrote'[q] \subseteq Elements(lh)'
    BY <1>1, <1>7 DEF Inv, SpaceInv, Elements
  <2>4. \A q \in Procs : pc'[q] = "append" =>
          Cardinality(wrote'[q] \cup {block'[q]}) <= OpBlocks
    BY <1>1, Zenon DEF Inv, SpaceInv
  <2> QED
    BY <2>1, <2>2, <2>3, <2>4, Zenon DEF SpaceInv
<1>11. BootInv' /\ OpenInv' /\ DistinctInv' /\ SleepInv'
  <2>1. BootInv' /\ DistinctInv'
    BY <1>1 DEF Inv, BootInv, DistinctInv, Up, Boots, Distinct
  <2>2. OpenInv'
    BY <1>1, Zenon DEF Inv, OpenInv, Up, Elements
  <2>3. SleepInv'
    BY <1>1, Zenon DEF Inv, SleepInv, BeginNoLostWakeup
  <2> QED
    BY <2>1, <2>2, <2>3, Zenon
<1> QED
  BY <1>3, <1>4, <1>6, <1>7, <1>8, <1>9, <1>10, <1>11, Zenon DEF Inv

(* log_write: the block is in lh, once, and uses up a credit of its call   *)
(* if it was not there.                                                    *)
LEMMA Inv_log_write ==
  ASSUME Inv, NEW p \in Procs, NEW v \in Values, log_write(p, v)
  PROVE  /\ Inv' /\ Active' = Active /\ p \in Active /\ block[p] \in Blocks
         /\ \A c \in Blocks : Buffer(c)' = IF c = block[p] THEN v ELSE Buffer(c)
<1>0. PICK b \in Blocks : b = block[p]
  BY Zenon DEF log_write, Inv, ProcInv
<1>1. pc[p] = "append" /\ b \in Blocks /\ p \in Active /\ p \in Procs
  BY Zenon DEF log_write, Inv, ProcInv, Active
<1>2. /\ Up /\ pc'[p] = "call"
      /\ UNCHANGED <<outstanding, committing, disk, logdisk, head, tail, boot>>
      /\ dirty' = dirty \cup {b}
      /\ block'[p] = NoBlock /\ wrote'[p] = wrote[p] \cup {b}
      /\ \A q \in Procs \ {p} : /\ block'[q] = block[q] /\ pc'[q] = pc[q]
                                /\ wrote'[q] = wrote[q]
      /\ pc' \in [Procs -> Locations] /\ block' \in [Procs -> Blocks \cup {NoBlock}]
      /\ wrote' \in [Procs -> SUBSET Blocks]
  BY <1>0, <1>1, Zenon DEF log_write, persistent, Inv, Types, Goto, Locations
<1>3. /\ cache'[b] = v /\ \A c \in Blocks \ {b} : cache'[c] = cache[c]
      /\ cache' \in [Blocks -> Values \cup {None}]
  BY <1>0, <1>1, Zenon DEF log_write, Inv, Types
<1>4. lh' = IF b \in Elements(lh) THEN lh ELSE Append(lh, b)
  BY <1>0, Zenon DEF log_write
<1>5. lh \in Seq(Blocks) /\ Distinct(lh) /\ Len(lh) \in Nat
  BY DEF Inv, Types, DistinctInv
<1>6. lh' \in Seq(Blocks) /\ Elements(lh') = Elements(lh) \cup {b} /\ Distinct(lh')
  <2>1. CASE b \in Elements(lh)
    BY <1>4, <1>5, <2>1, Zenon
  <2>2. CASE b \notin Elements(lh)
    BY <1>1, <1>4, <1>5, <2>2, AppendElements
  <2> QED
    BY <2>1, <2>2, Zenon
<1>7. Elements(lh)' = Elements(lh') /\ Distinct(lh)' = Distinct(lh')
  BY Zenon DEF Elements, Distinct
<1>8. ~ committing /\ head = <<>> /\ dirty = Elements(lh) /\ outstanding # 0
  BY <1>1, <1>2, Outstanding, Zenon DEF Inv, ProcInv, OpenInv
<1>9. Active' = Active
  BY <1>1, <1>2, Zenon DEF Active
<1>10. Types'
  BY <1>1, <1>2, <1>3, <1>6, Zenon DEF Inv, Types
<1>11. \A q \in Procs : pc'[q] \in InCommit \/ pc[q] \in InCommit => pc'[q] = pc[q]
  BY <1>1, <1>2, Zenon DEF InCommit
<1>12. ProcInv'
  BY <1>2, <1>9, <1>11, ZenonT(30), Zenon DEF Inv, ProcInv, Up
<1>13. CacheInv'
  BY <1>2, <1>3, LogAssumption, ZenonT(30), Zenon DEF Inv, CacheInv
<1>14. DistinctInv'
  BY <1>2, <1>6, <1>7, Zenon DEF Inv, DistinctInv, Distinct
<1>15. OpenInv'
  BY <1>2, <1>6, <1>7, <1>8, Zenon DEF OpenInv
<1>16. CommitInv'
  BY <1>2, <1>8, <1>12, NoCommit, Zenon
<1>17. BootInv' /\ SleepInv'
  BY <1>2, Zenon DEF Inv, BootInv, SleepInv, BeginNoLostWakeup, Up, Boots
<1>18. SpaceInv'
  <2>1. Active \in SUBSET Procs /\ IsFiniteSet(wrote[p]) /\ IsFiniteSet(Unused)
    <3>1. Active \in SUBSET Procs
      BY Zenon DEF Active
    <3> QED
      BY <3>1, CreditsBound, Zenon DEF Unused, Inv, SpaceInv
  <2>2. IsFiniteSet(wrote'[p]) /\ Cardinality(wrote[p]) \in Nat
    <3>1. Cardinality(wrote[p]) \in Nat
      BY <2>1, FS_CardinalityType, Zenon
    <3>2. IsFiniteSet(wrote[p] \cup {b})
      BY <2>1, FS_AddElement, Zenon
    <3> QED
      BY <1>2, <3>1, <3>2, Zenon
  <2>3. Cardinality(wrote'[p]) <= OpBlocks
    BY <1>0, <1>1, <1>2, ZenonT(30), Zenon DEF Inv, SpaceInv
  <2>4. \A q \in Active' : wrote'[q] \subseteq Elements(lh)'
    BY <1>1, <1>2, <1>6, <1>7, <1>9, <2>1, Zenon DEF Inv, SpaceInv
  <2>5. Cardinality(Unused) \in Nat /\ Room \in Nat /\ Len(lh) + Cardinality(Unused) <= Room
    BY <2>1, FS_CardinalityType, RoomOnDisk, Zenon DEF Inv, SpaceInv
  <2>6. Len(lh)' + Cardinality(Unused') <= Room
    <3>1. CASE b \in wrote[p]
      <4>1. b \in Elements(lh)
        BY <1>1, <3>1, Zenon DEF Inv, SpaceInv
      <4>2. \A q \in Procs : wrote'[q] = wrote[q]
        BY <1>2, <3>1, Zenon
      <4>3. Unused' = Unused
        BY <1>9, <2>1, <4>2, Zenon DEF Unused, Credits
      <4> QED
        BY <1>4, <2>5, <4>1, <4>3, Zenon
    <3>2. CASE b \notin wrote[p]
      <4> DEFINE k == Cardinality(wrote[p])
      <4>1. k \in Nat /\ Cardinality(wrote'[p]) = k + 1 /\ k + 1 <= OpBlocks
        <5>1. Cardinality(wrote[p] \cup {b}) = k + 1
          BY <2>1, <3>2, FS_AddElement, ZenonT(30), Zenon
        <5> QED
          BY <1>2, <2>2, <2>3, <5>1, Zenon
      <4>2. k + 1 \in 1 .. OpBlocks /\ k + 1 > Cardinality(wrote[p])
        BY <4>1, LogAssumption
      <4>6. <<p, k + 1>> \in Unused
        BY <1>1, <4>2, Zenon DEF Unused, Credits
      <4> HIDE DEF k
      <4>3. Unused' = Unused \ {<<p, k + 1>>}
        <5>1. \A q \in Active, i \in 1 .. OpBlocks :
                i > Cardinality(wrote'[q]) <=> i > Cardinality(wrote[q]) /\ <<q, i>> # <<p, k + 1>>
          <6> SUFFICES ASSUME NEW q \in Active, NEW i \in 1 .. OpBlocks
                       PROVE  i > Cardinality(wrote'[q]) <=>
                                i > Cardinality(wrote[q]) /\ <<q, i>> # <<p, k + 1>>
            BY Zenon
          <6>1. CASE q = p
            BY <4>1, <6>1, LogAssumption DEF k
          <6>2. CASE q # p
            BY <1>2, <2>1, <6>2, Zenon
          <6> QED
            BY <6>1, <6>2, Zenon
        <5>2. /\ Unused' = {c \in Active \X (1 .. OpBlocks) : c[2] > Cardinality(wrote'[c[1]])}
              /\ Unused = {c \in Active \X (1 .. OpBlocks) : c[2] > Cardinality(wrote[c[1]])}
          BY <1>9, Zenon DEF Unused, Credits
        <5> QED
          BY <5>1, <5>2
      <4>4. Cardinality(Unused') = Cardinality(Unused) - 1
        <5> DEFINE x == <<p, k + 1>>
        <5> HIDE DEF x
        <5>1. x \in Unused /\ Unused' = Unused \ {x}
          BY <4>6, <4>3, Zenon DEF x
        <5> QED
          BY <2>1, <5>1, FS_RemoveElement, ZenonT(30), Zenon
      <4>5. Len(lh)' <= Len(lh) + 1 /\ Len(lh)' \in Nat
        BY <1>1, <1>4, <1>5
      <4> QED
        BY <1>5, <2>5, <4>4, <4>5
    <3> QED
      BY <3>1, <3>2, Zenon
  <2>7. \A q \in Procs : pc'[q] = "append" =>
          Cardinality(wrote'[q] \cup {block'[q]}) <= OpBlocks
    BY <1>2, Zenon DEF Inv, SpaceInv
  <2>8. \A q \in Procs : IsFiniteSet(wrote'[q])
    BY <1>2, <2>2, ZenonT(30), Zenon DEF Inv, SpaceInv
  <2> QED
    BY <1>2, <2>4, <2>6, <2>7, <2>8, Zenon DEF Inv, SpaceInv
<1>19. \A c \in Blocks : Buffer(c)' = IF c = b THEN v ELSE Buffer(c)
  BY <1>1, <1>2, <1>3, LogAssumption, Zenon DEF Buffer
<1> QED
  BY <1>0, <1>1, <1>9, <1>10, <1>12, <1>13, <1>14, <1>15, <1>16, <1>17, <1>18, <1>19, Zenon DEF Inv

-----------------------------------------------------------------------------
(* end_op: the last call to end finds the log ready to be committed.       *)
LEMMA Inv_end_op ==
  ASSUME Inv, NEW p \in Procs, end_op(p)
  PROVE  Inv' /\ Active' = Active \ {p}
<1>1. /\ Up /\ pc[p] = "call" /\ outstanding' = outstanding - 1
      /\ UNCHANGED <<lh, cache, dirty, disk, logdisk, head, block, wrote, boot>>
  BY Zenon DEF end_op, persistent
<1>2. p \in Active /\ Active \in SUBSET Procs
  BY <1>1, Zenon DEF Active
<1>3. ~ committing /\ head = <<>> /\ dirty = Elements(lh)
  BY <1>1, <1>2, Zenon DEF Inv, ProcInv, OpenInv
<1>4. \A q \in Procs : pc[q] \notin InCommit
  BY <1>3, Zenon DEF Inv, ProcInv
<1>5. \/ /\ outstanding' = 0 /\ committing' = TRUE /\ tail' = 0
         /\ pc'[p] = (IF lh = <<>> THEN "committed" ELSE "write_log")
         /\ \A q \in Procs \ {p} : pc'[q] = pc[q]
         /\ pc' \in [Procs -> Locations]
      \/ /\ outstanding' # 0 /\ committing' = FALSE /\ tail' = tail
         /\ pc'[p] = "user"
         /\ \A q \in Procs \ {p} : pc'[q] = IF pc[q] = "asleep" THEN "retry" ELSE pc[q]
         /\ pc' \in [Procs -> Locations]
  BY <1>3, Zenon DEF end_op, Goto, WakeAndGoto, Inv, Types, Locations, InCommit
<1>6. Active' = Active \ {p}
  <2>1. \A q \in Procs \ {p} : /\ pc'[q] \in {"call", "append", "panic"} <=>
                                  pc[q] \in {"call", "append", "panic"}
    BY <1>5, Zenon
  <2>2. pc'[p] \notin {"call", "append", "panic"}
    BY <1>5, Zenon
  <2> QED
    BY <2>1, <2>2, Zenon DEF Active
<1>7. outstanding \in Nat /\ outstanding' \in Nat /\ outstanding' = Cardinality(Active')
  <2>1. IsFiniteSet(Active) /\ outstanding = Cardinality(Active) /\ outstanding \in Nat
    BY <1>2, CreditsBound, Zenon DEF Inv, ProcInv, Types
  <2>2. Cardinality(Active \ {p}) = outstanding - 1 /\ IsFiniteSet(Active \ {p})
    BY <1>2, <2>1, FS_RemoveElement, Zenon
  <2> QED
    BY <1>1, <1>6, <2>1, <2>2, FS_CardinalityType, Zenon
<1>8. Types'
  <2>1. committing' \in BOOLEAN /\ tail' \in Nat /\ pc' \in [Procs -> Locations]
    <3>1. committing' \in BOOLEAN
      BY <1>5, ZenonT(30), Zenon
    <3>2. tail' \in Nat /\ pc' \in [Procs -> Locations]
      BY <1>5 DEF Inv, Types
    <3> QED
      BY <3>1, <3>2, Zenon
  <2> QED
    BY <1>1, <1>7, <2>1, Zenon DEF Inv, Types
<1>9. CacheInv' /\ DistinctInv' /\ BootInv'
  BY <1>1 DEF Inv, CacheInv, DistinctInv, Distinct, BootInv, Up, Boots
<1>10. SpaceInv'
  <2>1. Unused' \in SUBSET Unused
    BY <1>1, <1>6, Zenon DEF Unused, Credits
  <2>2. Cardinality(Unused') <= Cardinality(Unused) /\ Cardinality(Unused') \in Nat
    <3>1. IsFiniteSet(Unused)
      BY <1>2, CreditsBound, ZenonT(30), Zenon DEF Unused
    <3> QED
      BY <2>1, <3>1, FS_Subset, FS_CardinalityType, Zenon
  <2>3. Cardinality(Unused) \in Nat /\ Len(lh) \in Nat /\ Room \in Nat
    <3>1. Cardinality(Unused) \in Nat
      BY <1>2, CreditsBound, Zenon DEF Unused
    <3> QED
      BY <3>1, RoomOnDisk DEF Inv, Types
  <2>4. Len(lh)' + Cardinality(Unused') <= Room
    BY <1>1, <2>2, <2>3 DEF Inv, SpaceInv
  <2>5. \A q \in Procs : pc'[q] = "append" => pc[q] = "append"
    BY <1>5, Zenon
  <2>6. \A q \in Procs : pc'[q] = "append" =>
          Cardinality(wrote'[q] \cup {block'[q]}) <= OpBlocks
    BY <1>1, <2>5, Zenon DEF Inv, SpaceInv
  <2>7. \A q \in Active' : wrote'[q] \subseteq Elements(lh)'
    BY <1>1, <1>6, Zenon DEF Inv, SpaceInv, Elements
  <2>8. (\A q \in Procs : IsFiniteSet(wrote'[q])) /\ Len(head)' <= Room
    BY <1>1, Zenon DEF Inv, SpaceInv
  <2> QED
    BY <2>4, <2>6, <2>7, <2>8, Zenon DEF SpaceInv
<1>11. \A q \in Procs : pc'[q] = "append" => pc[q] = "append"
  BY <1>5, Zenon
<1>12. CASE outstanding' = 0
  <2>1. /\ committing' = TRUE /\ tail' = 0
        /\ pc'[p] = (IF lh = <<>> THEN "committed" ELSE "write_log")
        /\ \A q \in Procs \ {p} : pc'[q] = pc[q]
    BY <1>5, <1>12, Zenon
  <2>2. Active' = {}
    <3>1. IsFiniteSet(Active')
      BY <1>2, <1>6, CreditsBound, Zenon
    <3> QED
      BY <1>7, <1>12, <3>1, FS_EmptySet, ZenonT(30), Zenon
  <2>3. pc'[p] \in InCommit /\ \A q \in Procs \ {p} : pc'[q] \notin InCommit
    BY <1>4, <2>1, Zenon DEF InCommit
  <2>4. ProcInv'
    BY <1>1, <1>7, <1>11, <2>1, <2>2, <2>3, Zenon DEF Inv, ProcInv, Up
  <2>5. \A l \in InCommit : At(l)' => l = pc'[p]
    BY <2>3, Zenon DEF At
  <2>6. CASE lh = <<>>
    <3>1. /\ ~ At("write_log")' /\ ~ At("write_head")' /\ ~ At("install_trans")'
          /\ ~ At("erase")'
      BY <2>1, <2>5, <2>6, Zenon DEF InCommit
    <3>2. CommitInv'
      BY <1>1, <1>3, <2>6, <3>1, NoElements, Zenon DEF CommitInv
    <3> QED
      BY <1>6, <1>8, <1>9, <1>10, <2>1, <2>4, <3>2, ZenonT(30), Zenon
         DEF Inv, OpenInv, SleepInv, BeginNoLostWakeup
  <2>7. CASE lh # <<>>
    <3>1. /\ ~ At("write_head")' /\ ~ At("install_trans")'
          /\ ~ At("erase")' /\ ~ At("committed")'
      BY <2>1, <2>5, <2>7, Zenon DEF InCommit
    <3>2. Len(lh) > 0 /\ Copied(0)'
      BY <2>7 DEF Inv, Types, Copied
    <3>3. CommitInv'
      BY <1>1, <1>3, <2>1, <3>1, <3>2, Zenon DEF CommitInv, Elements
    <3> QED
      BY <1>6, <1>8, <1>9, <1>10, <2>1, <2>4, <3>3, ZenonT(40)
         DEF Inv, OpenInv, SleepInv, BeginNoLostWakeup
  <2> QED
    BY <2>6, <2>7, Zenon
<1>13. CASE outstanding' # 0
  <2>1. /\ committing' = FALSE /\ pc'[p] = "user"
        /\ \A q \in Procs \ {p} : pc'[q] = IF pc[q] = "asleep" THEN "retry" ELSE pc[q]
    BY <1>5, <1>13, Zenon
  <2>2. \A q \in Procs : pc'[q] \notin InCommit /\ pc'[q] # "asleep"
    BY <1>4, <2>1, Zenon DEF InCommit
  <2>3. ProcInv'
    BY <1>1, <1>7, <1>11, <2>1, <2>2, Zenon DEF Inv, ProcInv, Up
  <2>4. CommitInv'
    BY <2>1, <2>3, NoCommit, Zenon
  <2>5. OpenInv'
    BY <1>1, <1>3, <1>13, Zenon DEF OpenInv, Elements
  <2>6. SleepInv'
    BY <2>2, Zenon DEF SleepInv, BeginNoLostWakeup
  <2> QED
    BY <1>6, <1>8, <1>9, <1>10, <2>3, <2>4, <2>5, <2>6, Zenon DEF Inv
<1> QED
  BY <1>12, <1>13, Zenon

-----------------------------------------------------------------------------
(* The steps of commit.                                                    *)

(* write_log copies the buffer of the next block of lh into the log.       *)
LEMMA Inv_write_log ==
  ASSUME Inv, NEW p \in Procs, write_log(p)
  PROVE  /\ Inv' /\ Active' = Active /\ head = <<>> /\ disk' = disk
         /\ \A c \in Blocks : Buffer(c)' = Buffer(c)
<1>0. Up /\ pc[p] = "write_log" /\ tail' = tail + 1
  BY Zenon DEF write_log
<1>2. /\ head = <<>> /\ dirty = Elements(lh) /\ tail < Len(lh) /\ Copied(tail)
  BY <1>0, Zenon DEF Inv, CommitInv, At
<1>3. /\ tail \in Nat /\ Len(lh) \in Nat /\ Len(lh) <= Room
      /\ Len(head) <= Room
      /\ \A i \in 1 .. Len(lh) : lh[i] \in Blocks
  BY LogFits DEF Inv, Types
<1>4. tail + 1 \in LogSlots /\ tail + 1 \in 1 .. Len(lh)
  BY <1>2, <1>3, RoomOnDisk, LogAssumption DEF LogSlots
<1>1. /\ Up /\ pc[p] = "write_log" /\ tail' = tail + 1
      /\ UNCHANGED <<lh, outstanding, committing, cache, dirty, disk, head, block, wrote, boot>>
      /\ logdisk' = [logdisk EXCEPT ![tail + 1] = Buffer(lh[tail + 1])]
  BY <1>0, <1>4, Zenon DEF write_log
<1>5. \A c \in Blocks : Buffer(c)' = Buffer(c)
  BY <1>1, Zenon DEF Buffer
<1>6. PICK loc \in {"write_log", "write_head"} :
        /\ pc' = [pc EXCEPT ![p] = loc]
        /\ loc = "write_head" => tail + 1 = Len(lh)
        /\ loc = "write_log" => tail + 1 # Len(lh)
  BY <1>1, Zenon DEF write_log, Goto
<1>7. /\ ProcInv' /\ SpaceInv' /\ OpenInv' /\ BootInv' /\ SleepInv'
      /\ \A l \in InCommit : At(l)' => l = loc
      /\ pc' \in [Procs -> Locations]
      /\ Active = {} /\ Active' = {}
  <2>1. pc[p] \in InCommit /\ loc \in InCommit
    BY <1>1, Zenon DEF InCommit
  <2>2. lh' \in Seq(Blocks) /\ Len(lh)' <= Room /\ Len(head)' <= Room
    BY <1>1, <1>3, Zenon DEF Inv, Types
  <2> QED
    BY <1>1, <1>6, <2>1, <2>2, CommitFrame, Zenon
<1>8. /\ logdisk' \in [LogSlots -> Values]
      /\ logdisk'[tail + 1] = Buffer(lh[tail + 1])
      /\ \A i \in LogSlots \ {tail + 1} : logdisk'[i] = logdisk[i]
  <2>1. Buffer(lh[tail + 1]) \in Values
    BY <1>3, <1>4, BufferValue, Zenon DEF Inv
  <2> QED
    BY <1>1, <1>4, <2>1, Zenon DEF Inv, Types
<1>9. Types'
  <2>1. tail' \in Nat
    BY <1>1, <1>3
  <2>2. UNCHANGED <<lh, outstanding, committing, cache, dirty, disk, head, block, wrote, boot>>
    BY <1>1, Zenon
  <2> QED
    BY <1>7, <1>8, <2>1, <2>2, Zenon DEF Inv, Types
<1>10. CacheInv' /\ DistinctInv'
  BY <1>1, Zenon DEF Inv, CacheInv, DistinctInv, Distinct
<1>11. \A i \in 1 .. (tail + 1) : logdisk'[i] = Buffer(lh[i])
  <2>1. \A i \in 1 .. tail : i \in LogSlots \ {tail + 1}
    BY <1>2, <1>3, RoomOnDisk, LogAssumption DEF LogSlots
  <2>2. \A i \in 1 .. tail : logdisk'[i] = Buffer(lh[i])
    BY <1>2, <1>8, <2>1, Zenon DEF Copied
  <2> QED
    BY <1>3, <1>8, <2>2
<1>12. Copied(tail)'
  <2>1. \A i \in 1 .. (tail + 1) : lh[i] \in Blocks
    BY <1>3, <1>4
  <2>2. \A i \in 1 .. (tail + 1) : logdisk'[i] = Buffer(lh[i])'
    BY <1>1, <1>11, Zenon DEF Buffer
  <2> QED
    BY <1>1, <2>2, Zenon DEF Copied
<1>13. CommitInv'
  <2>1. CASE loc = "write_log"
    <3>1. tail' < Len(lh)'
      BY <1>1, <1>3, <1>4, <1>6, <2>1
    <3>2. /\ ~ At("write_head")' /\ ~ At("install_trans")'
          /\ ~ At("erase")' /\ ~ At("committed")'
      BY <1>7, <2>1, Zenon DEF InCommit
    <3> QED
      BY <1>1, <1>2, <1>12, <3>1, <3>2, Zenon DEF CommitInv, Elements
  <2>2. CASE loc = "write_head"
    <3>1. tail' = Len(lh)' /\ Len(lh) > 0
      BY <1>1, <1>3, <1>4, <1>6, <2>2
    <3>2. Copied(Len(lh))'
      BY <1>12, <3>1, Zenon DEF Copied
    <3>3. /\ ~ At("write_log")' /\ ~ At("install_trans")'
          /\ ~ At("erase")' /\ ~ At("committed")'
      BY <1>7, <2>2, Zenon DEF InCommit
    <3> QED
      BY <1>1, <1>2, <3>1, <3>2, <3>3, Zenon DEF CommitInv, Elements
  <2> QED
    BY <2>1, <2>2, Zenon
<1> QED
  BY <1>1, <1>2, <1>5, <1>7, <1>9, <1>10, <1>13, Zenon DEF Inv

(* write_head makes the header list what the log holds.                    *)
LEMMA Inv_write_head ==
  ASSUME Inv, NEW p \in Procs, write_head(p)
  PROVE  /\ Inv' /\ Active = {} /\ Active' = {}
         /\ \A c \in Blocks : Buffer(c)' = Buffer(c)
         /\ \A c \in Blocks \ Elements(lh) : disk[c] = Buffer(c)
         /\ Copied(Len(lh))
<1>1. /\ Up /\ pc[p] = "write_head" /\ tail' = 0 /\ head' = lh
      /\ UNCHANGED <<lh, outstanding, committing, cache, dirty, disk, logdisk, block, wrote, boot>>
      /\ pc' = [pc EXCEPT ![p] = "install_trans"]
  BY Zenon DEF write_head, memory, Goto
<1>2. dirty = Elements(lh) /\ Copied(Len(lh)) /\ Len(lh) > 0
  BY <1>1, Zenon DEF Inv, CommitInv, At
<1>3. Len(lh) \in Nat /\ Len(lh) <= Room /\ lh \in Seq(Blocks)
  BY LogFits DEF Inv, Types
<1>4. /\ ProcInv' /\ SpaceInv' /\ OpenInv' /\ BootInv' /\ SleepInv'
      /\ \A l \in InCommit : At(l)' => l = "install_trans"
      /\ pc' \in [Procs -> Locations]
      /\ Active = {} /\ Active' = {}
  <2>1. pc[p] \in InCommit /\ "install_trans" \in InCommit
    BY <1>1, Zenon DEF InCommit
  <2>2. lh' \in Seq(Blocks) /\ Len(lh)' <= Room /\ Len(head)' <= Room
    BY <1>1, <1>3, Zenon
  <2> QED
    BY <1>1, <2>1, <2>2, CommitFrame, Zenon
<1>5. Types'
  BY <1>1, <1>3, <1>4, Zenon DEF Inv, Types
<1>6. CacheInv' /\ DistinctInv'
  BY <1>1, Zenon DEF Inv, CacheInv, DistinctInv, Distinct
<1>7. \A c \in Blocks : Buffer(c)' = Buffer(c)
  BY <1>1, Zenon DEF Buffer
<1>8. CommitInv'
  <2>1. Copied(Len(lh))' /\ Installed(tail)'
    <3>1. Copied(Len(lh))'
      BY <1>1, <1>2, Zenon DEF Copied, Buffer
    <3>2. Installed(0)'
      BY DEF Installed
    <3> QED
      BY <1>1, <3>1, <3>2, Zenon DEF Installed
  <2>2. (dirty = {lh[i] : i \in (tail + 1) .. Len(lh)})'
    <3>1. dirty' = {lh'[i] : i \in 1 .. Len(lh')} /\ tail' + 1 = 1
      BY <1>1, <1>2 DEF Elements
    <3> QED
      BY <3>1, Zenon
  <2>3. /\ ~ At("write_log")' /\ ~ At("write_head")'
        /\ ~ At("erase")' /\ ~ At("committed")'
    BY <1>4, Zenon DEF InCommit
  <2> QED
    BY <1>1, <1>2, <2>1, <2>2, <2>3, Zenon DEF CommitInv
<1>9. \A c \in Blocks \ Elements(lh) : disk[c] = Buffer(c)
  BY <1>2, Zenon DEF Inv, CacheInv, Buffer
<1> QED
  BY <1>2, <1>4, <1>5, <1>6, <1>7, <1>8, <1>9, Zenon DEF Inv

(* InstallBlock: the next block is on the disk as it is in the log, and    *)
(* no other block changes.                                                 *)
LEMMA InstallFacts ==
  ASSUME Inv, InstallBlock, tail < Len(lh), logdisk' = logdisk, lh' = lh, Installed(tail)
  PROVE  \E b \in Blocks :
           /\ b = lh[tail + 1] /\ tail + 1 \in 1 .. Len(lh) /\ logdisk[tail + 1] \in Values
           /\ tail' = tail + 1 /\ dirty' = dirty \ {b}
           /\ disk' \in [Blocks -> Values] /\ cache' \in [Blocks -> Values \cup {None}]
           /\ disk'[b] = logdisk[tail + 1] /\ cache'[b] = logdisk[tail + 1]
           /\ \A c \in Blocks \ {b} : disk'[c] = disk[c] /\ cache'[c] = cache[c]
           /\ CacheInv' /\ Installed(tail)'
<1>1. /\ tail \in Nat /\ Len(lh) \in Nat /\ Len(lh) <= Room /\ lh \in Seq(Blocks)
  BY LogFits DEF Inv, Types
<1>2. /\ tail + 1 \in 1 .. Len(lh) /\ tail + 1 \in LogSlots
  BY <1>1, RoomOnDisk, LogAssumption DEF LogSlots
<1>3. PICK b \in Blocks : b = lh[tail + 1]
  BY <1>1, <1>2
<1>4. logdisk[tail + 1] \in Values
  BY <1>2, Zenon DEF Inv, Types
<1>5. /\ tail' = tail + 1 /\ dirty' = dirty \ {b}
      /\ disk' \in [Blocks -> Values] /\ cache' \in [Blocks -> Values \cup {None}]
      /\ disk'[b] = logdisk[tail + 1] /\ cache'[b] = logdisk[tail + 1]
      /\ \A c \in Blocks \ {b} : disk'[c] = disk[c] /\ cache'[c] = cache[c]
  BY <1>2, <1>3, <1>4, Zenon DEF InstallBlock, LogBlock, Inv, Types
<1>6. CacheInv'
  BY <1>5, Zenon DEF Inv, CacheInv
<1>7. \A i \in 1 .. (tail + 1) : disk'[lh[i]] = logdisk[i]
  <2>1. \A i \in 1 .. tail : lh[i] \in Blocks \ {b} /\ disk[lh[i]] = logdisk[i]
    <3>1. \A i \in 1 .. tail : i \in 1 .. Len(lh) /\ i # tail + 1
      BY <1>1
    <3>2. \A i \in 1 .. Len(lh) : lh[i] = lh[tail + 1] => i = tail + 1
      BY <1>2, Zenon DEF Inv, DistinctInv, Distinct
    <3>3. \A i \in 1 .. Len(lh) : lh[i] \in Blocks
      BY <1>1
    <3>4. \A i \in 1 .. tail : disk[lh[i]] = logdisk[i]
      BY Zenon DEF Installed
    <3> QED
      BY <1>3, <3>1, <3>2, <3>3, <3>4, Zenon
  <2>2. \A i \in 1 .. tail : disk'[lh[i]] = logdisk[i]
    BY <1>5, <2>1, Zenon
  <2>3. \A i \in 1 .. (tail + 1) : i \in 1 .. tail \/ i = tail + 1
    BY <1>1
  <2>4. disk'[lh[tail + 1]] = logdisk[tail + 1]
    BY <1>3, <1>5, Zenon
  <2> QED
    BY <2>2, <2>3, <2>4, Zenon
<1>8. Installed(tail)'
  BY <1>5, <1>7, Zenon DEF Installed
<1> QED
  BY <1>2, <1>3, <1>4, <1>5, <1>6, <1>8, Zenon

(* install_trans in a commit.  The buffer held what the log holds, so the  *)
(* blocks that calls see do not change.                                    *)
LEMMA Inv_install_trans ==
  ASSUME Inv, NEW p \in Procs, install_trans(p)
  PROVE  /\ Inv' /\ Active' = Active /\ head = lh
         /\ \A c \in Blocks : Buffer(c)' = Buffer(c)
         /\ \A c \in Blocks \ Elements(lh) : disk'[c] = disk[c]
<1>1. /\ Up /\ pc[p] = "install_trans" /\ InstallBlock
      /\ UNCHANGED <<lh, outstanding, committing, logdisk, head, block, wrote, boot>>
  BY Zenon DEF install_trans
<1>2. /\ head = lh /\ dirty = {lh[i] : i \in (tail + 1) .. Len(lh)} /\ tail < Len(lh)
      /\ Copied(Len(lh)) /\ Installed(tail)
  BY <1>1, Zenon DEF Inv, CommitInv, At
<1>3. PICK b \in Blocks :
        /\ b = lh[tail + 1] /\ tail + 1 \in 1 .. Len(lh) /\ logdisk[tail + 1] \in Values
        /\ tail' = tail + 1 /\ dirty' = dirty \ {b}
        /\ disk' \in [Blocks -> Values] /\ cache' \in [Blocks -> Values \cup {None}]
        /\ disk'[b] = logdisk[tail + 1] /\ cache'[b] = logdisk[tail + 1]
        /\ \A c \in Blocks \ {b} : disk'[c] = disk[c] /\ cache'[c] = cache[c]
        /\ CacheInv' /\ Installed(tail)'
  BY <1>1, <1>2, InstallFacts, Zenon
<1>4. /\ tail \in Nat /\ Len(lh) \in Nat /\ Len(lh) <= Room /\ lh \in Seq(Blocks)
      /\ Len(head) <= Room
  BY LogFits DEF Inv, Types
<1>5. PICK loc \in {"install_trans", "erase"} :
        /\ pc' = [pc EXCEPT ![p] = loc]
        /\ loc = "erase" => tail + 1 = Len(lh)
        /\ loc = "install_trans" => tail + 1 # Len(lh)
  BY <1>3, Zenon DEF install_trans, Goto
<1>6. /\ ProcInv' /\ SpaceInv' /\ OpenInv' /\ BootInv' /\ SleepInv'
      /\ \A l \in InCommit : At(l)' => l = loc
      /\ pc' \in [Procs -> Locations]
      /\ Active = {} /\ Active' = {}
  <2>1. pc[p] \in InCommit /\ loc \in InCommit
    BY <1>1, Zenon DEF InCommit
  <2>2. lh' \in Seq(Blocks) /\ Len(lh)' <= Room /\ Len(head)' <= Room
    BY <1>1, <1>4, Zenon
  <2> QED
    BY <1>1, <1>5, <2>1, <2>2, CommitFrame, ZenonT(30), Zenon
<1>7. Types'
  <2>1. /\ tail' \in Nat /\ dirty' \in SUBSET Blocks /\ disk' \in [Blocks -> Values]
        /\ cache' \in [Blocks -> Values \cup {None}]
    BY <1>3, <1>4 DEF Inv, Types
  <2>2. UNCHANGED <<lh, outstanding, committing, logdisk, head, block, wrote, boot>>
    BY <1>1, Zenon
  <2> QED
    BY <1>6, <2>1, <2>2, Zenon DEF Inv, Types
<1>8. DistinctInv'
  BY <1>1, Zenon DEF Inv, DistinctInv, Distinct
<1>9. \A c \in Blocks : Buffer(c)' = Buffer(c)
  <2>1. Buffer(lh[tail + 1]) = logdisk[tail + 1]
    BY <1>2, <1>3, Zenon DEF Copied
  <2>2. \A c \in Blocks : c = b => Buffer(c)' = Buffer(c)
    BY <1>3, <2>1, LogAssumption, Zenon DEF Buffer
  <2>3. \A c \in Blocks : c # b => Buffer(c)' = Buffer(c)
    BY <1>3, Zenon DEF Buffer
  <2> QED
    BY <2>2, <2>3, Zenon
<1>10. (dirty = {lh[i] : i \in (tail + 1) .. Len(lh)})'
  <2>1. \A i \in (tail + 1) .. Len(lh) : i # tail + 1 => i \in (tail + 2) .. Len(lh) /\ lh[i] # b
    <3>1. \A i \in (tail + 1) .. Len(lh) : i \in 1 .. Len(lh)
      BY <1>4
    <3>2. \A i \in (tail + 1) .. Len(lh) : i # tail + 1 => lh[i] # b
      BY <1>3, <3>1, Zenon DEF Inv, DistinctInv, Distinct
    <3> QED
      BY <1>4, <3>2
  <2>2. \A i \in (tail + 2) .. Len(lh) : i \in (tail + 1) .. Len(lh) /\ i # tail + 1
    BY <1>4
  <2>3. dirty' = {lh[i] : i \in (tail + 2) .. Len(lh)}
    BY <1>2, <1>3, <2>1, <2>2
  <2>4. tail' + 1 = tail + 2
    BY <1>3, <1>4
  <2> QED
    BY <1>1, <2>3, <2>4, Zenon
<1>11. CommitInv'
  <2>1. CASE loc = "install_trans"
    <3>1. tail' < Len(lh)'
      <4>1. lh' = lh /\ tail' = tail + 1 /\ tail + 1 \in 1 .. Len(lh)
        BY <1>1, <1>3, Zenon
      <4>2. tail + 1 # Len(lh)
        BY <1>5, <2>1, Zenon
      <4> QED
        BY <1>4, <4>1, <4>2
    <3>2. Copied(Len(lh))'
      <4>1. \A i \in 1 .. Len(lh) : Buffer(lh[i])' = Buffer(lh[i])
        <5> SUFFICES ASSUME NEW i \in 1 .. Len(lh) PROVE Buffer(lh[i])' = Buffer(lh[i])
          BY Zenon
        <5>1. PICK c \in Blocks : c = lh[i]
          BY <1>4
        <5>2. Buffer(c)' = Buffer(c)
          BY <1>9, Zenon
        <5> QED
          BY <1>1, <5>1, <5>2, Zenon DEF Buffer
      <4> QED
        BY <1>1, <1>2, <4>1, ZenonT(30), Zenon DEF Copied
    <3>3. /\ ~ At("write_log")' /\ ~ At("write_head")'
          /\ ~ At("erase")' /\ ~ At("committed")'
      BY <1>6, <2>1, Zenon DEF InCommit
    <3> QED
      BY <1>1, <1>2, <1>3, <1>10, <3>1, <3>2, <3>3, ZenonT(30), Zenon DEF CommitInv
  <2>2. CASE loc = "erase"
    <3>1. tail' = Len(lh)'
      BY <1>1, <1>3, <1>5, <2>2, Zenon
    <3>2. Installed(Len(lh))'
      BY <1>3, <3>1, Zenon DEF Installed
    <3>3. dirty' = {}
      BY <1>10, <3>1, <1>1, <1>4
    <3>4. /\ ~ At("write_log")' /\ ~ At("write_head")'
          /\ ~ At("install_trans")' /\ ~ At("committed")'
      BY <1>6, <2>2, Zenon DEF InCommit
    <3> QED
      BY <1>1, <1>2, <3>2, <3>3, <3>4, Zenon DEF CommitInv
  <2> QED
    BY <2>1, <2>2, Zenon
<1>12. \A c \in Blocks \ Elements(lh) : disk'[c] = disk[c]
  BY <1>3, Zenon DEF Elements
<1> QED
  BY <1>2, <1>3, <1>6, <1>7, <1>8, <1>9, <1>11, <1>12, Zenon DEF Inv

(* The log is erased when all of it is on the disk.                        *)
LEMMA Inv_erase ==
  ASSUME Inv, NEW p \in Procs, erase(p)
  PROVE  /\ Inv' /\ Active' = Active /\ head = lh /\ Installed(Len(lh))
         /\ \A c \in Blocks : Buffer(c)' = Buffer(c)
<1>1. /\ Up /\ pc[p] = "erase" /\ lh' = <<>> /\ head' = <<>>
      /\ UNCHANGED <<outstanding, committing, cache, dirty, disk, logdisk, block, wrote,
                     tail, boot>>
      /\ pc' = [pc EXCEPT ![p] = "committed"]
  BY Zenon DEF erase, Goto
<1>2. head = lh /\ dirty = {} /\ Installed(Len(lh))
  BY <1>1, Zenon DEF Inv, CommitInv, At
<1>3. /\ ProcInv' /\ SpaceInv' /\ OpenInv' /\ BootInv' /\ SleepInv'
      /\ \A l \in InCommit : At(l)' => l = "committed"
      /\ pc' \in [Procs -> Locations]
      /\ Active = {} /\ Active' = {}
  <2>1. pc[p] \in InCommit /\ "committed" \in InCommit
    BY <1>1, Zenon DEF InCommit
  <2>2. lh' \in Seq(Blocks) /\ Len(lh)' <= Room /\ Len(head)' <= Room
    BY <1>1, RoomOnDisk
  <2> QED
    BY <1>1, <2>1, <2>2, CommitFrame, ZenonT(30), Zenon
<1>4. Types'
  <2>1. lh' \in Seq(Blocks) /\ head' \in Seq(Blocks)
    BY <1>1
  <2>2. UNCHANGED <<outstanding, committing, cache, dirty, disk, logdisk, block, wrote, tail, boot>>
    BY <1>1, Zenon
  <2> QED
    BY <1>3, <2>1, <2>2, Zenon DEF Inv, Types
<1>5. CacheInv' /\ DistinctInv'
  BY <1>1 DEF Inv, CacheInv, DistinctInv, Distinct
<1>6. CommitInv'
  <2>1. /\ ~ At("write_log")' /\ ~ At("write_head")'
        /\ ~ At("install_trans")' /\ ~ At("erase")'
    BY <1>3, Zenon DEF InCommit
  <2> QED
    BY <1>1, <1>2, <2>1, Zenon DEF CommitInv
<1> QED
  BY <1>1, <1>2, <1>3, <1>4, <1>5, <1>6, Zenon DEF Inv, Buffer

(* The end of end_op after a commit: begin_op goes on with an empty log.   *)
LEMMA Inv_committed ==
  ASSUME Inv, NEW p \in Procs, committed(p)
  PROVE  Inv' /\ Active' = Active
<1>1. /\ Up /\ pc[p] = "committed" /\ committing' = FALSE
      /\ UNCHANGED <<lh, outstanding, cache, dirty, disk, logdisk, head, block, wrote, tail, boot>>
  BY Zenon DEF committed, persistent
<1>2. /\ pc'[p] = "user" /\ pc' \in [Procs -> Locations]
      /\ \A q \in Procs \ {p} : pc'[q] = IF pc[q] = "asleep" THEN "retry" ELSE pc[q]
  BY Zenon DEF committed, WakeAndGoto, Inv, Types, Locations
<1>3. head = <<>> /\ lh = <<>> /\ dirty = {}
  BY <1>1, Zenon DEF Inv, CommitInv, At
<1>4. \A q \in Procs \ {p} : pc[q] \notin InCommit
  BY <1>1, Zenon DEF Inv, ProcInv, InCommit
<1>5. Active' = Active /\ Unused' = Unused
  BY <1>1, <1>2, Zenon DEF Active, Unused
<1>6. \A q \in Procs : pc'[q] \notin InCommit /\ pc'[q] # "asleep"
  BY <1>2, <1>4, Zenon DEF InCommit
<1>7. \A q \in Procs : pc'[q] = "append" => pc[q] = "append"
  BY <1>2, Zenon
<1>8. Types'
  BY <1>1, <1>2, Zenon DEF Inv, Types
<1>9. ProcInv'
  BY <1>1, <1>5, <1>6, <1>7, ZenonT(30), Zenon DEF Inv, ProcInv, Up
<1>10. CacheInv' /\ DistinctInv' /\ BootInv'
  <2>1. CacheInv'
    BY <1>1, Zenon DEF Inv, CacheInv
  <2> QED
    BY <1>1, <2>1 DEF Inv, DistinctInv, Distinct, BootInv, Up, Boots
<1>11. SpaceInv'
  <2>1. Len(lh)' + Cardinality(Unused') <= Room /\ Len(head)' <= Room
    BY <1>1, <1>5, Zenon DEF Inv, SpaceInv
  <2>2. \A q \in Procs : IsFiniteSet(wrote'[q])
    BY <1>1, Zenon DEF Inv, SpaceInv
  <2>3. \A q \in Active' : wrote'[q] \subseteq Elements(lh)'
    BY <1>1, <1>5, Zenon DEF Inv, SpaceInv, Elements
  <2>4. \A q \in Procs : pc'[q] = "append" =>
          Cardinality(wrote'[q] \cup {block'[q]}) <= OpBlocks
    BY <1>1, <1>7, Zenon DEF Inv, SpaceInv
  <2> QED
    BY <2>1, <2>2, <2>3, <2>4, ZenonT(30), Zenon DEF SpaceInv
<1>12. OpenInv'
  BY <1>1, <1>3, NoElements, Zenon DEF OpenInv
<1>13. CommitInv'
  BY <1>1, <1>9, NoCommit, Zenon
<1>14. SleepInv'
  BY <1>6, Zenon DEF SleepInv, BeginNoLostWakeup
<1> QED
  BY <1>5, <1>8, <1>9, <1>10, <1>11, <1>12, <1>13, <1>14, Zenon DEF Inv

-----------------------------------------------------------------------------
(* A crash leaves the disk, and an idle machine.                           *)
LEMMA Inv_Crash ==
  ASSUME Inv, Crash
  PROVE  Inv' /\ Active' = {} /\ ~ Up'
<1>1. /\ lh' = <<>> /\ outstanding' = 0 /\ committing' = FALSE /\ dirty' = {} /\ tail' = 0
      /\ boot' = "read_head" /\ UNCHANGED <<disk, logdisk, head>>
      /\ \A b \in Blocks : cache'[b] = None
      /\ \A p \in Procs : pc'[p] = "user" /\ wrote'[p] = {}
      /\ cache' \in [Blocks -> Values \cup {None}]
  BY Zenon DEF Crash, persistent
<1>2. /\ pc' \in [Procs -> Locations] /\ wrote' \in [Procs -> SUBSET Blocks]
      /\ block' \in [Procs -> Blocks \cup {NoBlock}]
  BY Zenon DEF Crash, Locations
<1>3. Active' = {} /\ Unused' = {}
  BY <1>1, Zenon DEF Active, Unused, Credits
<1>4. Types'
  <2>1. committing' \in BOOLEAN
    BY <1>1, Zenon
  <2>2. lh' \in Seq(Blocks) /\ boot' \in Boots
    BY <1>1 DEF Boots
  <2> QED
    BY <1>1, <1>2, <2>1, <2>2, Zenon DEF Inv, Types
<1>5. ProcInv'
  BY <1>1, <1>3, FS_EmptySet, Zenon DEF ProcInv, InCommit
<1>6. SpaceInv'
  <2>1. Len(lh)' = 0 /\ Cardinality(Unused') = 0 /\ Room \in Nat
    BY <1>1, <1>3, FS_EmptySet, RoomOnDisk, Zenon
  <2>2. \A p \in Procs : pc'[p] # "append" /\ IsFiniteSet(wrote'[p])
    BY <1>1, FS_EmptySet, Zenon
  <2>3. Len(lh)' + Cardinality(Unused') <= Room
    BY <2>1
  <2>4. Len(head)' <= Room
    BY <1>1, Zenon DEF Inv, SpaceInv
  <2>5. \A p \in Active' : wrote'[p] \subseteq Elements(lh)'
    BY <1>3, Zenon
  <2> QED
    BY <2>2, <2>3, <2>4, <2>5, Zenon DEF SpaceInv
<1>7. CommitInv'
  BY <1>1, <1>5, NoCommit, Zenon
<1>8. CacheInv'
  BY <1>1, Zenon DEF CacheInv
<1>9. DistinctInv'
  BY <1>1 DEF Inv, DistinctInv, Distinct
<1>10. ~ Up' /\ OpenInv' /\ BootInv' /\ SleepInv'
  BY <1>1, Zenon DEF OpenInv, BootInv, SleepInv, BeginNoLostWakeup, Up
<1> QED
  BY <1>3, <1>4, <1>5, <1>6, <1>7, <1>8, <1>9, <1>10, Zenon DEF Inv

(* A step of the recovery, for what it leaves alone.                       *)
LEMMA BootFrame ==
  ASSUME Inv, ~ Up, lh' \in Seq(Blocks), Len(lh)' <= Room, Len(head)' <= Room,
         UNCHANGED <<outstanding, committing, pc, block, wrote>>
  PROVE  ProcInv' /\ SpaceInv' /\ CommitInv' /\ SleepInv' /\ Active = {} /\ Active' = {}
<1>1. \A p \in Procs : pc[p] = "user" /\ pc'[p] = "user"
  BY Zenon DEF Inv, ProcInv
<1>2. Active = {} /\ Active' = {} /\ Unused' = {} /\ committing = FALSE
  BY <1>1, Zenon DEF Active, Unused, Credits, Inv, BootInv, Types
<1>3. ProcInv'
  BY <1>1, <1>2, Zenon DEF Inv, ProcInv, InCommit
<1>4. SpaceInv'
  <2>1. Len(lh)' \in Nat
    OBVIOUS
  <2>2. Len(lh)' + Cardinality(Unused') <= Room
    BY <1>2, <2>1, FS_EmptySet
  <2> QED
    BY <1>1, <1>2, <2>2, Zenon DEF Inv, SpaceInv
<1>5. CommitInv'
  BY <1>2, <1>3, NoCommit, Zenon
<1> QED
  BY <1>1, <1>2, <1>3, <1>4, <1>5, Zenon DEF SleepInv, BeginNoLostWakeup

(* read_head: the header that survived the crash becomes lh.               *)
LEMMA Inv_read_head ==
  ASSUME Inv, read_head
  PROVE  Inv' /\ Active' = Active /\ ~ Up /\ ~ Up'
<1>1. /\ boot = "read_head" /\ lh' = head
      /\ boot' = IF head = <<>> THEN "erase" ELSE "install_trans"
      /\ UNCHANGED <<outstanding, committing, cache, dirty, disk, logdisk, head, pc, block,
                     wrote, tail>>
  BY Zenon DEF read_head, persistent, local
<1>2. ~ Up /\ ~ Up'
  BY <1>1, Zenon DEF Up
<1>3. tail = 0 /\ head \in Seq(Blocks) /\ Len(head) \in Nat /\ Len(head) <= Room /\ dirty = {}
  BY <1>1, <1>2, LogFits DEF Inv, BootInv, Types
<1>4. ProcInv' /\ SpaceInv' /\ CommitInv' /\ SleepInv' /\ Active = {} /\ Active' = {}
  <2>1. lh' \in Seq(Blocks) /\ Len(lh)' <= Room /\ Len(head)' <= Room
    BY <1>1, <1>3, Zenon
  <2> QED
    BY <1>1, <1>2, <2>1, BootFrame, Zenon
<1>5. Types'
  BY <1>1, <1>3, Zenon DEF Inv, Types, Boots
<1>6. CacheInv' /\ DistinctInv' /\ OpenInv'
  BY <1>1, <1>2, Zenon DEF Inv, CacheInv, DistinctInv, Distinct, OpenInv
<1>7. BootInv'
  <2>1. CASE head = <<>>
    BY <1>1, <1>2, <1>3, <2>1 DEF Inv, BootInv, Installed
  <2>2. CASE head # <<>>
    <3>1. Len(head) > 0
      BY <1>3, <2>2
    <3> QED
      BY <1>1, <1>2, <1>3, <2>2, <3>1 DEF Inv, BootInv, Installed
  <2> QED
    BY <2>1, <2>2, Zenon
<1> QED
  BY <1>2, <1>4, <1>5, <1>6, <1>7, Zenon DEF Inv

(* install_trans in a recovery.                                            *)
LEMMA Inv_RecoverInstall ==
  ASSUME Inv, RecoverInstall
  PROVE  /\ Inv' /\ Active' = Active /\ ~ Up /\ ~ Up' /\ head = lh
         /\ \A c \in Blocks \ Elements(lh) : disk'[c] = disk[c]
<1>1. /\ boot = "install_trans" /\ InstallBlock
      /\ boot' = IF tail' = Len(lh) THEN "erase" ELSE "install_trans"
      /\ UNCHANGED <<lh, outstanding, committing, logdisk, head, pc, block, wrote>>
  BY Zenon DEF RecoverInstall, local
<1>2. ~ Up /\ ~ Up'
  BY <1>1, Zenon DEF Up
<1>3. lh = head /\ tail < Len(lh) /\ Installed(tail) /\ dirty = {}
  BY <1>1, <1>2, Zenon DEF Inv, BootInv
<1>4. PICK b \in Blocks :
        /\ b = lh[tail + 1] /\ tail + 1 \in 1 .. Len(lh) /\ logdisk[tail + 1] \in Values
        /\ tail' = tail + 1 /\ dirty' = dirty \ {b}
        /\ disk' \in [Blocks -> Values] /\ cache' \in [Blocks -> Values \cup {None}]
        /\ disk'[b] = logdisk[tail + 1] /\ cache'[b] = logdisk[tail + 1]
        /\ \A c \in Blocks \ {b} : disk'[c] = disk[c] /\ cache'[c] = cache[c]
        /\ CacheInv' /\ Installed(tail)'
  BY <1>1, <1>3, InstallFacts, Zenon
<1>5. /\ tail \in Nat /\ Len(lh) \in Nat /\ Len(lh) <= Room /\ lh \in Seq(Blocks)
      /\ Len(head) <= Room
  BY LogFits DEF Inv, Types
<1>6. ProcInv' /\ SpaceInv' /\ CommitInv' /\ SleepInv' /\ Active = {} /\ Active' = {}
  <2>1. lh' \in Seq(Blocks) /\ Len(lh)' <= Room /\ Len(head)' <= Room
    BY <1>1, <1>5, Zenon
  <2> QED
    BY <1>1, <1>2, <2>1, BootFrame, Zenon
<1>7. Types'
  <2>1. /\ tail' \in Nat /\ dirty' \in SUBSET Blocks /\ disk' \in [Blocks -> Values]
        /\ cache' \in [Blocks -> Values \cup {None}]
    BY <1>4, <1>5 DEF Inv, Types
  <2>2. /\ UNCHANGED <<lh, outstanding, committing, logdisk, head, pc, block, wrote>>
        /\ boot' \in Boots
    BY <1>1, Zenon DEF Boots
  <2> QED
    BY <2>1, <2>2, Zenon DEF Inv, Types
<1>8. DistinctInv' /\ OpenInv'
  BY <1>1, <1>2, Zenon DEF Inv, DistinctInv, Distinct, OpenInv
<1>9. BootInv'
  <2>1. dirty' = {} /\ ~ committing'
    BY <1>1, <1>2, <1>3, <1>4, Zenon DEF Inv, BootInv
  <2>2. CASE tail' = Len(lh)
    <3>1. Installed(Len(lh))'
      BY <1>1, <1>4, <2>2, Zenon DEF Installed
    <3> QED
      BY <1>1, <1>3, <2>1, <2>2, <3>1, Zenon DEF BootInv
  <2>3. CASE tail' # Len(lh)
    <3>1. tail' < Len(lh)'
      <4>1. lh' = lh /\ tail' = tail + 1 /\ tail + 1 \in 1 .. Len(lh)
        BY <1>1, <1>4, Zenon
      <4> QED
        BY <1>5, <2>3, <4>1
    <3> QED
      BY <1>1, <1>3, <1>4, <2>1, <2>3, <3>1, Zenon DEF BootInv
  <2> QED
    BY <2>2, <2>3, Zenon
<1>10. \A c \in Blocks \ Elements(lh) : disk'[c] = disk[c]
  BY <1>4, Zenon DEF Elements
<1> QED
  BY <1>2, <1>3, <1>4, <1>6, <1>7, <1>8, <1>9, <1>10, Zenon DEF Inv

(* The end of the recovery: the log is empty and all of it on the disk.    *)
LEMMA Inv_RecoverErase ==
  ASSUME Inv, RecoverErase
  PROVE  /\ Inv' /\ Active' = Active /\ ~ Up /\ Up' /\ head = lh /\ Installed(Len(lh))
         /\ \A c \in Blocks : Buffer(c)' = disk[c]
<1>1. /\ boot = "erase" /\ lh' = <<>> /\ head' = <<>> /\ boot' = "up"
      /\ UNCHANGED <<outstanding, committing, cache, dirty, disk, logdisk, pc, block, wrote, tail>>
  BY Zenon DEF RecoverErase, local
<1>2. ~ Up /\ Up'
  BY <1>1, Zenon DEF Up
<1>3. lh = head /\ Installed(Len(lh)) /\ dirty = {} /\ ~ committing
  BY <1>1, <1>2, Zenon DEF Inv, BootInv
<1>4. ProcInv' /\ SpaceInv' /\ CommitInv' /\ SleepInv' /\ Active = {} /\ Active' = {}
  <2>1. lh' \in Seq(Blocks) /\ Len(lh)' <= Room /\ Len(head)' <= Room
    BY <1>1, RoomOnDisk
  <2> QED
    BY <1>1, <1>2, <2>1, BootFrame, Zenon
<1>5. Types'
  BY <1>1 DEF Inv, Types, Boots
<1>6. CacheInv' /\ DistinctInv' /\ OpenInv' /\ BootInv'
  <2>1. CacheInv'
    BY <1>1, Zenon DEF Inv, CacheInv
  <2>2. DistinctInv'
    BY <1>1 DEF DistinctInv, Distinct
  <2>3. OpenInv'
    BY <1>1, <1>3, NoElements, Zenon DEF OpenInv
  <2> QED
    BY <1>1, <1>2, <2>1, <2>2, <2>3, Zenon DEF BootInv
<1>7. \A c \in Blocks : Buffer(c)' = disk[c]
  BY <1>1, <1>3, Zenon DEF Inv, CacheInv, Buffer
<1> QED
  BY <1>2, <1>3, <1>4, <1>5, <1>6, <1>7, Zenon DEF Inv

-----------------------------------------------------------------------------
(* The invariant is inductive.                                             *)
LEMMA Invariance ==
  Spec => []Inv
<1>1. Init => Inv
  BY InitInv, Zenon
<1>2. Inv /\ [Next]_vars => Inv'
  <2> SUFFICES ASSUME Inv, [Next]_vars PROVE Inv'
    BY Zenon
  <2>1. CASE UNCHANGED vars
    <3>1. /\ UNCHANGED <<lh, outstanding, committing, dirty, persistent, local, tail, boot>>
          /\ cache' = cache
      BY <2>1, Zenon DEF vars, memory
    <3>2. cache' \in [Blocks -> Values \cup {None}]
      BY <3>1, Zenon DEF Inv, Types
    <3> QED
      BY <3>1, <3>2, Inv_Cache, Zenon
  <2>2. ASSUME NEW p \in Procs, Call(p) PROVE Inv'
    BY <2>2, Inv_begin_op, Inv_LogWriteCheck, Inv_log_write, Inv_end_op, Zenon DEF Call
  <2>3. ASSUME NEW p \in Procs, Commit(p) PROVE Inv'
    BY <2>3, Inv_write_log, Inv_write_head, Inv_install_trans, Inv_erase, Inv_committed, Zenon
       DEF Commit
  <2>4. ASSUME NEW b \in Blocks, bread(b) \/ Recycle(b) PROVE Inv'
    BY <2>4, Inv_bread, Inv_Recycle, Zenon
  <2>5. CASE Crash
    BY <2>5, Inv_Crash, Zenon
  <2>6. CASE read_head \/ RecoverInstall \/ RecoverErase
    BY <2>6, Inv_read_head, Inv_RecoverInstall, Inv_RecoverErase, Zenon
  <2> QED
    BY <2>1, <2>2, <2>3, <2>4, <2>5, <2>6, Zenon DEF Next
<1> QED
  BY <1>1, <1>2, PTL DEF Spec

(* Whenever no call and no commit runs, all that the calls have written is *)
(* on the disk and the log, in memory and on the disk, is empty (end_op    *)
(* and commit, log.c 143-202).                                             *)
THEOREM DurableWhenQuiet ==
  Spec => []QuietIsDurable
<1>1. Inv => QuietIsDurable
  <2> SUFFICES ASSUME Inv, Up, outstanding = 0, ~ committing
               PROVE  lh = <<>> /\ head = <<>> /\ dirty = {} /\ disk = Seen
    BY Zenon DEF QuietIsDurable
  <2>1. lh = <<>> /\ head = <<>> /\ dirty = {}
    BY NoElements, Zenon DEF Inv, OpenInv
  <2>2. \A b \in Blocks : Buffer(b) = disk[b]
    BY <2>1, Zenon DEF Inv, CacheInv, Buffer
  <2>3. disk = [b \in Blocks |-> disk[b]]
    BY Zenon DEF Inv, Types
  <2> QED
    BY <2>1, <2>2, <2>3, Zenon DEF Seen
<1> QED
  BY <1>1, Invariance, PTL

(* A process that sleeps in begin_op will be woken: while it sleeps a call *)
(* is outstanding or a commit runs, and both end with wakeup(&log)         *)
(* (log.c 124-174).  It needs a log that has room for one call at least.   *)
THEOREM BeginSafe ==
  Spec => []BeginNoLostWakeup
<1>1. Inv => BeginNoLostWakeup
  BY Zenon DEF Inv, SleepInv
<1> QED
  BY <1>1, Invariance, PTL

(* log_write never finds the log full ("too big a transaction", log.c 218) *)
(* and no commit is larger than the log on the disk, when a call writes at *)
(* least two blocks less than begin_op reserves for it: the tests that     *)
(* log_write makes without the lock do not decide anything.                *)
THEOREM LogNeverFull ==
  ASSUME OpBlocks + 2 <= MAXOPBLOCKS
  PROVE  Spec => [](Len(lh) < size - 1 /\ \A p \in Procs : pc[p] # "panic")
<1> DEFINE NoPanic == \A p \in Procs : pc[p] # "panic"
<1>1. Init => NoPanic
  BY Zenon DEF Init
<1>2. Inv => Len(lh) < size - 1 /\ Len(lh) < LOGSIZE
  <2>1. Room < size - 1 /\ Room < LOGSIZE /\ Room \in Nat /\ size \in Nat
    BY LogAssumption DEF Room
  <2>2. Inv => Len(lh) \in Nat /\ Len(lh) <= Room
    BY LogFits DEF Inv, Types
  <2> QED
    BY <2>1, <2>2, LogAssumption
<1>3. Inv /\ NoPanic /\ [Next]_vars => NoPanic'
  <2> SUFFICES ASSUME Inv, NoPanic, [Next]_vars, NEW q \in Procs, pc'[q] = "panic" PROVE FALSE
    BY Zenon
  <2>1. ASSUME NEW p \in Procs, NEW b \in Blocks, LogWriteCheck(p, b) PROVE FALSE
    <3>1. pc[p] = "call"
      BY <2>1, Zenon DEF LogWriteCheck
    <3>2. outstanding # 0 /\ outstanding \in Nat
      BY <3>1, Outstanding, Zenon DEF Inv, Types, Active
    <3>3. ~ (Len(lh) >= LOGSIZE \/ Len(lh) >= size - 1 \/ outstanding < 1)
      BY <1>2, <3>2, LogAssumption DEF Inv, Types
    <3> QED
      BY <2>1, <3>3, Zenon DEF LogWriteCheck, Goto, Inv, Types
  <2>2. pc[q] # "panic"
    BY Zenon
  <2>3. ASSUME NEW p \in Procs, Call(p) PROVE FALSE
    BY <2>1, <2>2, <2>3, Zenon DEF Call, begin_op, log_write, end_op, Goto, WakeAndGoto, Inv, Types
  <2>4. ASSUME NEW p \in Procs, Commit(p) PROVE FALSE
    BY <2>2, <2>4, Zenon DEF Commit, write_log, write_head, install_trans, erase, committed,
       Goto, WakeAndGoto, Inv, Types
  <2>5. CASE pc' = pc
    BY <2>2, <2>5, Zenon
  <2>6. CASE Crash
    BY <2>6, Zenon DEF Crash
  <2> QED
    BY <2>3, <2>4, <2>5, <2>6, Zenon DEF Next, vars, local, bread, Recycle, read_head,
       RecoverInstall, RecoverErase
<1> QED
  BY <1>1, <1>2, <1>3, Invariance, PTL DEF Spec

-----------------------------------------------------------------------------
(* The refinement of Transactions.                                         *)

(* What a recovery would find does not depend on the memory.               *)
LEMMA RecoveredSame ==
  ASSUME UNCHANGED <<disk, logdisk, head>>
  PROVE  Recovered' = Recovered
BY DEF Recovered, Elements

(* With an empty header it is the disk.                                    *)
LEMMA RecoveredEmpty ==
  ASSUME head = <<>>
  PROVE  Recovered = [b \in Blocks |-> disk[b]]
BY NoElements, Zenon DEF Recovered

(* A block of the header is in the log at some index.                      *)
LEMMA RecoveredAt ==
  ASSUME NEW b \in Elements(head), b \in Blocks
  PROVE  \E i \in 1 .. Len(head) : head[i] = b /\ Recovered[b] = logdisk[i]
<1> DEFINE i == CHOOSE i \in 1 .. Len(head) : head[i] = b
<1>1. i \in 1 .. Len(head) /\ head[i] = b
  BY Zenon DEF Elements
<1>2. Recovered[b] = logdisk[i]
  BY Zenon DEF Recovered
<1> QED
  BY <1>1, <1>2, ZenonT(30), Zenon

(* When all of the log is installed it is the disk, too.                   *)
LEMMA RecoveredInstalled ==
  ASSUME head = lh, Installed(Len(lh))
  PROVE  Recovered = [b \in Blocks |-> disk[b]]
<1>1. \A b \in Blocks : b \in Elements(head) => Recovered[b] = disk[b]
  BY RecoveredAt DEF Installed
<1>2. \A b \in Blocks : b \notin Elements(head) => Recovered[b] = disk[b]
  BY Zenon DEF Recovered
<1>3. Recovered = [b \in Blocks |-> Recovered[b]]
  BY DEF Recovered
<1> QED
  BY <1>1, <1>2, <1>3, Zenon

(* Installing a block of the header changes nothing either.                *)
LEMMA RecoveredInstall ==
  ASSUME UNCHANGED <<head, logdisk>>, \A c \in Blocks \ Elements(head) : disk'[c] = disk[c]
  PROVE  Recovered' = Recovered
<1>1. Elements(head)' = Elements(head)
  BY Zenon DEF Elements
<1> QED
  BY <1>1 DEF Recovered

(* What calls see is the same when every buffer is.                        *)
LEMMA SeenSame ==
  ASSUME Up, Up', \A c \in Blocks : Buffer(c)' = Buffer(c)
  PROVE  Seen' = Seen
BY Zenon DEF Seen

(* Every step of the log is a step of Transactions or changes nothing      *)
(* there: the header write is the commit.                                  *)
LEMMA RefineStep ==
  ASSUME Inv, Inv', [Next]_vars
  PROVE  [Abstract!Next]_<<Active, Seen, Recovered>>
<1>1. CASE UNCHANGED vars
  <2>1. UNCHANGED <<cache, disk, logdisk, head, pc, boot>>
    BY <1>1, Zenon DEF vars, memory, persistent, local
  <2>2. Active' = Active /\ Recovered' = Recovered
    BY <2>1, RecoveredSame, Zenon DEF Active
  <2>3. Seen' = Seen
    BY <2>1, <2>2, Zenon DEF Seen, Up, Buffer
  <2> QED
    BY <2>2, <2>3, Zenon
<1>2. ASSUME NEW p \in Procs, begin_op(p) PROVE [Abstract!Next]_<<Active, Seen, Recovered>>
  <2>1. Up /\ Up' /\ UNCHANGED <<cache, disk, logdisk, head>>
    BY <1>2, Zenon DEF begin_op, persistent, Up
  <2>2. Seen' = Seen /\ Recovered' = Recovered
    BY <2>1, SeenSame, RecoveredSame, Zenon DEF Buffer
  <2>3. Active' = Active \/ (p \notin Active /\ Active' = Active \cup {p})
    BY <1>2, Inv_begin_op, Zenon
  <2> QED
    BY <2>2, <2>3, Zenon DEF Abstract!Next, Abstract!Begin
<1>3. ASSUME NEW p \in Procs, NEW b \in Blocks, LogWriteCheck(p, b)
      PROVE  [Abstract!Next]_<<Active, Seen, Recovered>>
  <2>1. Up /\ Up' /\ UNCHANGED <<disk, logdisk, head>>
    BY <1>3, Zenon DEF LogWriteCheck, persistent, Up
  <2>2. Active' = Active /\ \A c \in Blocks : Buffer(c)' = Buffer(c)
    BY <1>3, Inv_LogWriteCheck, Zenon
  <2> QED
    BY <2>1, <2>2, SeenSame, RecoveredSame, Zenon
<1>4. ASSUME NEW p \in Procs, NEW v \in Values, log_write(p, v)
      PROVE  [Abstract!Next]_<<Active, Seen, Recovered>>
  <2>1. Up /\ Up' /\ UNCHANGED <<disk, logdisk, head>>
    BY <1>4, Zenon DEF log_write, persistent, Up
  <2>2. /\ Active' = Active /\ p \in Active /\ block[p] \in Blocks
        /\ \A c \in Blocks : Buffer(c)' = IF c = block[p] THEN v ELSE Buffer(c)
    BY <1>4, Inv_log_write, Zenon
  <2>3. Recovered' = Recovered
    BY <2>1, RecoveredSame, Zenon
  <2>4. /\ Seen = [c \in Blocks |-> Buffer(c)]
        /\ Seen' = [c \in Blocks |-> Buffer(c)']
    BY <2>1, Zenon DEF Seen
  <2>5. Seen' = [Seen EXCEPT ![block[p]] = v]
    BY <2>2, <2>4, Zenon
  <2>6. Abstract!Write(p, block[p], v)
    BY <2>2, <2>3, <2>5, Zenon DEF Abstract!Write
  <2> QED
    BY <2>2, <2>6, Zenon DEF Abstract!Next
<1>5. ASSUME NEW p \in Procs, end_op(p) PROVE [Abstract!Next]_<<Active, Seen, Recovered>>
  <2>1. Up /\ Up' /\ UNCHANGED <<cache, disk, logdisk, head>>
    BY <1>5, Zenon DEF end_op, persistent, Up
  <2>2. Seen' = Seen /\ Recovered' = Recovered
    BY <2>1, SeenSame, RecoveredSame, Zenon DEF Buffer
  <2>3. Active' = Active \ {p}
    BY <1>5, Inv_end_op, Zenon
  <2> QED
    BY <2>2, <2>3, Zenon DEF Abstract!Next, Abstract!End
<1>6. ASSUME NEW p \in Procs, write_log(p) PROVE UNCHANGED <<Active, Seen, Recovered>>
  <2>1. Up /\ Up' /\ UNCHANGED <<disk, head>>
    BY <1>6, Inv_write_log, Zenon DEF write_log, Up
  <2>2. Active' = Active /\ head = <<>> /\ \A c \in Blocks : Buffer(c)' = Buffer(c)
    BY <1>6, Inv_write_log, Zenon
  <2>3. Recovered' = Recovered
    <3>1. Recovered = [b \in Blocks |-> disk[b]]
      BY <2>2, RecoveredEmpty, Zenon
    <3>2. Elements(head') = {}
      BY <2>1, <2>2, NoElements, Zenon
    <3>3. Recovered' = [b \in Blocks |-> disk'[b]]
      BY <3>2, Zenon DEF Recovered, Elements
    <3> QED
      BY <2>1, <3>1, <3>3, Zenon
  <2> QED
    BY <2>1, <2>2, <2>3, SeenSame, Zenon
<1>7. ASSUME NEW p \in Procs, write_head(p) PROVE [Abstract!Next]_<<Active, Seen, Recovered>>
  <2>1. Up /\ Up' /\ UNCHANGED <<disk, logdisk, lh>> /\ head' = lh
    BY <1>7, Zenon DEF write_head, memory, Up
  <2>2. /\ Active = {} /\ Active' = {} /\ Copied(Len(lh))
        /\ \A c \in Blocks : Buffer(c)' = Buffer(c)
        /\ \A c \in Blocks \ Elements(lh) : disk[c] = Buffer(c)
    BY <1>7, Inv_write_head, Zenon
  <2>3. Seen' = Seen
    BY <2>1, <2>2, SeenSame, Zenon
  <2>4. Recovered' = [b \in Blocks |-> IF b \in Elements(lh)
                                         THEN logdisk[CHOOSE i \in 1 .. Len(lh) : lh[i] = b]
                                         ELSE disk[b]]
    BY <2>1 DEF Recovered, Elements
  <2>5. \A b \in Elements(lh) : logdisk[CHOOSE i \in 1 .. Len(lh) : lh[i] = b] = Buffer(b)
    <3> SUFFICES ASSUME NEW b \in Elements(lh)
                 PROVE  logdisk[CHOOSE i \in 1 .. Len(lh) : lh[i] = b] = Buffer(b)
      BY Zenon
    <3> DEFINE j == CHOOSE i \in 1 .. Len(lh) : lh[i] = b
    <3>1. j \in 1 .. Len(lh) /\ lh[j] = b
      BY Zenon DEF Elements
    <3>2. logdisk[j] = Buffer(lh[j])
      BY <2>2, <3>1, Zenon DEF Copied
    <3> QED
      BY <3>1, <3>2, Zenon
  <2>6. Recovered' = Seen
    <3>1. Seen = [b \in Blocks |-> Buffer(b)]
      BY <2>1, Zenon DEF Seen
    <3>2. \A b \in Blocks : (IF b \in Elements(lh)
                                THEN logdisk[CHOOSE i \in 1 .. Len(lh) : lh[i] = b]
                                ELSE disk[b]) = Buffer(b)
      BY <2>2, <2>5, ZenonT(30), Zenon
    <3> QED
      BY <2>4, <3>1, <3>2, ZenonT(30), Zenon
  <2>7. Abstract!Commit
    BY <2>2, <2>3, <2>6, Zenon DEF Abstract!Commit
  <2> QED
    BY <2>7, Zenon DEF Abstract!Next
<1>8. ASSUME NEW p \in Procs, install_trans(p) PROVE UNCHANGED <<Active, Seen, Recovered>>
  <2>1. Up /\ Up' /\ UNCHANGED <<logdisk, head>>
    BY <1>8, Zenon DEF install_trans, Up
  <2>2. /\ Active' = Active /\ head = lh /\ \A c \in Blocks : Buffer(c)' = Buffer(c)
        /\ \A c \in Blocks \ Elements(lh) : disk'[c] = disk[c]
    BY <1>8, Inv_install_trans, Zenon
  <2>3. Recovered' = Recovered
    BY <2>1, <2>2, RecoveredInstall, Zenon
  <2> QED
    BY <2>1, <2>2, <2>3, SeenSame, Zenon
<1>9. ASSUME NEW p \in Procs, erase(p) PROVE UNCHANGED <<Active, Seen, Recovered>>
  <2>1. Up /\ Up' /\ UNCHANGED disk /\ head' = <<>>
    BY <1>9, Zenon DEF erase, Up
  <2>2. /\ Active' = Active /\ head = lh /\ Installed(Len(lh))
        /\ \A c \in Blocks : Buffer(c)' = Buffer(c)
    BY <1>9, Inv_erase, Zenon
  <2>3. Recovered' = Recovered
    <3>1. Recovered = [b \in Blocks |-> disk[b]]
      BY <2>2, RecoveredInstalled, Zenon
    <3>2. Elements(head') = {}
      BY <2>1, NoElements, Zenon
    <3>3. Recovered' = [b \in Blocks |-> disk'[b]]
      BY <3>2, Zenon DEF Recovered, Elements
    <3> QED
      BY <2>1, <3>1, <3>3, Zenon
  <2> QED
    BY <2>1, <2>2, <2>3, SeenSame, Zenon
<1>10. ASSUME NEW p \in Procs, committed(p) PROVE UNCHANGED <<Active, Seen, Recovered>>
  <2>1. Up /\ Up' /\ UNCHANGED <<cache, disk, logdisk, head>>
    BY <1>10, Zenon DEF committed, persistent, Up
  <2>2. Seen' = Seen /\ Recovered' = Recovered
    BY <2>1, SeenSame, RecoveredSame, Zenon DEF Buffer
  <2> QED
    BY <1>10, <2>2, Inv_committed, Zenon
<1>11. ASSUME NEW b \in Blocks, bread(b) \/ Recycle(b) PROVE UNCHANGED <<Active, Seen, Recovered>>
  <2>1. Up /\ Up' /\ UNCHANGED <<disk, logdisk, head, pc>>
    BY <1>11, Zenon DEF bread, Recycle, persistent, local, Up
  <2>2. \A c \in Blocks : Buffer(c)' = Buffer(c)
    BY <1>11, Inv_bread, Inv_Recycle, Zenon
  <2>3. Active' = Active
    BY <2>1, Zenon DEF Active
  <2> QED
    BY <2>1, <2>2, <2>3, SeenSame, RecoveredSame, Zenon
<1>12. CASE Crash
  <2>1. Active' = {} /\ ~ Up'
    BY <1>12, Inv_Crash, Zenon
  <2>2. Recovered' = Recovered
    BY <1>12, RecoveredSame, Zenon DEF Crash, persistent
  <2>3. Seen' = Recovered
    BY <2>1, <2>2, Zenon DEF Seen
  <2> QED
    BY <2>1, <2>2, <2>3, Zenon DEF Abstract!Next, Abstract!Crash
<1>13. CASE read_head
  <2>1. Active' = Active /\ ~ Up /\ ~ Up'
    BY <1>13, Inv_read_head, Zenon
  <2>2. Recovered' = Recovered
    BY <1>13, RecoveredSame, Zenon DEF read_head, persistent
  <2> QED
    BY <2>1, <2>2, Zenon DEF Seen
<1>14. CASE RecoverInstall
  <2>1. /\ Active' = Active /\ ~ Up /\ ~ Up' /\ head = lh
        /\ \A c \in Blocks \ Elements(lh) : disk'[c] = disk[c]
    BY <1>14, Inv_RecoverInstall, Zenon
  <2>2. Recovered' = Recovered
    BY <1>14, <2>1, RecoveredInstall, Zenon DEF RecoverInstall
  <2> QED
    BY <2>1, <2>2, Zenon DEF Seen
<1>15. CASE RecoverErase
  <2>1. /\ Active' = Active /\ ~ Up /\ Up' /\ head = lh /\ Installed(Len(lh))
        /\ \A c \in Blocks : Buffer(c)' = disk[c]
    BY <1>15, Inv_RecoverErase, Zenon
  <2>2. disk' = disk /\ head' = <<>>
    BY <1>15, Zenon DEF RecoverErase
  <2>3. Recovered = [b \in Blocks |-> disk[b]]
    BY <2>1, RecoveredInstalled, Zenon
  <2>4. Recovered' = [b \in Blocks |-> disk'[b]]
    <3>1. Elements(head') = {}
      BY <2>2, NoElements, Zenon
    <3> QED
      BY <3>1, Zenon DEF Recovered, Elements
  <2>5. Seen = Recovered /\ Seen' = [b \in Blocks |-> disk[b]]
    BY <2>1, Zenon DEF Seen
  <2> QED
    BY <2>1, <2>2, <2>3, <2>4, <2>5, Zenon
<1> QED
  BY <1>1, <1>2, <1>3, <1>4, <1>5, <1>6, <1>7, <1>8, <1>9, <1>10, <1>11, <1>12, <1>13, <1>14,
     <1>15, Zenon
     DEF Next, Call, Commit

(* Commits are atomic (the comment at log.c 9-20): whenever the machine    *)
(* crashes, also while it recovers from an earlier crash, the blocks are   *)
(* those of the last commit, which holds all changes of the calls before   *)
(* it and none of a call that was still active.                            *)
THEOREM LogRefines ==
  Spec => CommitsAreAtomic
<1>1. Init => Abstract!Init
  <2> SUFFICES ASSUME Init PROVE Abstract!Init
    BY Zenon
  <2>1. Recovered = [b \in Blocks |-> disk[b]]
    BY RecoveredEmpty, Zenon DEF Init
  <2>2. ~ Up
    BY Zenon DEF Init, Up
  <2> QED
    BY <2>1, <2>2, Zenon DEF Abstract!Init, Init, Active, Seen
<1>2. Inv /\ Inv' /\ [Next]_vars => [Abstract!Next]_<<Active, Seen, Recovered>>
  BY RefineStep, Zenon
<1> QED
  BY <1>1, <1>2, Invariance, PTL DEF Spec, CommitsAreAtomic, Abstract!Spec, Abstract!vars
=============================================================================
