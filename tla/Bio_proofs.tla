----------------------------- MODULE Bio_proofs -----------------------------
(***************************************************************************)
(* Proofs about the buffer cache and the disk driver (Bio): references are *)
(* counted exactly and no block has two buffers, whatever the drive does;  *)
(* with a drive whose reads do not fail, a buffer that is valid and not    *)
(* dirty equals the disk, and the cache implements BlockStore.             *)
(***************************************************************************)
EXTENDS Bio, FiniteSetTheorems, TLAPS

(* The time the provers are given, where a step does not say.              *)
USE SMTT(20), ZenonT(20)

Working == {"lock", "got", "rw", "io", "drop"}

Types ==
  /\ lru \in [Bufs -> Bufs]
  /\ blockno \in [Bufs -> Blocks \cup {NoBlock}]
  /\ refcnt \in [Bufs -> Nat]
  /\ valid \in [Bufs -> BOOLEAN] /\ dirty \in [Bufs -> BOOLEAN]
  /\ data \in [Bufs -> Values]
  /\ holder \in [Bufs -> Procs \cup {Nobody}]
  /\ idequeue \in Seq(Bufs)
  /\ irq \in BOOLEAN /\ latch \in Values
  /\ disk \in [Blocks -> Values]
  /\ pc \in [Procs -> Locations]
  /\ buf \in [Procs -> Bufs \cup {NoBuf}]
  /\ held \in [Procs -> SUBSET Bufs]

(* Every buffer is in the list.                                            *)
ListInv == \A b \in Bufs : \E i \in Bufs : lru[i] = b

(* A buffer has one copy of a block; one that is dirty was read or written *)
(* before.                                                                 *)
CopyInv ==
  /\ \A b, c \in Bufs : blockno[b] = blockno[c] /\ blockno[b] # NoBlock => b = c
  /\ \A b \in Bufs : /\ valid[b] => blockno[b] \in Blocks
                     /\ dirty[b] => valid[b]

(* What a process knows of the buffer it works on and of those it holds.   *)
LockInv ==
  \A p \in Procs :
    /\ pc[p] \in Working => buf[p] \in Bufs
    /\ pc[p] \in {"lock", "got", "drop"} => buf[p] \notin held[p]
    /\ pc[p] \in {"got", "rw", "io"} => holder[buf[p]] = p
    /\ pc[p] = "rw" => ~ valid[buf[p]] \/ dirty[buf[p]]
    /\ \A b \in held[p] : holder[b] = p /\ valid[b]

RefInv ==
  \A b \in Bufs :
    /\ refcnt[b] = Cardinality(Users(b))
    /\ Users(b) # {} => blockno[b] \in Blocks

(* A buffer in the queue has a transfer to do, and its process waits.      *)
QueueInv ==
  /\ \A i \in 1 .. Len(idequeue) :
       /\ ~ valid[idequeue[i]] \/ dirty[idequeue[i]]
       /\ \E p \in Procs : pc[p] = "io" /\ buf[p] = idequeue[i]
  /\ \A i, j \in 1 .. Len(idequeue) : idequeue[i] = idequeue[j] => i = j

(* The drive works on the first buffer of the queue, or has done so and    *)
(* the interrupt is pending.                                               *)
DriveInv ==
  /\ idequeue = <<>> => cmd = <<>> /\ ~ irq
  /\ idequeue # <<>> =>
       LET b == idequeue[1]
       IN \/ cmd = <<Command(b, data)>> /\ ~ irq
          \/ /\ cmd = <<>> /\ irq
             /\ IF dirty[b] THEN disk[blockno[b]] = data[b]
                            ELSE latch = disk[blockno[b]]

Inv == Types /\ ListInv /\ CopyInv /\ LockInv /\ RefInv /\ QueueInv /\ DriveInv

-----------------------------------------------------------------------------
(* Buffers and blocks are numbers, and the users of a buffer finitely      *)
(* many.                                                                   *)
LEMMA Numbers ==
  /\ \A b \in Bufs : b \in Nat /\ b # NoBuf
  /\ \A k \in Blocks : k \in Nat /\ k # NoBlock
BY BioAssumption DEF Bufs, NoBuf, NoBlock

LEMMA UsersFinite ==
  ASSUME NEW b
  PROVE  IsFiniteSet(Users(b)) /\ Cardinality(Users(b)) \in Nat
BY BioAssumption, FS_Subset, FS_CardinalityType, Zenon DEF Users

(* A step that leaves the users, the references and the blocks alone.      *)
LEMMA RefFrame ==
  ASSUME RefInv, UNCHANGED <<refcnt, blockno>>, \A b \in Bufs : Users(b)' = Users(b)
  PROVE  RefInv'
BY Zenon DEF RefInv

(* A step that leaves the drive and the buffers alone.                     *)
LEMMA DriveFrame ==
  ASSUME DriveInv, UNCHANGED <<driveVars, blockno, dirty, data>>
  PROVE  DriveInv'
BY Zenon DEF DriveInv, Command, driveVars

(* A step that leaves the queue alone, what its buffers wait for, and the  *)
(* processes that wait.                                                    *)
LEMMA QueueFrame ==
  ASSUME QueueInv, UNCHANGED idequeue,
         \A i \in 1 .. Len(idequeue) : /\ valid'[idequeue[i]] = valid[idequeue[i]]
                                      /\ dirty'[idequeue[i]] = dirty[idequeue[i]],
         \A q \in Procs : pc[q] = "io" => pc'[q] = "io" /\ buf'[q] = buf[q]
  PROVE  QueueInv'
BY DEF QueueInv

(* The buffers in the queue belong to the processes that wait for them.    *)
LEMMA QueueHolder ==
  ASSUME Inv, NEW i \in 1 .. Len(idequeue)
  PROVE  /\ idequeue[i] \in Bufs
         /\ \E p \in Procs : /\ pc[p] = "io" /\ buf[p] = idequeue[i]
                             /\ holder[idequeue[i]] = p /\ p \in Users(idequeue[i])
<1>1. idequeue[i] \in Bufs
  BY DEF Inv, Types
<1>2. PICK p \in Procs : pc[p] = "io" /\ buf[p] = idequeue[i]
  BY Zenon DEF Inv, QueueInv
<1>3. holder[idequeue[i]] = p /\ p \in Users(idequeue[i])
  BY <1>2, Zenon DEF Inv, LockInv, Users
<1> QED
  BY <1>1, <1>2, <1>3, Zenon

(* Going to sleep changes nothing of this.                                 *)
LEMMA SameInv ==
  ASSUME Inv, UNCHANGED <<cacheVars, holder, driveVars, pc, buf, held>>
  PROVE  Inv'
<1>1. Types' /\ ListInv' /\ CopyInv'
  BY Zenon DEF Inv, Types, ListInv, CopyInv, cacheVars, driveVars
<1>2. LockInv' /\ QueueInv' /\ DriveInv'
  BY DriveFrame, Zenon DEF Inv, LockInv, QueueInv, cacheVars, driveVars
<1>3. \A b \in Bufs : Users(b)' = Users(b)
  BY Zenon DEF Users
<1>4. RefInv'
  BY <1>3, RefFrame, Zenon DEF Inv, cacheVars
<1> QED
  BY <1>1, <1>2, <1>4, Zenon DEF Inv

LEMMA InitInv ==
  Init => Inv
<1> SUFFICES ASSUME Init PROVE Inv
  BY Zenon
<1>1. Types
  <2>1. \A i \in 1 .. NBUF : NBUF + 1 - i \in 1 .. NBUF
    BY BioAssumption
  <2>2. lru \in [Bufs -> Bufs]
    BY <2>1, Zenon DEF Init, Bufs
  <2>3. idequeue \in Seq(Bufs)
    BY DEF Init
  <2> QED
    BY <2>2, <2>3, BioAssumption, Zenon DEF Init, Types, Locations
<1>2. ListInv
  <2>1. \A b \in Bufs : NBUF + 1 - b \in Bufs /\ NBUF + 1 - (NBUF + 1 - b) = b
    BY BioAssumption DEF Bufs
  <2> QED
    BY <2>1, Zenon DEF Init, ListInv, Bufs
<1>3. CopyInv /\ LockInv
  BY Zenon DEF Init, CopyInv, LockInv, Working
<1>4. RefInv
  <2>1. \A b \in Bufs : Users(b) = {}
    BY Zenon DEF Init, Users
  <2> QED
    BY <2>1, FS_EmptySet, Zenon DEF Init, RefInv
<1>5. QueueInv /\ DriveInv
  BY DEF Init, QueueInv, DriveInv
<1> QED
  BY <1>1, <1>2, <1>3, <1>4, <1>5, Zenon DEF Inv

-----------------------------------------------------------------------------
(* bget.                                                                   *)

LEMMA Inv_BgetHit ==
  ASSUME Inv, NEW p \in Procs, NEW k \in Blocks, bget(p, k), BgetHit(p, k)
  PROVE  Inv'
<1>1. PICK i \in Bufs :
        /\ blockno[lru[i]] = k
        /\ buf' = [buf EXCEPT ![p] = lru[i]]
        /\ refcnt' = [refcnt EXCEPT ![lru[i]] = @ + 1]
        /\ pc' = [pc EXCEPT ![p] = "lock"]
        /\ UNCHANGED <<blockno, valid>>
  BY Zenon DEF BgetHit, Goto
<1>2. /\ pc[p] = "run" /\ \A b \in held[p] : blockno[b] < k
      /\ UNCHANGED <<lru, dirty, data, holder, driveVars, held>>
  BY Zenon DEF bget, Running
<1>3. PICK b \in Bufs : b = lru[i] /\ blockno[b] = k
  BY <1>1, Zenon DEF Inv, Types
<1>4. b \notin held[p]
  BY <1>2, <1>3, Numbers
<1>5. /\ buf' = [buf EXCEPT ![p] = b] /\ refcnt' = [refcnt EXCEPT ![b] = @ + 1]
      /\ pc' = [pc EXCEPT ![p] = "lock"] /\ UNCHANGED <<blockno, valid>>
  BY <1>1, <1>3, Zenon
<1>6. Types'
  BY <1>2, <1>3, <1>5 DEF Inv, Types, Locations, driveVars
<1>7. ListInv' /\ CopyInv'
  BY <1>2, <1>5, Zenon DEF Inv, ListInv, CopyInv
<1>8. LockInv'
  BY <1>2, <1>3, <1>4, <1>5, Zenon DEF Inv, Types, LockInv, Working
<1>9. RefInv'
  <2>1. p \notin Users(b) /\ Users(b)' = Users(b) \cup {p}
    BY <1>2, <1>3, <1>4, <1>5 DEF Inv, Types, Users
  <2>2. \A c \in Bufs \ {b} : Users(c)' = Users(c)
    BY <1>2, <1>3, <1>5, Zenon DEF Inv, Types, Users
  <2>3. refcnt'[b] = Cardinality(Users(b)')
    <3>1. refcnt'[b] = refcnt[b] + 1 /\ refcnt[b] = Cardinality(Users(b))
      BY <1>5, Zenon DEF Inv, Types, RefInv
    <3>2. Cardinality(Users(b) \cup {p}) = Cardinality(Users(b)) + 1
      BY <2>1, UsersFinite, FS_AddElement, Zenon
    <3> QED
      BY <2>1, <3>1, <3>2, Zenon
  <2>4. \A c \in Bufs \ {b} : refcnt'[c] = Cardinality(Users(c)')
    BY <1>5, <2>2, Zenon DEF Inv, Types, RefInv
  <2>5. \A c \in Bufs : Users(c)' # {} => blockno'[c] \in Blocks
    BY <1>3, <1>5, <2>2, Zenon DEF Inv, RefInv
  <2> QED
    BY <2>3, <2>4, <2>5, Zenon DEF RefInv
<1>10. QueueInv' /\ DriveInv'
  BY <1>2, <1>5, DriveFrame, Zenon DEF Inv, Types, QueueInv, driveVars
<1> QED
  BY <1>6, <1>7, <1>8, <1>9, <1>10, Zenon DEF Inv

(* A buffer that is recycled has no users, so nobody holds it, waits for   *)
(* it or has it in the queue.                                              *)
LEMMA Recycled ==
  ASSUME Inv, NEW p \in Procs, NEW k \in Blocks, bget(p, k), BgetRecycle(p, k)
  PROVE  \E b \in Bufs :
           /\ Users(b) = {} /\ ~ dirty[b]
           /\ \A i \in 1 .. Len(idequeue) : idequeue[i] # b
           /\ \A c \in Bufs : blockno[c] # k
           /\ buf' = [buf EXCEPT ![p] = b]
           /\ blockno' = [blockno EXCEPT ![b] = k]
           /\ valid' = [valid EXCEPT ![b] = FALSE]
           /\ refcnt' = [refcnt EXCEPT ![b] = 1]
           /\ pc' = [pc EXCEPT ![p] = "lock"]
<1>1. PICK i \in Bufs :
        /\ Unused(lru[i])
        /\ buf' = [buf EXCEPT ![p] = lru[i]]
        /\ blockno' = [blockno EXCEPT ![lru[i]] = k]
        /\ valid' = [valid EXCEPT ![lru[i]] = FALSE]
        /\ refcnt' = [refcnt EXCEPT ![lru[i]] = 1]
        /\ pc' = [pc EXCEPT ![p] = "lock"]
  BY Zenon DEF BgetRecycle, Goto
<1>2. lru[i] \in Bufs
  BY Zenon DEF Inv, Types
<1>3. Users(lru[i]) = {} /\ ~ dirty[lru[i]]
  BY <1>1, <1>2, UsersFinite, FS_EmptySet, Zenon DEF Unused, Inv, RefInv
<1>4. \A j \in 1 .. Len(idequeue) : idequeue[j] # lru[i]
  BY <1>3, QueueHolder, Zenon
<1>5. \A c \in Bufs : blockno[c] # k
  BY Zenon DEF BgetRecycle, Cached, Inv, ListInv
<1> QED
  BY <1>1, <1>2, <1>3, <1>4, <1>5, Zenon

LEMMA Inv_BgetRecycle ==
  ASSUME Inv, NEW p \in Procs, NEW k \in Blocks, bget(p, k), BgetRecycle(p, k)
  PROVE  Inv'
<1>1. PICK b \in Bufs :
           /\ Users(b) = {} /\ ~ dirty[b]
           /\ \A i \in 1 .. Len(idequeue) : idequeue[i] # b
           /\ \A c \in Bufs : blockno[c] # k
           /\ buf' = [buf EXCEPT ![p] = b]
           /\ blockno' = [blockno EXCEPT ![b] = k]
           /\ valid' = [valid EXCEPT ![b] = FALSE]
           /\ refcnt' = [refcnt EXCEPT ![b] = 1]
           /\ pc' = [pc EXCEPT ![p] = "lock"]
  BY Recycled, Zenon
<1>2. /\ pc[p] = "run"
      /\ UNCHANGED <<lru, dirty, data, holder, driveVars, held>>
  BY Zenon DEF bget, Running
<1>3. \A q \in Procs : b \notin held[q] /\ (pc[q] \in Working => buf[q] # b)
  BY <1>1, Zenon DEF Users, Working
<1>4. Types'
  BY <1>1, <1>2, Zenon DEF Inv, Types, Locations, driveVars
<1>5. ListInv'
  BY <1>2, Zenon DEF Inv, ListInv
<1>6. CopyInv'
  BY <1>1, <1>2, Zenon DEF Inv, Types, CopyInv
<1>7. LockInv'
  <2> SUFFICES ASSUME NEW q \in Procs
               PROVE  /\ pc'[q] \in Working => buf'[q] \in Bufs
                      /\ pc'[q] \in {"lock", "got", "drop"} => buf'[q] \notin held[q]
                      /\ pc'[q] \in {"got", "rw", "io"} => holder[buf'[q]] = q
                      /\ pc'[q] = "rw" => ~ valid'[buf'[q]] \/ dirty[buf'[q]]
                      /\ \A c \in held[q] : holder[c] = q /\ valid'[c]
    BY <1>2, Zenon DEF LockInv
  <2>1. \A c \in held[q] : holder[c] = q /\ valid'[c]
    BY <1>1, <1>3 DEF Inv, Types, LockInv
  <2> QED
    BY <1>1, <1>3, <2>1 DEF Inv, Types, LockInv, Working
<1>8. RefInv'
  <2>1. Users(b)' = {p}
    BY <1>1, <1>2, <1>3 DEF Inv, Types, Users, Working
  <2>2. \A c \in Bufs \ {b} : Users(c)' = Users(c)
    BY <1>1, <1>2, Zenon DEF Inv, Types, Users
  <2>3. refcnt'[b] = Cardinality(Users(b)') /\ blockno'[b] \in Blocks
    BY <1>1, <2>1, FS_Singleton, Zenon DEF Inv, Types
  <2>4. \A c \in Bufs \ {b} : refcnt'[c] = refcnt[c] /\ blockno'[c] = blockno[c]
    BY <1>1, Zenon DEF Inv, Types
  <2> QED
    BY <2>2, <2>3, <2>4, Zenon DEF Inv, RefInv
<1>9. QueueInv'
  <2>3. \A c \in Bufs \ {b} : valid'[c] = valid[c]
    BY <1>1, Zenon DEF Inv, Types
  <2>1. \A i \in 1 .. Len(idequeue) :
          idequeue[i] \in Bufs /\ valid'[idequeue[i]] = valid[idequeue[i]]
    BY <1>1, <2>3, QueueHolder, Zenon
  <2>2. \A q \in Procs : pc[q] = "io" => pc'[q] = "io" /\ buf'[q] = buf[q]
    BY <1>1, <1>2, Zenon DEF Inv, Types
  <2> QED
    BY <1>2, <2>1, <2>2, QueueFrame, Zenon DEF Inv, driveVars
<1>10. DriveInv'
  <2>1. ASSUME idequeue # <<>>
        PROVE  blockno'[idequeue[1]] = blockno[idequeue[1]]
    <3>1. 1 \in 1 .. Len(idequeue)
      BY <2>1 DEF Inv, Types
    <3>2. idequeue[1] \in Bufs \ {b}
      BY <1>1, <3>1, QueueHolder, Zenon
    <3> QED
      BY <1>1, <3>2, Zenon DEF Inv, Types
  <2> QED
    BY <1>2, <2>1, Zenon DEF Inv, DriveInv, Command, driveVars
<1> QED
  BY <1>4, <1>5, <1>6, <1>7, <1>8, <1>9, <1>10, Zenon DEF Inv

LEMMA Inv_bget ==
  ASSUME Inv, NEW p \in Procs, NEW k \in Blocks, bget(p, k)
  PROVE  Inv'
<1>1. CASE BgetHit(p, k)
  BY <1>1, Inv_BgetHit, Zenon
<1>2. CASE BgetRecycle(p, k)
  BY <1>2, Inv_BgetRecycle, Zenon
<1>3. CASE BgetPanic(p, k)
  <2>1. /\ pc[p] = "run" /\ pc' = [pc EXCEPT ![p] = "panic"]
        /\ UNCHANGED <<cacheVars, holder, driveVars, buf, held>>
    BY <1>3, Zenon DEF bget, BgetPanic, Running, Goto, cacheVars
  <2>2. Types' /\ ListInv' /\ CopyInv'
    BY <2>1, Zenon DEF Inv, Types, ListInv, CopyInv, cacheVars, driveVars, Locations
  <2>3. LockInv'
    BY <2>1, Zenon DEF Inv, Types, LockInv, Working, cacheVars
  <2>4. RefInv'
    <3>1. \A b \in Bufs : Users(b)' = Users(b)
      BY <2>1, Zenon DEF Inv, Types, Users
    <3> QED
      BY <2>1, <3>1, RefFrame, Zenon DEF Inv, cacheVars
  <2>5. QueueInv' /\ DriveInv'
    BY <2>1, DriveFrame, Zenon DEF Inv, Types, QueueInv, cacheVars, driveVars
  <2> QED
    BY <2>2, <2>3, <2>4, <2>5, Zenon DEF Inv
<1> QED
  BY <1>1, <1>2, <1>3, Zenon DEF bget

-----------------------------------------------------------------------------
(* The sleep locks, and the return of bread.                               *)

(* A step of p inside these functions that leaves the cache and the queue  *)
(* alone, and p a user of what it used before.                             *)
LEMMA ProcFrame ==
  ASSUME Inv, NEW p \in Procs, NEW loc \in Locations,
         UNCHANGED <<cacheVars, driveVars>>,
         pc' = [pc EXCEPT ![p] = loc], pc[p] # "io",
         \A q \in Procs \ {p} : buf'[q] = buf[q] /\ held'[q] = held[q],
         \A b \in Bufs : Users(b)' = Users(b)
  PROVE  ListInv' /\ CopyInv' /\ RefInv' /\ QueueInv' /\ DriveInv'
<1>1. ListInv' /\ CopyInv'
  BY Zenon DEF Inv, ListInv, CopyInv, cacheVars
<1>2. RefInv'
  BY RefFrame, Zenon DEF Inv, cacheVars
<1>3. \A q \in Procs : pc[q] = "io" => pc'[q] = "io" /\ buf'[q] = buf[q]
  BY Zenon DEF Inv, Types
<1>4. QueueInv' /\ DriveInv'
  BY <1>3, DriveFrame DEF Inv, QueueInv, cacheVars, driveVars
<1> QED
  BY <1>1, <1>2, <1>4, Zenon

LEMMA Inv_acquiresleep ==
  ASSUME Inv, NEW p \in Procs, acquiresleep(p)
  PROVE  Inv'
<1>1. /\ pc[p] = "lock" /\ holder[buf[p]] = Nobody
      /\ holder' = [holder EXCEPT ![buf[p]] = p]
      /\ pc' = [pc EXCEPT ![p] = "got"]
      /\ UNCHANGED <<cacheVars, driveVars, buf, held>>
  BY Zenon DEF acquiresleep, Running, Goto
<1>2. buf[p] \in Bufs
  BY <1>1, Zenon DEF Inv, LockInv, Working
<1>3. Types'
  BY <1>1, <1>2, Zenon DEF Inv, Types, cacheVars, driveVars, Locations
<1>4. LockInv'
  <2>1. \A q \in Procs, b \in Bufs : holder[b] = q => b # buf[p]
    BY <1>1, BioAssumption, Zenon
  <2>2. \A q \in Procs, b \in Bufs : holder[b] = q => holder'[b] = q
    BY <1>1, <2>1, Zenon DEF Inv, Types
  <2>3. holder'[buf[p]] = p
    BY <1>1, <1>2, Zenon DEF Inv, Types
  <2> QED
    BY <1>1, <1>2, <2>2, <2>3 DEF Inv, Types, LockInv, Working, cacheVars
<1>5. \A b \in Bufs : Users(b)' = Users(b)
  BY <1>1, Zenon DEF Inv, Types, Users
<1>6. ListInv' /\ CopyInv' /\ RefInv' /\ QueueInv' /\ DriveInv'
  BY <1>1, <1>5, ProcFrame, Zenon DEF Locations
<1> QED
  BY <1>3, <1>4, <1>6, Zenon DEF Inv

LEMMA Inv_AcquireWaits ==
  ASSUME Inv, NEW p \in Procs, AcquireWaits(p)
  PROVE  Inv'
<1>1. UNCHANGED <<cacheVars, holder, driveVars, pc, buf, held>>
  BY Zenon DEF AcquireWaits
<1> QED
  BY <1>1, SameInv, Zenon

(* p returns with a buffer it has locked.                                  *)
LEMMA Inv_Return ==
  ASSUME Inv, NEW p \in Procs, pc[p] \in {"got", "io"}, valid[buf[p]],
         pc[p] = "io" => ~ dirty[buf[p]],
         Return(p, held[p] \cup {buf[p]}), UNCHANGED <<cacheVars, holder, driveVars>>
  PROVE  Inv'
<1>1. /\ pc' = [pc EXCEPT ![p] = "run"]
      /\ buf' = [buf EXCEPT ![p] = NoBuf]
      /\ held' = [held EXCEPT ![p] = held[p] \cup {buf[p]}]
  BY Zenon DEF Return, Goto
<1>2. buf[p] \in Bufs /\ holder[buf[p]] = p
  BY Zenon DEF Inv, LockInv, Working
<1>3. Types'
  BY <1>1, <1>2, Zenon DEF Inv, Types, cacheVars, driveVars, Locations
<1>4. LockInv'
  BY <1>1, <1>2 DEF Inv, Types, LockInv, Working, cacheVars
<1>5. \A b \in Bufs : Users(b)' = Users(b)
  BY <1>1, <1>2 DEF Inv, Types, Users
<1>6. ListInv' /\ CopyInv' /\ RefInv' /\ DriveInv'
  BY <1>5, RefFrame, DriveFrame, Zenon DEF Inv, ListInv, CopyInv, cacheVars
<1>7. QueueInv'
  <2>1. \A i \in 1 .. Len(idequeue) : pc[p] = "io" => idequeue[i] # buf[p]
    BY Zenon DEF Inv, QueueInv
  <2>2. \A i \in 1 .. Len(idequeue) :
          \E q \in Procs \ {p} : pc[q] = "io" /\ buf[q] = idequeue[i]
    BY <2>1, Zenon DEF Inv, QueueInv
  <2>3. \A q \in Procs \ {p} : pc'[q] = pc[q] /\ buf'[q] = buf[q]
    BY <1>1, Zenon DEF Inv, Types
  <2> QED
    BY <2>2, <2>3 DEF Inv, QueueInv, cacheVars, driveVars
<1> QED
  BY <1>3, <1>4, <1>6, <1>7, Zenon DEF Inv

LEMMA Inv_bread ==
  ASSUME Inv, NEW p \in Procs, bread(p)
  PROVE  Inv'
<1>1. pc[p] = "got" /\ UNCHANGED <<cacheVars, holder, driveVars>>
  BY Zenon DEF bread, Running
<1>2. CASE valid[buf[p]]
  BY <1>1, <1>2, Inv_Return, Zenon DEF bread
<1>3. CASE ~ valid[buf[p]]
  <2>1. pc' = [pc EXCEPT ![p] = "rw"] /\ UNCHANGED <<buf, held>>
    BY <1>3, Zenon DEF bread, Goto
  <2>2. Types'
    BY <1>1, <2>1, Zenon DEF Inv, Types, cacheVars, driveVars, Locations
  <2>3. LockInv'
    BY <1>1, <1>3, <2>1 DEF Inv, Types, LockInv, Working, cacheVars
  <2>4. \A b \in Bufs : Users(b)' = Users(b)
    BY <1>1, <2>1, Zenon DEF Inv, Types, Users
  <2>5. ListInv' /\ CopyInv' /\ RefInv' /\ QueueInv' /\ DriveInv'
    BY <1>1, <2>1, <2>4, ProcFrame, Zenon DEF Locations
  <2> QED
    BY <2>2, <2>3, <2>5, Zenon DEF Inv
<1> QED
  BY <1>2, <1>3, Zenon

-----------------------------------------------------------------------------
(* The driver.                                                             *)

(* A process at iderw holds the lock and has a transfer to do, so iderw    *)
(* does not panic.  Its buffer is not in the queue yet.                    *)
LEMMA Enters ==
  ASSUME Inv, NEW p \in Procs, iderw(p)
  PROVE  /\ pc[p] = "rw" /\ buf[p] \in Bufs
         /\ ~ valid[buf[p]] \/ dirty[buf[p]]
         /\ \A i \in 1 .. Len(idequeue) : idequeue[i] # buf[p]
         /\ idequeue' = Append(idequeue, buf[p])
         /\ IF idequeue = <<>> THEN idestart(idequeue', data) ELSE UNCHANGED cmd
         /\ pc' = [pc EXCEPT ![p] = "io"]
         /\ UNCHANGED <<cacheVars, holder, irq, latch, disk, buf, held>>
<1>1. pc[p] = "rw"
  BY Zenon DEF iderw, Running
<1>2. buf[p] \in Bufs /\ holder[buf[p]] = p /\ (~ valid[buf[p]] \/ dirty[buf[p]])
  BY <1>1, Zenon DEF Inv, LockInv, Working
<1>3. \A i \in 1 .. Len(idequeue) : idequeue[i] # buf[p]
  BY <1>1, <1>2, QueueHolder
<1> QED
  BY <1>1, <1>2, <1>3, Zenon DEF iderw, holdingsleep, Goto

LEMMA Inv_iderw ==
  ASSUME Inv, NEW p \in Procs, iderw(p)
  PROVE  Inv'
<1>1. /\ pc[p] = "rw" /\ buf[p] \in Bufs
      /\ ~ valid[buf[p]] \/ dirty[buf[p]]
      /\ \A i \in 1 .. Len(idequeue) : idequeue[i] # buf[p]
      /\ idequeue' = Append(idequeue, buf[p])
      /\ pc' = [pc EXCEPT ![p] = "io"]
      /\ UNCHANGED <<cacheVars, holder, irq, latch, disk, buf, held>>
  BY Enters, Zenon
<1>2. Types'
  BY <1>1 DEF Inv, Types, cacheVars, Locations
<1>3. LockInv'
  BY <1>1 DEF Inv, Types, LockInv, Working, cacheVars
<1>4. \A b \in Bufs : Users(b)' = Users(b)
  BY <1>1, Zenon DEF Inv, Types, Users
<1>5. ListInv' /\ CopyInv' /\ RefInv'
  BY <1>1, <1>4, RefFrame, Zenon DEF Inv, ListInv, CopyInv, cacheVars
<1>6. QueueInv'
  <2>1. \A q \in Procs : pc[q] = "io" \/ q = p => pc'[q] = "io" /\ buf'[q] = buf[q]
    BY <1>1, Zenon DEF Inv, Types
  <2>2. /\ idequeue \in Seq(Bufs) /\ Len(idequeue') = Len(idequeue) + 1
        /\ idequeue'[Len(idequeue) + 1] = buf[p]
        /\ \A i \in 1 .. Len(idequeue) : idequeue'[i] = idequeue[i]
    BY <1>1 DEF Inv, Types
  <2>3. \A i \in 1 .. Len(idequeue') : i \in 1 .. Len(idequeue) \/ i = Len(idequeue) + 1
    BY <2>2
  <2>4. \A i \in 1 .. Len(idequeue') :
          /\ ~ valid[idequeue'[i]] \/ dirty[idequeue'[i]]
          /\ \E q \in Procs : pc'[q] = "io" /\ buf'[q] = idequeue'[i]
    BY <1>1, <2>1, <2>2, <2>3 DEF Inv, QueueInv
  <2>5. \A i, j \in 1 .. Len(idequeue') : idequeue'[i] = idequeue'[j] => i = j
    BY <1>1, <2>2, <2>3 DEF Inv, QueueInv
  <2> QED
    BY <1>1, <2>4, <2>5, Zenon DEF QueueInv, cacheVars
<1>7. DriveInv'
  <2>1. idequeue \in Seq(Bufs) /\ data' = data
    BY <1>1, Zenon DEF Inv, Types, cacheVars
  <2>2. idequeue' # <<>>
    BY <1>1, <2>1
  <2>3. CASE idequeue = <<>>
    <3>1. idequeue'[1] = buf[p] /\ Head(idequeue') = buf[p]
      BY <1>1, <2>1, <2>3
    <3>2. cmd' = <<Command(buf[p], data)>> /\ ~ irq'
      BY <1>1, <2>3, <3>1, Enters, Zenon DEF idestart, Inv, DriveInv
    <3>3. Command(buf[p], data)' = Command(buf[p], data)
      BY <1>1, Zenon DEF Command, cacheVars
    <3> QED
      BY <1>1, <2>2, <3>1, <3>2, <3>3, Zenon DEF DriveInv
  <2>4. CASE idequeue # <<>>
    <3>1. idequeue'[1] = idequeue[1]
      BY <1>1, <2>1, <2>4
    <3>2. UNCHANGED cmd
      BY <2>4, Enters, Zenon
    <3> QED
      BY <1>1, <2>2, <2>4, <3>1, <3>2, Zenon DEF Inv, DriveInv, Command, cacheVars
  <2> QED
    BY <2>3, <2>4, Zenon
<1> QED
  BY <1>2, <1>3, <1>5, <1>6, <1>7, Zenon DEF Inv

LEMMA Inv_IderwLoop ==
  ASSUME Inv, NEW p \in Procs, IderwLoop(p)
  PROVE  Inv'
<1>1. pc[p] = "io" /\ UNCHANGED <<cacheVars, holder, driveVars>>
  BY Zenon DEF IderwLoop, Running
<1>2. CASE valid[buf[p]] /\ ~ dirty[buf[p]]
  BY <1>1, <1>2, Inv_Return, Zenon DEF IderwLoop
<1>3. CASE ~ (valid[buf[p]] /\ ~ dirty[buf[p]])
  <2>1. UNCHANGED <<pc, buf, held>>
    BY <1>3, Zenon DEF IderwLoop
  <2> QED
    BY <1>1, <2>1, SameInv, Zenon
<1> QED
  BY <1>2, <1>3, Zenon

-----------------------------------------------------------------------------
(* The callers.                                                            *)

(* A buffer that a process holds, outside these functions, is not in the   *)
(* queue.                                                                  *)
LEMMA HeldNotQueued ==
  ASSUME Inv, NEW p \in Procs, pc[p] = "run", NEW b \in held[p]
  PROVE  /\ b \in Bufs /\ valid[b] /\ holder[b] = p /\ blockno[b] \in Blocks
         /\ \A i \in 1 .. Len(idequeue) : idequeue[i] # b
<1>1. b \in Bufs /\ valid[b] /\ holder[b] = p
  BY Zenon DEF Inv, Types, LockInv
<1>2. blockno[b] \in Blocks
  BY <1>1, Zenon DEF Inv, CopyInv
<1> QED
  BY <1>1, <1>2, QueueHolder

(* Marking a buffer dirty that is not in the queue, with new data or not.  *)
LEMMA Dirtied ==
  ASSUME Inv, NEW b \in Bufs, valid[b], \A i \in 1 .. Len(idequeue) : idequeue[i] # b,
         NEW v \in Values, data' = data \/ data' = [data EXCEPT ![b] = v],
         dirty' = [dirty EXCEPT ![b] = TRUE],
         UNCHANGED <<lru, blockno, refcnt, valid, driveVars>>
  PROVE  /\ ListInv' /\ CopyInv' /\ DriveInv'
         /\ \A i \in 1 .. Len(idequeue) : dirty'[idequeue[i]] = dirty[idequeue[i]]
<1>1. ListInv' /\ CopyInv'
  BY DEF Inv, Types, ListInv, CopyInv
<1>2. \A i \in 1 .. Len(idequeue) : /\ dirty'[idequeue[i]] = dirty[idequeue[i]]
                                    /\ data'[idequeue[i]] = data[idequeue[i]]
  <2>1. \A c \in Bufs \ {b} : dirty'[c] = dirty[c] /\ data'[c] = data[c]
    BY Zenon DEF Inv, Types
  <2> QED
    BY <2>1, QueueHolder, Zenon
<1>3. DriveInv'
  <2>1. idequeue # <<>> => 1 \in 1 .. Len(idequeue)
    BY DEF Inv, Types
  <2> QED
    BY <1>2, <2>1, Zenon DEF Inv, DriveInv, Command, driveVars
<1> QED
  BY <1>1, <1>2, <1>3, Zenon

LEMMA Inv_Change ==
  ASSUME Inv, NEW p \in Procs, NEW b \in Bufs, NEW v \in Values, Change(p, b, v)
  PROVE  Inv'
<1>1. /\ pc[p] = "run" /\ b \in held[p]
      /\ data' = [data EXCEPT ![b] = v]
      /\ dirty' = [dirty EXCEPT ![b] = TRUE]
      /\ UNCHANGED <<lru, blockno, refcnt, valid, holder, driveVars, pc, buf, held>>
  BY Zenon DEF Change, Running, procVars
<1>2. valid[b] /\ \A i \in 1 .. Len(idequeue) : idequeue[i] # b
  BY <1>1, HeldNotQueued, Zenon
<1>3. /\ ListInv' /\ CopyInv' /\ DriveInv'
      /\ \A i \in 1 .. Len(idequeue) : dirty'[idequeue[i]] = dirty[idequeue[i]]
  BY <1>1, <1>2, Dirtied, Zenon
<1>4. Types'
  BY <1>1, Zenon DEF Inv, Types, driveVars
<1>5. LockInv'
  BY <1>1, Zenon DEF Inv, Types, LockInv, Working
<1>6. RefInv'
  BY <1>1, RefFrame, Zenon DEF Inv, Users
<1>7. QueueInv'
  BY <1>1, <1>3, Zenon DEF Inv, QueueInv, driveVars
<1> QED
  BY <1>3, <1>4, <1>5, <1>6, <1>7, Zenon DEF Inv

LEMMA Inv_bwrite ==
  ASSUME Inv, NEW p \in Procs, NEW b \in Bufs, bwrite(p, b)
  PROVE  Inv'
<1>1. pc[p] = "run" /\ b \in held[p]
  BY Zenon DEF bwrite, Running
<1>2. valid[b] /\ holder[b] = p /\ \A i \in 1 .. Len(idequeue) : idequeue[i] # b
  BY <1>1, HeldNotQueued, Zenon
<1>3. /\ buf' = [buf EXCEPT ![p] = b]
      /\ pc' = [pc EXCEPT ![p] = "rw"]
      /\ dirty' = [dirty EXCEPT ![b] = TRUE]
      /\ UNCHANGED <<lru, blockno, refcnt, valid, data, holder, driveVars, held>>
  BY <1>2, Zenon DEF bwrite, holdingsleep, Goto
<1>4. /\ ListInv' /\ CopyInv' /\ DriveInv'
      /\ \A i \in 1 .. Len(idequeue) : dirty'[idequeue[i]] = dirty[idequeue[i]]
  BY <1>2, <1>3, BioAssumption, Dirtied, Zenon
<1>5. Types'
  BY <1>3, Zenon DEF Inv, Types, driveVars, Locations
<1>6. LockInv'
  BY <1>1, <1>2, <1>3 DEF Inv, Types, LockInv, Working
<1>7. RefInv'
  <2>1. \A c \in Bufs : Users(c)' = Users(c)
    BY <1>1, <1>3, Zenon DEF Inv, Types, Users
  <2> QED
    BY <1>3, <2>1, RefFrame, Zenon DEF Inv
<1>8. QueueInv'
  <2>1. \A q \in Procs : pc[q] = "io" => pc'[q] = "io" /\ buf'[q] = buf[q]
    BY <1>1, <1>3, Zenon DEF Inv, Types
  <2> QED
    BY <1>3, <1>4, <2>1 DEF Inv, QueueInv, driveVars
<1> QED
  BY <1>4, <1>5, <1>6, <1>7, <1>8, Zenon DEF Inv

LEMMA Inv_brelse ==
  ASSUME Inv, NEW p \in Procs, NEW b \in Bufs, brelse(p, b)
  PROVE  Inv'
<1>1. pc[p] = "run" /\ b \in held[p]
  BY Zenon DEF brelse, Running
<1>2. holder[b] = p
  BY <1>1, HeldNotQueued, Zenon
<1>3. /\ held' = [held EXCEPT ![p] = @ \ {b}]
      /\ buf' = [buf EXCEPT ![p] = b]
      /\ holder' = [holder EXCEPT ![b] = Nobody]
      /\ pc' = [pc EXCEPT ![p] = "drop"]
      /\ UNCHANGED <<cacheVars, driveVars>>
  BY <1>2, Zenon DEF brelse, releasesleep, holdingsleep, Goto
<1>4. Types'
  BY <1>3, Zenon DEF Inv, Types, cacheVars, driveVars, Locations
<1>5. LockInv'
  <2> SUFFICES ASSUME NEW q \in Procs
               PROVE  /\ pc'[q] \in Working => buf'[q] \in Bufs
                      /\ pc'[q] \in {"lock", "got", "drop"} => buf'[q] \notin held'[q]
                      /\ pc'[q] \in {"got", "rw", "io"} => holder'[buf'[q]] = q
                      /\ pc'[q] = "rw" => ~ valid[buf'[q]] \/ dirty[buf'[q]]
                      /\ \A c \in held'[q] : holder'[c] = q /\ valid[c]
    BY <1>3, Zenon DEF LockInv, cacheVars
  <2>1. CASE q = p
    BY <1>1, <1>3, <2>1 DEF Inv, Types, LockInv, Working
  <2>2. CASE q # p
    <3>1. pc'[q] = pc[q] /\ buf'[q] = buf[q] /\ held'[q] = held[q]
      BY <1>3, <2>2, Zenon DEF Inv, Types
    <3>2. \A c \in Bufs : holder[c] = q => holder'[c] = q
      BY <1>2, <1>3, <2>2, Zenon DEF Inv, Types
    <3> QED
      BY <3>1, <3>2, Zenon DEF Inv, Types, LockInv, Working
  <2> QED
    BY <2>1, <2>2, Zenon
<1>6. \A c \in Bufs : Users(c)' = Users(c)
  BY <1>1, <1>3, Zenon DEF Inv, Types, Users
<1>7. \A q \in Procs \ {p} : buf'[q] = buf[q] /\ held'[q] = held[q]
  BY <1>3, Zenon DEF Inv, Types
<1>8. ListInv' /\ CopyInv' /\ RefInv' /\ QueueInv' /\ DriveInv'
  BY <1>1, <1>3, <1>6, <1>7, ProcFrame, Zenon DEF Locations
<1> QED
  BY <1>4, <1>5, <1>8, Zenon DEF Inv

(* Unlinking a buffer and putting it at the head keeps all in the list.    *)
LEMMA ListMoved ==
  ASSUME Types, ListInv, NEW b \in Bufs, lru' = MoveToHead(b)
  PROVE  lru' \in [Bufs -> Bufs] /\ ListInv'
<1> DEFINE n == CHOOSE i \in Bufs : lru[i] = b
<1>1. n \in Bufs /\ lru[n] = b
  BY Zenon DEF ListInv
<1>2. lru' = [i \in Bufs |-> IF i = 1 THEN b ELSE IF i <= n THEN lru[i - 1] ELSE lru[i]]
  BY Zenon DEF MoveToHead
<1> HIDE DEF n
<1>3. NBUF \in Nat \ {0} /\ Bufs = 1 .. NBUF /\ lru \in [Bufs -> Bufs]
  BY BioAssumption, Zenon DEF Bufs, Types
<1>4. lru' \in [Bufs -> Bufs]
  <2>1. \A i \in Bufs : i # 1 => i - 1 \in Bufs
    BY <1>3
  <2> QED
    BY <1>2, <1>3, <2>1
<1>5. ASSUME NEW c \in Bufs
      PROVE  \E i \in Bufs : lru'[i] = c
  <2>1. PICK i \in Bufs : lru[i] = c
    BY Zenon DEF ListInv
  <2>2. CASE c = b
    BY <1>2, <1>3, <2>2
  <2>3. CASE c # b /\ i < n
    <3>1. i + 1 \in Bufs /\ i + 1 # 1 /\ i + 1 <= n /\ (i + 1) - 1 = i
      BY <1>1, <1>3, <2>3
    <3>2. lru'[i + 1] = lru[(i + 1) - 1]
      BY <1>2, <3>1, Zenon
    <3> QED
      BY <2>1, <3>1, <3>2, Zenon
  <2>4. CASE c # b /\ i > n
    <3>1. i # 1 /\ ~ i <= n
      BY <1>1, <1>3, <2>4
    <3> QED
      BY <1>2, <2>1, <3>1, Zenon
  <2>5. i < n \/ i > n \/ c = b
    BY <1>1, <1>3, <2>1
  <2> QED
    BY <2>2, <2>3, <2>4, <2>5, Zenon
<1> QED
  BY <1>4, <1>5, Zenon DEF ListInv

LEMMA Inv_BrelseDrop ==
  ASSUME Inv, NEW p \in Procs, BrelseDrop(p)
  PROVE  Inv'
<1>0. PICK b : b = buf[p]
  BY Zenon
<1>1. /\ pc[p] = "drop"
      /\ refcnt' = [refcnt EXCEPT ![b] = @ - 1]
      /\ lru' = IF refcnt[b] = 1 THEN MoveToHead(b) ELSE lru
      /\ pc' = [pc EXCEPT ![p] = "run"]
      /\ buf' = [buf EXCEPT ![p] = NoBuf]
      /\ UNCHANGED <<blockno, valid, dirty, data, holder, driveVars>>
  BY <1>0, Zenon DEF BrelseDrop, Running, Return, Goto
<1>2. held' = held
  <2>1. held' = [held EXCEPT ![p] = held[p]]
    BY Zenon DEF BrelseDrop, Return
  <2> QED
    BY <2>1, Zenon DEF Inv, Types
<1>3. b \in Bufs /\ b \notin held[p] /\ p \in Users(b)
  BY <1>0, <1>1, Zenon DEF Inv, LockInv, Working, Users
<1>4. lru' \in [Bufs -> Bufs] /\ ListInv'
  <2>1. CASE refcnt[b] = 1
    BY <1>1, <1>3, <2>1, ListMoved, Zenon DEF Inv
  <2>2. CASE refcnt[b] # 1
    BY <1>1, <2>2, Zenon DEF Inv, Types, ListInv
  <2> QED
    BY <2>1, <2>2, Zenon
<1>5. Users(b)' = Users(b) \ {p}
  BY <1>0, <1>1, <1>2, <1>3, Numbers, Zenon DEF Inv, Types, Users
<1>6. \A c \in Bufs \ {b} : Users(c)' = Users(c)
  BY <1>0, <1>1, <1>2, Numbers, Zenon DEF Inv, Types, Users
<1>7. refcnt[b] \in Nat \ {0} /\ refcnt'[b] = Cardinality(Users(b)')
  <2>1. refcnt[b] = Cardinality(Users(b)) /\ refcnt'[b] = refcnt[b] - 1
    BY <1>1, <1>3, Zenon DEF Inv, Types, RefInv
  <2>2. refcnt[b] # 0
    BY <1>3, <2>1, UsersFinite, FS_EmptySet, Zenon
  <2>3. Cardinality(Users(b) \ {p}) = Cardinality(Users(b)) - 1
    BY <1>3, UsersFinite, FS_RemoveElement, Zenon
  <2> QED
    BY <1>3, <1>5, <2>1, <2>2, <2>3, UsersFinite, Zenon
<1>8. Types'
  BY <1>1, <1>2, <1>3, <1>4, <1>7 DEF Inv, Types, driveVars, Locations
<1>9. CopyInv' /\ DriveInv'
  BY <1>1, DriveFrame, Zenon DEF Inv, CopyInv
<1>10. LockInv'
  BY <1>1, <1>2, Zenon DEF Inv, Types, LockInv, Working
<1>11. RefInv'
  <2>1. \A c \in Bufs \ {b} : refcnt'[c] = refcnt[c]
    BY <1>1, <1>3, Zenon DEF Inv, Types
  <2>2. \A c \in Bufs : Users(c)' # {} => Users(c) # {}
    BY <1>5, <1>6, Zenon
  <2> QED
    BY <1>1, <1>6, <1>7, <2>1, <2>2, Zenon DEF Inv, RefInv
<1>12. QueueInv'
  <2>1. \A q \in Procs : pc[q] = "io" => pc'[q] = "io" /\ buf'[q] = buf[q]
    BY <1>1, Zenon DEF Inv, Types
  <2> QED
    BY <1>1, <2>1 DEF Inv, QueueInv, driveVars
<1> QED
  BY <1>4, <1>8, <1>9, <1>10, <1>11, <1>12, Zenon DEF Inv

-----------------------------------------------------------------------------
(* The drive and its interrupt.                                            *)

(* The drive does what the first buffer of the queue asks for.             *)
LEMMA Drives ==
  ASSUME Inv, DriveDone
  PROVE  /\ idequeue # <<>> /\ idequeue[1] \in Bufs /\ blockno[idequeue[1]] \in Blocks
         /\ disk' = IF dirty[idequeue[1]]
                    THEN [disk EXCEPT ![blockno[idequeue[1]]] = data[idequeue[1]]] ELSE disk
         /\ latch' = IF dirty[idequeue[1]] THEN latch ELSE disk[blockno[idequeue[1]]]
         /\ cmd' = <<>> /\ irq' = TRUE
         /\ UNCHANGED <<cacheVars, holder, idequeue, pc, buf, held>>
<1> DEFINE h == idequeue[1]
<1>1. idequeue # <<>> /\ cmd = <<Command(h, data)>>
  BY Zenon DEF DriveDone, Inv, DriveInv
<1>2. 1 \in 1 .. Len(idequeue)
  BY <1>1 DEF Inv, Types
<1>3. h \in Bufs /\ Users(h) # {}
  BY <1>2, QueueHolder, Zenon
<1>4. blockno[h] \in Blocks
  BY <1>3, Zenon DEF Inv, RefInv
<1>5. /\ Head(cmd).write = dirty[h] /\ Head(cmd).block = blockno[h]
      /\ Head(cmd).value = data[h]
  BY <1>1 DEF Command
<1> QED
  BY <1>1, <1>3, <1>4, <1>5, Zenon DEF DriveDone, procVars

LEMMA Inv_DriveDone ==
  ASSUME Inv, DriveDone
  PROVE  Inv'
<1> DEFINE h == idequeue[1]
<1>1. /\ idequeue # <<>> /\ h \in Bufs /\ blockno[h] \in Blocks
      /\ disk' = IF dirty[h] THEN [disk EXCEPT ![blockno[h]] = data[h]] ELSE disk
      /\ latch' = IF dirty[h] THEN latch ELSE disk[blockno[h]]
      /\ cmd' = <<>> /\ irq' = TRUE
      /\ UNCHANGED <<cacheVars, holder, idequeue, pc, buf, held>>
  BY Drives, Zenon
<1>2. Types'
  BY <1>1, Zenon DEF Inv, Types, cacheVars
<1>3. ListInv' /\ CopyInv' /\ LockInv' /\ QueueInv'
  BY <1>1, Zenon DEF Inv, ListInv, CopyInv, LockInv, QueueInv, cacheVars
<1>4. RefInv'
  BY <1>1, RefFrame, Zenon DEF Inv, Users, cacheVars
<1>5. DriveInv'
  <2>1. dirty[h] => disk'[blockno[h]] = data[h]
    BY <1>1, Zenon DEF Inv, Types
  <2> QED
    BY <1>1, <2>1, Zenon DEF DriveInv, cacheVars
<1> QED
  BY <1>2, <1>3, <1>4, <1>5, Zenon DEF Inv

(* The interrupt finds the buffer whose transfer is done at the head of    *)
(* the queue, and the drive idle.                                          *)
LEMMA Interrupts ==
  ASSUME Inv, ideintr
  PROVE  LET h == idequeue[1]
         IN /\ idequeue # <<>> /\ h \in Bufs /\ blockno[h] \in Blocks
            /\ \A q \in Procs : pc[q] = "rw" => buf[q] # h
            /\ cmd = <<>>
            /\ IF dirty[h] THEN disk[blockno[h]] = data[h] ELSE latch = disk[blockno[h]]
            /\ irq' = FALSE /\ latch' = Blank
            /\ idequeue' = Tail(idequeue)
            /\ \E error \in DiskErrors :
                 data' = IF dirty[h] \/ error THEN data ELSE [data EXCEPT ![h] = latch]
            /\ valid' = [valid EXCEPT ![h] = TRUE]
            /\ dirty' = [dirty EXCEPT ![h] = FALSE]
            /\ StartNext(Tail(idequeue), data)
            /\ UNCHANGED <<lru, blockno, refcnt, holder, disk, pc, buf, held>>
<1> DEFINE h == idequeue[1]
<1>1. /\ idequeue # <<>> /\ cmd = <<>>
      /\ IF dirty[h] THEN disk[blockno[h]] = data[h] ELSE latch = disk[blockno[h]]
  BY Zenon DEF ideintr, Inv, DriveInv
<1>2. 1 \in 1 .. Len(idequeue) /\ Head(idequeue) = h
  BY <1>1 DEF Inv, Types
<1>3. PICK r \in Procs : pc[r] = "io" /\ holder[h] = r /\ r \in Users(h)
  BY <1>2, QueueHolder, Zenon
<1>4. h \in Bufs /\ blockno[h] \in Blocks
  BY <1>2, <1>3, QueueHolder, Zenon DEF Inv, RefInv
<1>5. \A q \in Procs : pc[q] = "rw" => buf[q] # h
  BY <1>3, Zenon DEF Inv, LockInv
<1>6. /\ \E error \in DiskErrors :
           data' = IF dirty[h] \/ error THEN data ELSE [data EXCEPT ![h] = latch]
      /\ idequeue' = Tail(idequeue)
      /\ valid' = [valid EXCEPT ![h] = TRUE]
      /\ dirty' = [dirty EXCEPT ![h] = FALSE]
      /\ StartNext(Tail(idequeue), data)
  BY <1>1, <1>2, Zenon DEF ideintr
<1>7. /\ irq' = FALSE /\ latch' = Blank
      /\ UNCHANGED <<lru, blockno, refcnt, holder, disk, pc, buf, held>>
  BY Zenon DEF ideintr
<1> QED
  BY <1>1, <1>4, <1>5, <1>6, <1>7, Zenon

LEMMA Inv_ideintr ==
  ASSUME Inv, ideintr
  PROVE  Inv'
<1> DEFINE h == idequeue[1]
<1>1. /\ idequeue # <<>> /\ h \in Bufs /\ blockno[h] \in Blocks
      /\ \A q \in Procs : pc[q] = "rw" => buf[q] # h
      /\ cmd = <<>>
      /\ irq' = FALSE /\ latch' = Blank
      /\ idequeue' = Tail(idequeue)
      /\ data' = data \/ data' = [data EXCEPT ![h] = latch]
      /\ valid' = [valid EXCEPT ![h] = TRUE]
      /\ dirty' = [dirty EXCEPT ![h] = FALSE]
      /\ StartNext(Tail(idequeue), data)
      /\ UNCHANGED <<lru, blockno, refcnt, holder, disk, pc, buf, held>>
  BY Interrupts, Zenon
<1>2. /\ idequeue \in Seq(Bufs) /\ Tail(idequeue) \in Seq(Bufs)
      /\ Len(Tail(idequeue)) = Len(idequeue) - 1
      /\ \A i \in 1 .. Len(Tail(idequeue)) :
           Tail(idequeue)[i] = idequeue[i + 1] /\ i + 1 \in 1 .. Len(idequeue)
  BY <1>1 DEF Inv, Types
<1>3. \A i \in 1 .. Len(Tail(idequeue)) : Tail(idequeue)[i] \in Bufs \ {h}
  <2>1. 1 \in 1 .. Len(idequeue)
    BY <1>1 DEF Inv, Types
  <2> SUFFICES ASSUME NEW i \in 1 .. Len(Tail(idequeue))
               PROVE  Tail(idequeue)[i] \in Bufs \ {h}
    BY Zenon
  <2>2. i + 1 \in 1 .. Len(idequeue) /\ i + 1 # 1 /\ Tail(idequeue)[i] = idequeue[i + 1]
    BY <1>2
  <2>3. idequeue[i + 1] # idequeue[1]
    BY <2>1, <2>2, Zenon DEF Inv, QueueInv
  <2>4. idequeue[i + 1] \in Bufs
    BY <2>2, QueueHolder, Zenon
  <2> QED
    BY <2>2, <2>3, <2>4, Zenon
<1> HIDE DEF h
<1>4. Types'
  <2>1. valid' \in [Bufs -> BOOLEAN] /\ dirty' \in [Bufs -> BOOLEAN]
    <3>1. valid \in [Bufs -> BOOLEAN] /\ dirty \in [Bufs -> BOOLEAN]
      BY Zenon DEF Inv, Types
    <3> QED
      BY <1>1, <3>1, Zenon
  <2>2. data' \in [Bufs -> Values]
    <3>1. data \in [Bufs -> Values] /\ latch \in Values
      BY Zenon DEF Inv, Types
    <3> QED
      BY <1>1, <3>1, Zenon
  <2> QED
    BY <1>1, <1>2, <2>1, <2>2, BioAssumption, Zenon DEF Inv, Types
<1>5. ListInv' /\ CopyInv'
  BY <1>1, Zenon DEF Inv, Types, ListInv, CopyInv
<1>6. LockInv'
  BY <1>1, Zenon DEF Inv, Types, LockInv, Working
<1>7. RefInv'
  BY <1>1, RefFrame, Zenon DEF Inv, Users
<1>8. QueueInv'
  <2>1. \A b \in Bufs \ {h} : valid'[b] = valid[b] /\ dirty'[b] = dirty[b]
    BY <1>1, Zenon DEF Inv, Types
  <2>2. ASSUME NEW i \in 1 .. Len(Tail(idequeue))
        PROVE  /\ ~ valid'[Tail(idequeue)[i]] \/ dirty'[Tail(idequeue)[i]]
               /\ \E q \in Procs : pc'[q] = "io" /\ buf'[q] = Tail(idequeue)[i]
    <3>1. i + 1 \in 1 .. Len(idequeue) /\ Tail(idequeue)[i] = idequeue[i + 1]
      BY <1>2, Zenon
    <3>2. /\ ~ valid[idequeue[i + 1]] \/ dirty[idequeue[i + 1]]
          /\ \E q \in Procs : pc[q] = "io" /\ buf[q] = idequeue[i + 1]
      BY <3>1, Zenon DEF Inv, QueueInv
    <3>3. Tail(idequeue)[i] \in Bufs \ {h}
      BY <1>3, Zenon
    <3> QED
      BY <1>1, <2>1, <3>1, <3>2, <3>3, Zenon
  <2>3. ASSUME NEW i \in 1 .. Len(Tail(idequeue)), NEW j \in 1 .. Len(Tail(idequeue)),
               Tail(idequeue)[i] = Tail(idequeue)[j]
        PROVE  i = j
    <3>1. /\ i + 1 \in 1 .. Len(idequeue) /\ j + 1 \in 1 .. Len(idequeue)
          /\ idequeue[i + 1] = idequeue[j + 1]
      BY <1>2, <2>3, Zenon
    <3>2. i + 1 = j + 1
      BY <3>1, Zenon DEF Inv, QueueInv
    <3> QED
      BY <3>2
  <2> QED
    BY <1>1, <2>2, <2>3, Zenon DEF QueueInv
<1>9. DriveInv'
  <2>1. CASE Tail(idequeue) = <<>>
    BY <1>1, <2>1, Zenon DEF StartNext, DriveInv
  <2>2. CASE Tail(idequeue) # <<>>
    <3>1. PICK g \in Bufs \ {h} : g = Tail(idequeue)[1] /\ Head(Tail(idequeue)) = g
      <4>1. 1 \in 1 .. Len(Tail(idequeue))
        BY <1>2, <2>2
      <4>2. Tail(idequeue)[1] \in Bufs \ {h}
        BY <1>3, <4>1, Zenon
      <4>3. Head(Tail(idequeue)) = Tail(idequeue)[1]
        BY <1>2, <2>2
      <4> QED
        BY <4>2, <4>3, Zenon
    <3>2. Command(g, data)' = Command(g, data)
      BY <1>1, <3>1, Zenon DEF Inv, Types, Command
    <3>3. cmd' = <<Command(g, data)>>
      BY <1>1, <2>2, <3>1, Zenon DEF StartNext, idestart
    <3> QED
      BY <1>1, <2>2, <3>1, <3>2, <3>3, Zenon DEF DriveInv
  <2> QED
    BY <2>1, <2>2, Zenon
<1> QED
  BY <1>4, <1>5, <1>6, <1>7, <1>8, <1>9, Zenon DEF Inv

-----------------------------------------------------------------------------
(* The inductive invariant holds, whatever the drive does.                 *)
LEMMA StepInv ==
  Inv /\ [Next]_vars => Inv'
<1> SUFFICES ASSUME Inv, [Next]_vars PROVE Inv'
  BY Zenon
<1>1. CASE UNCHANGED vars
  BY <1>1, SameInv, Zenon DEF vars, procVars
<1>2. ASSUME NEW p \in Procs, Inside(p) PROVE Inv'
  BY <1>2, Inv_bread, Inv_acquiresleep, Inv_AcquireWaits, Inv_iderw, Inv_IderwLoop,
     Inv_BrelseDrop, Zenon
     DEF Inside
<1>3. ASSUME NEW p \in Procs, Caller(p) PROVE Inv'
  BY <1>3, Inv_bget, Inv_bwrite, Inv_brelse, Inv_Change, Zenon DEF Caller
<1> QED
  BY <1>1, <1>2, <1>3, Inv_DriveDone, Inv_ideintr, Zenon DEF Next

LEMMA Invariance ==
  Spec => []Inv
BY InitInv, StepInv, PTL DEF Spec

(* The reference count of a buffer is the number of processes between bget *)
(* and the end of brelse, and a block has one buffer (bio.c 58-93, 118-    *)
(* 141), for any number of processes, buffers and blocks, and also when    *)
(* reads fail.                                                             *)
THEOREM RefcntSafe ==
  Spec => []RefcntExact
<1>1. Inv => RefcntExact
  BY Zenon DEF Inv, RefInv, CopyInv, RefcntExact
<1> QED
  BY <1>1, Invariance, PTL

-----------------------------------------------------------------------------
(* With a drive whose reads do not fail.                                   *)

LEMMA CleanFrame ==
  ASSUME CleanMatchesDisk, UNCHANGED <<blockno, valid, dirty, data, disk>>
  PROVE  CleanMatchesDisk'
BY Zenon DEF CleanMatchesDisk

(* What a read brings is what the block holds.                             *)
LEMMA Transferred ==
  ASSUME Inv, ideintr, TRUE \notin DiskErrors
  PROVE  /\ data'[idequeue[1]] = disk[blockno[idequeue[1]]]
         /\ \A b \in Bufs \ {idequeue[1]} : data'[b] = data[b]
<1>1. PICK h \in Bufs :
        /\ h = idequeue[1]
        /\ IF dirty[h] THEN disk[blockno[h]] = data[h] ELSE latch = disk[blockno[h]]
        /\ \E error \in DiskErrors :
             data' = IF dirty[h] \/ error THEN data ELSE [data EXCEPT ![h] = latch]
  BY Interrupts, Zenon
<1>2. data' = IF dirty[h] THEN data ELSE [data EXCEPT ![h] = latch]
  BY <1>1, BioAssumption, Zenon
<1> QED
  BY <1>1, <1>2, Zenon DEF Inv, Types

LEMMA CleanStep ==
  ASSUME TRUE \notin DiskErrors, Inv, CleanMatchesDisk, [Next]_vars
  PROVE  CleanMatchesDisk'
<1>1. CASE UNCHANGED vars
  BY <1>1, CleanFrame, Zenon DEF vars, cacheVars, driveVars
<1>2. ASSUME NEW p \in Procs, Inside(p) PROVE CleanMatchesDisk'
  <2>1. UNCHANGED <<blockno, valid, dirty, data, disk>>
    BY <1>2, Zenon DEF Inside, bread, acquiresleep, AcquireWaits, iderw, IderwLoop, BrelseDrop,
                cacheVars, driveVars
  <2> QED
    BY <2>1, CleanFrame, Zenon
<1>3. ASSUME NEW p \in Procs, NEW k \in Blocks, bget(p, k) PROVE CleanMatchesDisk'
  <2>1. UNCHANGED <<dirty, data, disk>>
    BY <1>3, Zenon DEF bget, driveVars
  <2>2. CASE BgetHit(p, k) \/ BgetPanic(p, k)
    <3>1. UNCHANGED <<blockno, valid>>
      BY <2>2, Zenon DEF BgetHit, BgetPanic
    <3> QED
      BY <2>1, <3>1, CleanFrame, Zenon
  <2>3. CASE BgetRecycle(p, k)
    <3>1. PICK b \in Bufs : /\ blockno' = [blockno EXCEPT ![b] = k]
                            /\ valid' = [valid EXCEPT ![b] = FALSE]
      BY <1>3, <2>3, Recycled
    <3> QED
      BY <2>1, <3>1, Zenon DEF Inv, Types, CleanMatchesDisk
  <2> QED
    BY <1>3, <2>2, <2>3, Zenon DEF bget
<1>4. ASSUME NEW p \in Procs, NEW b \in Bufs, brelse(p, b) PROVE CleanMatchesDisk'
  BY <1>4, CleanFrame, Zenon DEF brelse, cacheVars, driveVars
<1>5. ASSUME NEW p \in Procs, NEW b \in Bufs,
             bwrite(p, b) \/ \E v \in Values : Change(p, b, v)
      PROVE  CleanMatchesDisk'
  <2>1. UNCHANGED <<blockno, valid, disk>>
    BY <1>5, Zenon DEF bwrite, Change, driveVars
  <2>2. \A c \in Bufs : dirty'[c] \/ (data'[c] = data[c] /\ dirty'[c] = dirty[c])
    BY <1>5, Zenon DEF bwrite, Change, Inv, Types
  <2> QED
    BY <2>1, <2>2, Zenon DEF CleanMatchesDisk
<1>6. CASE DriveDone
  <2>1. PICK h \in Bufs :
          /\ blockno[h] \in Blocks
          /\ disk' = IF dirty[h] THEN [disk EXCEPT ![blockno[h]] = data[h]] ELSE disk
          /\ UNCHANGED cacheVars
    BY <1>6, Drives, Zenon
  <2>2. \A b \in Bufs : valid[b] /\ ~ dirty[b] => disk'[blockno[b]] = disk[blockno[b]]
    BY <2>1, Numbers, Zenon DEF Inv, Types, CopyInv
  <2> QED
    BY <2>1, <2>2, Zenon DEF CleanMatchesDisk, cacheVars
<1>7. CASE ideintr
  <2>1. PICK h \in Bufs :
          /\ h = idequeue[1]
          /\ valid' = [valid EXCEPT ![h] = TRUE]
          /\ dirty' = [dirty EXCEPT ![h] = FALSE]
          /\ UNCHANGED <<blockno, disk>>
    BY <1>7, Interrupts, Zenon
  <2>2. data'[h] = disk[blockno[h]] /\ \A b \in Bufs \ {h} : data'[b] = data[b]
    BY <1>7, <2>1, Transferred, Zenon
  <2> QED
    BY <2>1, <2>2, Zenon DEF Inv, Types, CleanMatchesDisk
<1> QED
  BY <1>1, <1>2, <1>3, <1>4, <1>5, <1>6, <1>7, Zenon DEF Next, Caller

(* A buffer that is valid and not dirty equals its block on the disk, so   *)
(* what bget recycles (bio.c 78-91) is never the only copy: with a drive   *)
(* whose reads do not fail (ideintr, ide.c 118-119, takes a read that      *)
(* failed for done and marks the buffer valid).                            *)
THEOREM CleanSafe ==
  ASSUME TRUE \notin DiskErrors
  PROVE  Spec => []CleanMatchesDisk
<1>1. Init => CleanMatchesDisk
  BY Zenon DEF Init, CleanMatchesDisk
<1>2. Inv /\ CleanMatchesDisk /\ [Next]_vars => CleanMatchesDisk'
  BY CleanStep, Zenon
<1> QED
  BY <1>1, <1>2, Invariance, PTL DEF Spec

-----------------------------------------------------------------------------
(* The refinement.                                                         *)

(* A block is its valid copy, or what is on the disk.                      *)
LEMMA ContentAt ==
  ASSUME Inv, NEW k \in Blocks
  PROVE  /\ \A b \in Copies(k) : Content[k] = data[b]
         /\ Copies(k) = {} => Content[k] = disk[k]
<1>1. \A b, c \in Copies(k) : b = c
  BY Numbers, Zenon DEF Inv, CopyInv, Copies
<1> QED
  BY <1>1, Zenon DEF Content, Only

LEMMA ContentAtNext ==
  ASSUME Inv', NEW k \in Blocks
  PROVE  /\ \A b \in Copies(k)' : Content'[k] = data'[b]
         /\ Copies(k)' = {} => Content'[k] = disk'[k]
<1>1. \A b, c \in Copies(k)' : b = c
  BY Numbers, Zenon DEF Inv, CopyInv, Copies
<1> QED
  BY <1>1, Zenon DEF Content, Only

(* Blocks that keep what they hold.                                        *)
LEMMA ContentSame ==
  ASSUME \A k \in Blocks : Content'[k] = Content[k]
  PROVE  Content' = Content
BY Zenon DEF Content

LEMMA ContentKept ==
  ASSUME Inv, Inv', NEW k \in Blocks, Copies(k)' = Copies(k),
         \A b \in Copies(k) : data'[b] = data[b],
         Copies(k) = {} => disk'[k] = disk[k]
  PROVE  Content'[k] = Content[k]
<1>1. CASE Copies(k) = {}
  BY <1>1, ContentAt, ContentAtNext, Zenon
<1>2. ASSUME NEW b \in Copies(k) PROVE Content'[k] = Content[k]
  <2>1. Content[k] = data[b]
    BY ContentAt, Zenon
  <2>2. Content'[k] = data'[b]
    BY ContentAtNext, Zenon
  <2> QED
    BY <2>1, <2>2, Zenon
<1> QED
  BY <1>1, <1>2, Zenon

LEMMA ContentFrame ==
  ASSUME UNCHANGED <<blockno, valid, data, disk>>
  PROVE  Content' = Content
BY Zenon DEF Content, Copies

(* One process has a block: the one that has locked its buffer.            *)
LEMMA OneHas ==
  ASSUME Inv, NEW k \in Blocks, NEW p \in Procs, NEW b \in held[p], blockno[b] = k
  PROVE  Having(k) = {p} /\ Owner[k] = p
<1>1. b \in Bufs /\ holder[b] = p
  BY Zenon DEF Inv, Types, LockInv
<1>2. \A q \in Having(k) : q = p
  <2> SUFFICES ASSUME NEW q \in Procs, NEW c \in held[q], blockno[c] = k PROVE q = p
    BY Zenon DEF Having
  <2>1. c \in Bufs /\ holder[c] = q
    BY Zenon DEF Inv, Types, LockInv
  <2>2. b = c
    BY <1>1, <2>1, Numbers, Zenon DEF Inv, CopyInv
  <2> QED
    BY <1>1, <2>1, <2>2, Zenon
<1>3. p \in Having(k)
  BY Zenon DEF Having
<1> QED
  BY <1>2, <1>3, Zenon DEF Owner, Only

(* Blocks that change hands or not.                                        *)
LEMMA OwnerSame ==
  ASSUME \A k \in Blocks : Having(k)' = Having(k)
  PROVE  Owner' = Owner
<1>1. \A k \in Blocks : Owner'[k] = Owner[k]
  BY Zenon DEF Owner
<1> QED
  BY <1>1, Zenon DEF Owner

LEMMA OwnerFrame ==
  ASSUME UNCHANGED <<blockno, held>>
  PROVE  Owner' = Owner
BY Zenon DEF Owner, Having

(* Recycling a buffer that is not dirty loses nothing.                     *)
LEMMA Refine_bget ==
  ASSUME Inv, Inv', CleanMatchesDisk, NEW p \in Procs, NEW k \in Blocks, bget(p, k)
  PROVE  Content' = Content /\ Owner' = Owner
<1>1. UNCHANGED <<dirty, data, disk, held>>
  BY Zenon DEF bget, driveVars
<1>2. CASE BgetHit(p, k) \/ BgetPanic(p, k)
  <2>1. UNCHANGED <<blockno, valid>>
    BY <1>2, Zenon DEF BgetHit, BgetPanic
  <2> QED
    BY <1>1, <2>1, ContentFrame, OwnerFrame, Zenon
<1>3. CASE BgetRecycle(p, k)
  <2>1. PICK b \in Bufs :
           /\ Users(b) = {} /\ ~ dirty[b]
           /\ \A i \in 1 .. Len(idequeue) : idequeue[i] # b
           /\ \A c \in Bufs : blockno[c] # k
           /\ buf' = [buf EXCEPT ![p] = b]
           /\ blockno' = [blockno EXCEPT ![b] = k]
           /\ valid' = [valid EXCEPT ![b] = FALSE]
           /\ refcnt' = [refcnt EXCEPT ![b] = 1]
           /\ pc' = [pc EXCEPT ![p] = "lock"]
    BY <1>3, Recycled, Zenon
  <2>2. Owner' = Owner
    <3>1. \A q \in Procs : \A c \in held[q] : blockno'[c] = blockno[c]
      <4>1. \A c \in Bufs \ {b} : blockno'[c] = blockno[c]
        BY <2>1, Zenon DEF Inv, Types
      <4>2. \A q \in Procs : b \notin held[q] /\ held[q] \subseteq Bufs
        BY <2>1, Zenon DEF Users, Inv, Types
      <4> QED
        BY <4>1, <4>2, Zenon
    <3>2. \A l \in Blocks : Having(l)' = Having(l)
      BY <1>1, <3>1, Zenon DEF Having
    <3> QED
      BY <3>2, OwnerSame, Zenon
  <2>3. ASSUME NEW l \in Blocks PROVE Content'[l] = Content[l]
    <3>1. Copies(l)' = Copies(l) \ {b}
      BY <2>1, Zenon DEF Copies, Inv, Types
    <3>2. CASE b \in Copies(l)
      <4>1. Copies(l) = {b}
        BY <3>2, Numbers, Zenon DEF Copies, Inv, CopyInv
      <4>2. Content[l] = data[b] /\ Content'[l] = disk'[l]
        BY <3>1, <3>2, <4>1, ContentAt, ContentAtNext, Zenon
      <4>3. data[b] = disk[l]
        BY <2>1, <3>2, Zenon DEF CleanMatchesDisk, Copies
      <4> QED
        BY <1>1, <4>2, <4>3, Zenon
    <3>3. CASE b \notin Copies(l)
      <4>1. Copies(l)' = Copies(l)
        BY <3>1, <3>3, Zenon
      <4> QED
        BY <1>1, <4>1, ContentKept, Zenon
    <3> QED
      BY <3>2, <3>3, Zenon
  <2> QED
    BY <2>2, <2>3, ContentSame, Zenon
<1> QED
  BY <1>2, <1>3, Zenon DEF bget

(* bread and bwrite return: the process takes the block, unless it had it. *)
LEMMA Refine_Return ==
  ASSUME Inv, Inv', NEW p \in Procs, pc[p] \in {"got", "io"}, valid[buf[p]],
         Return(p, held[p] \cup {buf[p]}), UNCHANGED <<cacheVars, holder, driveVars>>
  PROVE  BlocksAre!Next \/ UNCHANGED <<Content, Owner>>
<1>1. PICK b \in Bufs : b = buf[p] /\ holder[b] = p /\ blockno[b] \in Blocks
  BY Zenon DEF Inv, LockInv, CopyInv, Working
<1>2. held' = [held EXCEPT ![p] = held[p] \cup {b}] /\ UNCHANGED blockno
  BY <1>1, Zenon DEF Return, cacheVars
<1>3. Content' = Content
  BY ContentFrame, Zenon DEF cacheVars, driveVars
<1>4. CASE b \in held[p]
  <2>1. held' = held
    BY <1>2, <1>4 DEF Inv, Types
  <2> QED
    BY <1>2, <1>3, <2>1, OwnerFrame, Zenon
<1>5. CASE b \notin held[p]
  <2>0. PICK k \in Blocks : k = blockno[b]
    BY <1>1, Zenon
  <2>1. \A l \in Blocks : Having(l)' = IF l = k THEN Having(l) \cup {p} ELSE Having(l)
    BY <1>1, <1>2, <2>0 DEF Having, Inv, Types
  <2>2. Having(k) = {}
    <3> SUFFICES ASSUME NEW q \in Procs, NEW c \in held[q], blockno[c] = k PROVE FALSE
      BY Zenon DEF Having
    <3>1. c \in Bufs /\ holder[c] = q
      BY Zenon DEF Inv, Types, LockInv
    <3>2. c = b
      <4>1. blockno[c] = blockno[b] /\ blockno[b] # NoBlock
        BY <1>1, <2>0, Numbers, Zenon
      <4> QED
        BY <3>1, <4>1, Zenon DEF Inv, CopyInv
    <3> QED
      BY <1>1, <1>5, <3>1, <3>2, Zenon
  <2>3. Owner[k] = Nobody
    BY <1>1, <2>2, Zenon DEF Owner
  <2>4. Having(k)' = {p} /\ Only({p}) = p
    BY <2>1, <2>2, Zenon DEF Only
  <2>5. \A l \in Blocks : Owner'[l] = IF l = k THEN p ELSE Owner[l]
    BY <2>1, <2>4, Zenon DEF Owner
  <2>6. Owner' = [Owner EXCEPT ![k] = p]
    BY <2>5, Zenon DEF Owner
  <2> QED
    BY <1>1, <1>3, <2>3, <2>6, Zenon DEF BlocksAre!Next, BlocksAre!Take
<1> QED
  BY <1>4, <1>5, Zenon

LEMMA Refine_Inside ==
  ASSUME Inv, Inv', NEW p \in Procs, Inside(p)
  PROVE  BlocksAre!Next \/ UNCHANGED <<Content, Owner>>
<1>1. CASE bread(p) /\ valid[buf[p]]
  BY <1>1, Refine_Return, Zenon DEF bread, Running
<1>2. CASE IderwLoop(p) /\ valid[buf[p]] /\ ~ dirty[buf[p]]
  BY <1>2, Refine_Return, Zenon DEF IderwLoop, Running
<1>3. CASE ~ (bread(p) /\ valid[buf[p]]) /\ ~ (IderwLoop(p) /\ valid[buf[p]] /\ ~ dirty[buf[p]])
  <2>1. UNCHANGED <<blockno, valid, data, disk>>
    BY Zenon DEF Inside, bread, acquiresleep, AcquireWaits, iderw, IderwLoop, BrelseDrop,
       cacheVars, driveVars
  <2>2. UNCHANGED held
    BY <1>3, Zenon DEF Inside, bread, acquiresleep, AcquireWaits, iderw, IderwLoop, BrelseDrop,
                Return, Inv, Types
  <2> QED
    BY <2>1, <2>2, ContentFrame, OwnerFrame, Zenon
<1> QED
  BY <1>1, <1>2, <1>3, Zenon

LEMMA Refine_Change ==
  ASSUME Inv, Inv', NEW p \in Procs, NEW b \in Bufs, NEW v \in Values, Change(p, b, v)
  PROVE  BlocksAre!Next
<1>1. /\ b \in held[p] /\ pc[p] = "run"
      /\ data' = [data EXCEPT ![b] = v]
      /\ UNCHANGED <<blockno, valid, disk, held>>
  BY Zenon DEF Change, Running, driveVars, procVars
<1>2. PICK k \in Blocks : k = blockno[b]
  BY <1>1, HeldNotQueued, Zenon
<1>3. valid[b]
  BY <1>1, HeldNotQueued, Zenon
<1>4. Owner[k] = p /\ Owner' = Owner
  BY <1>1, <1>2, OneHas, OwnerFrame, Zenon
<1>5. \A l \in Blocks : Copies(l)' = Copies(l)
  BY <1>1, Zenon DEF Copies
<1>6. \A l \in Blocks : Content'[l] = IF l = k THEN v ELSE Content[l]
  <2> SUFFICES ASSUME NEW l \in Blocks PROVE Content'[l] = IF l = k THEN v ELSE Content[l]
    BY Zenon
  <2>1. CASE l = k
    <3>1. b \in Copies(l)' /\ data'[b] = v
      BY <1>1, <1>2, <1>3, <2>1, Zenon DEF Copies, Inv, Types
    <3> QED
      BY <2>1, <3>1, ContentAtNext, Zenon
  <2>2. CASE l # k
    <3>1. \A c \in Copies(l) : data'[c] = data[c]
      BY <1>1, <1>2, <2>2, Zenon DEF Copies, Inv, Types
    <3> QED
      BY <1>1, <1>5, <2>2, <3>1, ContentKept, Zenon
  <2> QED
    BY <2>1, <2>2, Zenon
<1>7. Content' = [Content EXCEPT ![k] = v]
  BY <1>6, Zenon DEF Content
<1> QED
  BY <1>4, <1>7, Zenon DEF BlocksAre!Next, BlocksAre!Change

LEMMA Refine_brelse ==
  ASSUME Inv, Inv', NEW p \in Procs, NEW b \in Bufs, brelse(p, b)
  PROVE  BlocksAre!Next
<1>1. /\ b \in held[p] /\ pc[p] = "run"
      /\ held' = [held EXCEPT ![p] = @ \ {b}]
      /\ UNCHANGED <<blockno, valid, data, disk>>
  BY Zenon DEF brelse, Running, cacheVars, driveVars
<1>2. PICK k \in Blocks : k = blockno[b]
  BY <1>1, HeldNotQueued, Zenon
<1>3. Owner[k] = p /\ Having(k) = {p} /\ Content' = Content
  BY <1>1, <1>2, OneHas, ContentFrame, Zenon
<1>4. \A l \in Blocks \ {k} : Having(l)' = Having(l)
  BY <1>1, <1>2, Zenon DEF Having, Inv, Types
<1>5. Having(k)' = {}
  <2>1. \A c \in held[p] : blockno[c] = k => c = b
    BY <1>2, Numbers, Zenon DEF Inv, Types, CopyInv
  <2>2. \A q \in Procs \ {p} : \A c \in held[q] : blockno[c] # k
    BY <1>3, Zenon DEF Having
  <2>3. \A q \in Procs : \A c \in held'[q] : blockno[c] # k
    BY <1>1, <2>1, <2>2, Zenon DEF Inv, Types
  <2> QED
    BY <1>1, <2>3, Zenon DEF Having
<1>6. \A l \in Blocks : Owner'[l] = IF l = k THEN Nobody ELSE Owner[l]
  BY <1>4, <1>5, Zenon DEF Owner
<1>7. Owner' = [Owner EXCEPT ![k] = Nobody]
  BY <1>6, Zenon DEF Owner
<1> QED
  BY <1>3, <1>7, Zenon DEF BlocksAre!Next, BlocksAre!Give

(* A write reaches the disk behind the copy in the cache.                  *)
LEMMA Refine_DriveDone ==
  ASSUME Inv, Inv', DriveDone
  PROVE  Content' = Content /\ Owner' = Owner
<1>1. PICK h \in Bufs :
        /\ blockno[h] \in Blocks
        /\ disk' = IF dirty[h] THEN [disk EXCEPT ![blockno[h]] = data[h]] ELSE disk
        /\ UNCHANGED <<cacheVars, held>>
  BY Drives, Zenon
<1>2. \A l \in Blocks : Copies(l)' = Copies(l)
  BY <1>1, Zenon DEF Copies, cacheVars
<1>3. \A l \in Blocks : Copies(l) = {} => disk'[l] = disk[l]
  BY <1>1, Zenon DEF Copies, Inv, Types, CopyInv
<1>4. ASSUME NEW l \in Blocks PROVE Content'[l] = Content[l]
  BY <1>1, <1>2, <1>3, ContentKept, Zenon DEF cacheVars
<1> QED
  BY <1>1, <1>4, ContentSame, OwnerFrame, Zenon DEF cacheVars

(* A read brings the copy that the disk had.                               *)
LEMMA Refine_ideintr ==
  ASSUME Inv, Inv', ideintr, TRUE \notin DiskErrors
  PROVE  Content' = Content /\ Owner' = Owner
<1>1. PICK h \in Bufs :
        /\ h = idequeue[1] /\ idequeue # <<>> /\ blockno[h] \in Blocks
        /\ dirty[h] => disk[blockno[h]] = data[h]
        /\ valid' = [valid EXCEPT ![h] = TRUE]
        /\ UNCHANGED <<blockno, disk, held>>
  BY Interrupts, Zenon
<1>2. data'[h] = disk[blockno[h]] /\ \A b \in Bufs \ {h} : data'[b] = data[b]
  BY <1>1, Transferred, Zenon
<1>3. dirty[h] <=> valid[h]
  <2>1. 1 \in 1 .. Len(idequeue)
    BY <1>1 DEF Inv, Types
  <2> QED
    BY <1>1, <2>1, Zenon DEF Inv, Types, CopyInv, QueueInv
<1>4. ASSUME NEW l \in Blocks PROVE Content'[l] = Content[l]
  <2>1. CASE l = blockno[h]
    <3>1. h \in Copies(l)' /\ Content'[l] = disk[l]
      <4>1. h \in Copies(l)'
        BY <1>1, <2>1, Zenon DEF Copies, Inv, Types
      <4> QED
        BY <1>2, <2>1, <4>1, ContentAtNext, Zenon
    <3>2. CASE valid[h]
      <4>1. h \in Copies(l)
        BY <2>1, <3>2, Zenon DEF Copies
      <4> QED
        BY <1>1, <1>3, <2>1, <3>1, <3>2, <4>1, ContentAt, Zenon
    <3>3. CASE ~ valid[h]
      <4>1. Copies(l) = {}
        BY <2>1, <3>3, Numbers DEF Copies, Inv, CopyInv
      <4> QED
        BY <3>1, <4>1, ContentAt, Zenon
    <3> QED
      BY <3>2, <3>3, Zenon
  <2>2. CASE l # blockno[h]
    <3>1. Copies(l)' = Copies(l) /\ h \notin Copies(l)
      BY <1>1, <2>2 DEF Copies, Inv, Types
    <3>2. \A c \in Copies(l) : c \in Bufs \ {h}
      BY <3>1, Zenon DEF Copies
    <3> QED
      BY <1>1, <1>2, <3>1, <3>2, ContentKept, Zenon
  <2> QED
    BY <2>1, <2>2, Zenon
<1> QED
  BY <1>1, <1>4, ContentSame, OwnerFrame, Zenon

LEMMA RefineStep ==
  ASSUME TRUE \notin DiskErrors, Inv, Inv', CleanMatchesDisk, [Next]_vars
  PROVE  BlocksAre!Next \/ UNCHANGED <<Content, Owner>>
<1>1. CASE UNCHANGED vars
  BY <1>1, ContentFrame, OwnerFrame, Zenon DEF vars, cacheVars, driveVars, procVars
<1>2. ASSUME NEW p \in Procs, NEW b \in Bufs, bwrite(p, b)
      PROVE  UNCHANGED <<Content, Owner>>
  BY <1>2, ContentFrame, OwnerFrame, Zenon DEF bwrite, driveVars
<1>3. ASSUME NEW p \in Procs, Caller(p)
      PROVE  BlocksAre!Next \/ UNCHANGED <<Content, Owner>>
  BY <1>2, <1>3, Refine_bget, Refine_brelse, Refine_Change, Zenon DEF Caller
<1> QED
  BY <1>1, <1>3, Refine_Inside, Refine_DriveDone, Refine_ideintr, Zenon DEF Next

(* The cache, its sleep locks and the driver are an array of blocks that   *)
(* one process at a time has between bread and brelse (the comment at      *)
(* bio.c 3-15), for any number of processes, buffers and blocks: with a    *)
(* drive whose reads do not fail.                                          *)
THEOREM BioRefines ==
  ASSUME TRUE \notin DiskErrors
  PROVE  Spec => BlocksHeldAlone
<1>1. Init => BlocksAre!Init
  <2> SUFFICES ASSUME Init PROVE BlocksAre!Init
    BY Zenon
  <2>1. \A k \in Blocks : Copies(k) = {} /\ Having(k) = {} /\ disk[k] = Blank
    BY Zenon DEF Init, Copies, Having
  <2>2. Content = [k \in Blocks |-> Blank]
    BY <2>1, Zenon DEF Content
  <2>3. Owner = [k \in Blocks |-> Nobody]
    BY <2>1, Zenon DEF Owner
  <2> QED
    BY <2>2, <2>3, Zenon DEF BlocksAre!Init
<1>2. Inv /\ Inv' /\ CleanMatchesDisk /\ [Next]_vars => [BlocksAre!Next]_<<Content, Owner>>
  BY RefineStep, Zenon
<1> QED
  BY <1>1, <1>2, Invariance, CleanSafe, PTL DEF Spec, BlocksHeldAlone, BlocksAre!Spec,
     BlocksAre!vars
=============================================================================
