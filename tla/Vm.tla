--------------------------------- MODULE Vm ---------------------------------
(***************************************************************************)
(* Physical pages and page tables: kalloc.c, vm.c and the memory side of   *)
(* exec.c, as functions on a record v of the free pages and one address    *)
(* space:                                                                  *)
(*                                                                         *)
(*   free   the pages on kmem.freelist (their order does not matter)       *)
(*   sp     the space: its directory page, the page tables of the kernel   *)
(*          part, a page table for every NPTE user pages, the page of      *)
(*          every user address, and the addresses without PTE_U            *)
(*   ok     whether the last call succeeded                                *)
(*                                                                         *)
(* Addresses and sizes are counted in pages.  A call runs as one step: all *)
(* that processes share is the free list, one page at a time under         *)
(* kmem.lock.  The panics of vm.c are on arguments that no caller passes   *)
(* (an address mapped twice, a space that is not there).                   *)
(***************************************************************************)
EXTENDS Naturals, FiniteSets

LOCAL INSTANCE FiniteSetsExt

CONSTANTS
  NPTE,       \* entries of a page table
  NKTAB,      \* page tables for the kernel part of a space
  KERNBASE    \* user addresses are below it

Vas == 0 .. KERNBASE - 1
Tabs == 0 .. (KERNBASE - 1) \div NPTE

None == 0     \* no page: pages are numbered from 1

(* F(v), with v evaluated once.                                            *)
With(v, F(_)) == CHOOSE r \in {F(x) : x \in {v}} : TRUE

NoSpace == [dir |-> None, ktab |-> {}, tab |-> [t \in Tabs |-> None],
            pte |-> [a \in Vas |-> None], hidden |-> {}]

(* The pages of a space.                                                   *)
SpacePages(sp) ==
  ({sp.dir} \cup sp.ktab \cup {sp.tab[t] : t \in Tabs} \cup {sp.pte[a] : a \in Vas}) \ {None}

-----------------------------------------------------------------------------
(* kalloc.c.                                                               *)

(* kinit1, kinit2, freerange: the n pages the kernel does not use itself.  *)
kinit(n) == 1 .. n

kalloc(free) == IF free = {} THEN None ELSE Min(free)

kfree(free, pages) == free \cup (pages \ {None})

-----------------------------------------------------------------------------
(* Page tables.                                                            *)

(* The page table of address a, allocated if there is none.                *)
walkpgdir(v, a) ==
  LET t == a \div NPTE
      p == kalloc(v.free)
  IN CASE v.sp.tab[t] # None -> [v EXCEPT !.ok = TRUE]
       [] v.sp.tab[t] = None /\ p = None -> [v EXCEPT !.ok = FALSE]
       [] OTHER -> [v EXCEPT !.free = @ \ {p}, !.sp.tab[t] = p, !.ok = TRUE]

(* Page p at address a.                                                    *)
mappages(v, a, p) ==
  With(walkpgdir(v, a), LAMBDA w : IF w.ok THEN [w EXCEPT !.sp.pte[a] = p] ELSE w)

(* A space with the mappings of the kernel and no user page.  What was     *)
(* allocated before a failure is freed again.                              *)
setupkvm(free) ==
  IF Cardinality(free) < 1 + NKTAB THEN [free |-> free, sp |-> NoSpace, ok |-> FALSE]
  ELSE LET dir == kalloc(free)
           ktab == CHOOSE s \in SUBSET (free \ {dir}) : Cardinality(s) = NKTAB
       IN [free |-> free \ ({dir} \cup ktab), ok |-> TRUE,
           sp |-> [NoSpace EXCEPT !.dir = dir, !.ktab = ktab]]

(* The user pages from new to old are unmapped and freed.  The tables      *)
(* stay.                                                                   *)
deallocuvm(v, old, new) ==
  LET as == {a \in Vas : new <= a /\ a < old}
  IN [v EXCEPT !.free = kfree(@, {v.sp.pte[a] : a \in as}),
               !.sp.pte = [a \in Vas |-> IF a \in as THEN None ELSE @[a]]]

freevm(v) ==
  With(deallocuvm(v, KERNBASE, 0),
       LAMBDA w : [w EXCEPT !.free = kfree(@, SpacePages(w.sp)), !.sp = NoSpace])

(* One page at address a: taken first, given back if it cannot be mapped.  *)
(* Faulty: it is not given back.                                           *)
NewPageKeeps(v, a) ==
  LET p == kalloc(v.free)
  IN IF p = None THEN [v EXCEPT !.ok = FALSE]
     ELSE mappages([v EXCEPT !.free = @ \ {p}], a, p)

NewPage(v, a) ==
  LET p == kalloc(v.free)
  IN IF p = None THEN [v EXCEPT !.ok = FALSE]
     ELSE With(mappages([v EXCEPT !.free = @ \ {p}], a, p),
               LAMBDA w : IF w.ok THEN w ELSE [w EXCEPT !.free = kfree(@, {p})])

(* Pages at the addresses from old to new - 1, one after the other, until  *)
(* one cannot be had.                                                      *)
NewPages(v, old, new) ==
  LET upto[n \in old .. new] ==
        IF n = old THEN [v EXCEPT !.ok = TRUE]
        ELSE With(upto[n - 1], LAMBDA w : IF w.ok THEN NewPage(w, n - 1) ELSE w)
  IN upto[new]

allocuvm(v, old, new) ==
  CASE new >= KERNBASE -> [v EXCEPT !.ok = FALSE]
    [] new < old -> [v EXCEPT !.ok = TRUE]
    [] OTHER -> With(NewPages(v, old, new), LAMBDA w : IF w.ok THEN w ELSE deallocuvm(w, new, old))

(* The first process: one page with initcode.                              *)
inituvm(v) == NewPage(v, 0)

clearpteu(v, a) == [v EXCEPT !.sp.hidden = @ \cup {a}]

(* The space of a child: a copy of the first sz pages of space sp.         *)
copyuvm(free, sp, sz) ==
  With(setupkvm(free),
       LAMBDA d : IF ~ d.ok THEN d
                  ELSE With(NewPages(d, 0, sz),
                            LAMBDA w : IF w.ok THEN [w EXCEPT !.sp.hidden = sp.hidden]
                                       ELSE [freevm(w) EXCEPT !.ok = FALSE]))

(* growproc by n pages, n negative to shrink.  A new size of 0 is taken    *)
(* for a failure, the pages being gone all the same.                       *)
growproc(v, sz, n) ==
  CASE n > 0 -> allocuvm(v, sz, sz + n)
    [] n < 0 -> [deallocuvm(v, sz, sz + n) EXCEPT !.ok = sz + n # 0]
    [] OTHER -> v

-----------------------------------------------------------------------------
(* exec once the header of the program is read: a new space with the sz    *)
(* pages of the program, a page that is out of reach and the stack.  The   *)
(* arguments fit.  The old space is freed only when all is well; otherwise *)
(* the new one is.                                                         *)
exec(free, old, sz) ==
  With(setupkvm(free),
       LAMBDA d : IF ~ d.ok THEN [d EXCEPT !.sp = old]
       ELSE With(allocuvm(d, 0, sz),
       LAMBDA e : IF ~ e.ok THEN [freevm(e) EXCEPT !.ok = FALSE, !.sp = old]
       ELSE With(allocuvm(e, sz, sz + 2),
       LAMBDA g : IF ~ g.ok THEN [freevm(g) EXCEPT !.ok = FALSE, !.sp = old]
                  ELSE [clearpteu(g, sz) EXCEPT !.free = kfree(@, SpacePages(old))])))
=============================================================================
