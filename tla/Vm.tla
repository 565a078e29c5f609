--------------------------------- MODULE Vm ---------------------------------
(***************************************************************************)
(* kernel/kalloc.c and kernel/vm.c as operators.  Addresses are bytes and  *)
(* a page has PGSIZE of them; the page tables have three levels (Sv39) of  *)
(* NPTE entries, 512 in hardware.                                          *)
(*                                                                         *)
(* A page table is a record m: tables gives the physical page of each      *)
(* page-table page, named by its level and its index there, leaf gives the *)
(* PTE of each mapped virtual page.  The record also carries the free list *)
(* through the calls (free), and whether one of them failed (~ok) or came  *)
(* to a panic().  The free list is a set: the code takes its head, here    *)
(* the page with the least number is taken, which no property can tell     *)
(* apart.  kalloc() and kfree() are atomic under kmem.lock.                *)
(***************************************************************************)
EXTENDS Integers, FiniteSets, TLC

CONSTANTS
  Page,     \* the pages between end and PHYSTOP: positive integers
  PGSIZE, NPTE,
  Trampoline  \* the page of kernel text that holds trampoline.S

ASSUME VmAssumption ==
  /\ Page \subseteq Nat \ {0} /\ IsFiniteSet(Page) /\ Trampoline \notin Page
  /\ PGSIZE \in Nat \ {0} /\ NPTE \in Nat /\ NPTE > 1
  \* memory is smaller than the address space: no process can reach TRAPFRAME
  /\ Cardinality(Page) < NPTE * NPTE * NPTE - 2

MAXPAGE == NPTE * NPTE * NPTE        \* MAXVA / PGSIZE
TRAMPOLINE == MAXPAGE - 1            \* as virtual page numbers
TRAPFRAME == MAXPAGE - 2
PGROUNDUP(x) == (x + PGSIZE - 1) \div PGSIZE    \* in pages

NoTable == [tables |-> <<>>, leaf |-> <<>>]     \* no page table at all

(* The record for page table pt with free list f. *)
On(f, pt) == [free |-> f, tables |-> pt.tables, leaf |-> pt.leaf, ok |-> TRUE, panic |-> FALSE]
Table(m) == [tables |-> m.tables, leaf |-> m.leaf]
Panic(m) == [m EXCEPT !.panic = TRUE]

Without(f, S) == [x \in DOMAIN f \ S |-> f[x]]
Values(f) == {f[x] : x \in DOMAIN f}

-----------------------------------------------------------------------------
kalloc(f) == CHOOSE pa \in f : \A q \in f : pa <= q      \* f is not empty
kfree(m, pa) == [m EXCEPT !.free = @ \cup {pa}]

(* One level of walk(): a missing page-table page is allocated. *)
Level(m, t) ==
  IF ~m.ok \/ t \in DOMAIN m.tables THEN m
  ELSE IF m.free = {} THEN [m EXCEPT !.ok = FALSE]
  ELSE LET pa == kalloc(m.free)
       IN  [m EXCEPT !.free = @ \ {pa}, !.tables = @ @@ (t :> pa)]

(* walk(pagetable, va, 1).  What was allocated before a failure stays. *)
walk(m, va) ==
  IF va >= MAXPAGE THEN Panic(m)
  ELSE Level(Level(m, <<1, va \div (NPTE * NPTE)>>), <<0, va \div NPTE>>)

(* mappages() of one page, as all callers but kvmmap() use it. *)
mappages(m, va, pa, u, w) ==
  LET n == walk(m, va) IN
  IF ~n.ok \/ n.panic THEN n
  ELSE IF va \in DOMAIN n.leaf THEN Panic(n)             \* "mappages: remap"
  ELSE [n EXCEPT !.leaf = @ @@ (va :> [pa |-> pa, u |-> u, w |-> w])]

(* uvmunmap(); every page must be mapped. *)
uvmunmap(m, va, npages, do_free) ==
  LET S == va .. va + npages - 1 IN
  IF ~(S \subseteq DOMAIN m.leaf) THEN Panic(m)          \* "uvmunmap: not mapped"
  ELSE [m EXCEPT !.leaf = Without(@, S),
                 !.free = @ \cup (IF do_free THEN {m.leaf[a].pa : a \in S} ELSE {})]

(* uvmcreate(): the root, level 2. *)
uvmcreate(m) == Level(m, <<2, 0>>)

(* freewalk(): only page-table pages may be left. *)
freewalk(m) ==
  IF DOMAIN m.leaf # {} THEN Panic(m)                    \* "freewalk: leaf"
  ELSE [m EXCEPT !.free = @ \cup Values(m.tables), !.tables = <<>>]

uvmfree(m, sz) == freewalk(IF sz > 0 THEN uvmunmap(m, 0, PGROUNDUP(sz), TRUE) ELSE m)

uvmdealloc(m, oldsz, newsz) ==
  IF newsz < oldsz /\ PGROUNDUP(newsz) < PGROUNDUP(oldsz)
  THEN uvmunmap(m, PGROUNDUP(newsz), PGROUNDUP(oldsz) - PGROUNDUP(newsz), TRUE)
  ELSE m

(* kalloc() and mappages() of one user page: the body of the loops of       *)
(* uvmalloc() and uvmcopy().  If mappages() fails the page is given back.   *)
MapNew(m, va, u, w) ==
  IF m.free = {} THEN [m EXCEPT !.ok = FALSE]
  ELSE LET pa == kalloc(m.free)
           n == mappages([m EXCEPT !.free = @ \ {pa}], va, pa, u, w)
       IN  IF n.ok THEN n ELSE kfree(n, pa)

uvmclear(m, va) ==
  IF va \notin DOMAIN m.leaf THEN Panic(m) ELSE [m EXCEPT !.leaf[va].u = FALSE]

-----------------------------------------------------------------------------
(* proc_pagetable(): trampoline and trap frame, neither for user code. *)
proc_pagetable(m, tf) ==
  LET m1 == uvmcreate(m)
      m2 == mappages(m1, TRAMPOLINE, Trampoline, FALSE, FALSE)
      m3 == mappages(m2, TRAPFRAME, tf, FALSE, TRUE)
  IN  IF ~m1.ok THEN m1
      ELSE IF ~m2.ok THEN uvmfree(m2, 0)
      ELSE IF ~m3.ok THEN uvmfree(uvmunmap(m3, TRAMPOLINE, 1, FALSE), 0)
      ELSE m3

proc_freepagetable(m, sz) ==
  uvmfree(uvmunmap(uvmunmap(m, TRAMPOLINE, 1, FALSE), TRAPFRAME, 1, FALSE), sz)

-----------------------------------------------------------------------------
(* Copies between kernel and user memory go page by page and stop at the    *)
(* first page that will not do: in the page table, for user code (walkaddr) *)
(* and, to write, writable.                                                 *)
walkaddr(pt, va) == va < MAXPAGE /\ va \in DOMAIN pt.leaf /\ pt.leaf[va].u
Span(va, len) == va \div PGSIZE .. (va + len - 1) \div PGSIZE

copyout(pt, dstva, len) ==
  len = 0 \/ \A va \in Span(dstva, len) : walkaddr(pt, va) /\ pt.leaf[va].w
copyin(pt, srcva, len) ==
  len = 0 \/ \A va \in Span(srcva, len) : walkaddr(pt, va)

(* copyinstr() of a string of n bytes before its NUL. *)
copyinstr(pt, srcva, n, max) == n < max /\ copyin(pt, srcva, n + 1)
=============================================================================
