------------------------------- MODULE ProcMem -------------------------------
(***************************************************************************)
(* The memory of the processes: allocproc(), fork(), growproc(), exec()    *)
(* and freeproc() over the page tables of module Vm, for any number of     *)
(* processes competing for the free list.  A step is one kalloc() of a     *)
(* loop over pages with what follows it up to the next one, so another     *)
(* process can take or give back memory between two pages of a fork, an    *)
(* exec or an sbrk; no other state is shared.  User memory is not          *)
(* modelled beyond which pages exist and what may be done to them.         *)
(***************************************************************************)
EXTENDS Vm, Sequences, SequencesExt

CONSTANTS
  Proc,      \* the slots of proc[]
  Init0,     \* initproc's slot
  Deltas,    \* arguments of sbrk()
  Programs,  \* executables: sequences of segments (see IsSegment)
  Args,      \* argument vectors: sequences of string lengths
  MAXARG,    \* entries of an argument vector
  USERSTACK, \* pages of user stack
  ALIGN,     \* of the stack pointer, 16
  PTR,       \* sizeof(uint64)
  WORD,      \* addresses are modulo WORD, 2^64
  MaxCalls   \* bound on the number of system calls of a behaviour

IsSegment(s) ==
  s \in [vaddr : Nat, memsz : Nat, filesz : Nat, w : BOOLEAN, short : BOOLEAN]

ASSUME ProcMemAssumption ==
  /\ Init0 \in Proc /\ Deltas \subseteq Int
  /\ \A pr \in Programs : \A k \in 1 .. Len(pr) : IsSegment(pr[k])
  /\ Args \subseteq Seq(Nat) /\ {MAXARG, USERSTACK, ALIGN, PTR, WORD, MaxCalls} \subseteq Nat \ {0}

VARIABLES
  free,       \* kmem.freelist
  panicked,   \* some call reached panic()
  pagetable, sz, trapframe,  \* of struct proc; trapframe is 0 for none
  guard,      \* history: the page of the stack guard, -1 if none or if sbrk unmapped it
  call,       \* the system call each process is in, and its locals
  calls       \* the number of system calls made, for MaxCalls

vars == <<free, panicked, pagetable, sz, trapframe, guard, call, calls>>

NoProc == 0    \* no child
Idle(pc) == [pc |-> pc, new |-> NoTable, newsz |-> 0, a |-> 0, from |-> 0, goal |-> 0,
             w |-> TRUE, segs |-> <<>>, args |-> <<>>, argv |-> {}, child |-> NoProc]
Unused == Idle("unused")
User == Idle("user")

(* m is the outcome of the calls on page tables: the free list and panics. *)
Memory(m) == free' = m.free /\ panicked' = (panicked \/ m.panic)

(* The first process: allocproc() and uvmfirst() at boot. *)
Boot ==
  LET tf == kalloc(Page)
      m == proc_pagetable(On(Page \ {tf}, NoTable), tf)
  IN  MapNew(m, 0, TRUE, TRUE)

Init ==
  /\ free = Boot.free
  /\ panicked = ~Boot.ok
  /\ pagetable = [p \in Proc |-> IF p = Init0 THEN Table(Boot) ELSE NoTable]
  /\ sz = [p \in Proc |-> IF p = Init0 THEN PGSIZE ELSE 0]
  /\ trapframe = [p \in Proc |-> IF p = Init0 THEN kalloc(Page) ELSE 0]
  /\ guard = [p \in Proc |-> -1]
  /\ call = [p \in Proc |-> IF p = Init0 THEN User ELSE Unused]
  /\ calls = 0

-----------------------------------------------------------------------------
(* sbrk: growproc(n).  A shrink below zero wraps to a size above the old    *)
(* one, which uvmdealloc() ignores.                                         *)
sys_sbrk(p, n) ==
  LET new == (sz[p] + n + WORD) % WORD IN
  /\ call[p] = User
  /\ UNCHANGED trapframe
  /\ \/ /\ n > 0
        /\ call' = [call EXCEPT ![p] = [User EXCEPT !.pc = "grow", !.a = PGROUNDUP(sz[p]),
                                                    !.from = PGROUNDUP(sz[p]), !.goal = new]]
        /\ UNCHANGED <<free, panicked, pagetable, sz, guard>>
     \/ /\ n < 0
        /\ LET m == uvmdealloc(On(free, pagetable[p]), sz[p], new) IN
           /\ Memory(m)
           /\ pagetable' = [pagetable EXCEPT ![p] = Table(m)]
        /\ sz' = [sz EXCEPT ![p] = IF new < @ THEN new ELSE @]
        /\ guard' = [guard EXCEPT ![p] = IF PGROUNDUP(new) <= @ THEN -1 ELSE @]
        /\ UNCHANGED call

(* Faulty: does not give the pages mapped so far back. *)
uvmalloc_leak(p, m) == MapNew(m, call[p].a, TRUE, call[p].w)

(* One page of uvmalloc(); on failure its pages so far are given back. *)
uvmalloc(p, m) ==
  LET n == MapNew(m, call[p].a, TRUE, call[p].w) IN
  IF n.ok THEN n ELSE uvmdealloc(n, call[p].a * PGSIZE, call[p].from * PGSIZE)

(* The page to allocate is still below the new size. *)
More(p) == call[p].a * PGSIZE < call[p].goal

grow_page(p) ==
  LET m == uvmalloc(p, On(free, pagetable[p])) IN
  /\ call[p].pc = "grow" /\ More(p)
  /\ Memory(m)
  /\ pagetable' = [pagetable EXCEPT ![p] = Table(m)]
  /\ call' = [call EXCEPT ![p] = IF m.ok THEN [@ EXCEPT !.a = @ + 1] ELSE User]
  /\ UNCHANGED <<sz, trapframe, guard>>

grow_done(p) ==
  /\ call[p].pc = "grow" /\ ~More(p)
  /\ sz' = [sz EXCEPT ![p] = call[p].goal]
  /\ call' = [call EXCEPT ![p] = User]
  /\ UNCHANGED <<free, panicked, pagetable, trapframe, guard>>

-----------------------------------------------------------------------------
(* freeproc(c), given the page-table outcome so far. *)
freeproc(c, m) ==
  LET n == kfree(proc_freepagetable(m, sz[c]), trapframe[c]) IN
  /\ Memory(n)
  /\ pagetable' = [pagetable EXCEPT ![c] = NoTable]
  /\ sz' = [sz EXCEPT ![c] = 0]
  /\ trapframe' = [trapframe EXCEPT ![c] = 0]
  /\ guard' = [guard EXCEPT ![c] = -1]

(* allocproc() for p's fork().  Without memory for a trap frame, or for the *)
(* page table, the slot is as it was.                                       *)
allocproc(p, c) ==
  LET tf == kalloc(free)
      m == proc_pagetable(On(free \ {tf}, NoTable), tf)
  IN  /\ call[p] = User /\ call[c] = Unused
      /\ free # {}
      /\ IF m.ok
         THEN /\ Memory(m)
              /\ pagetable' = [pagetable EXCEPT ![c] = Table(m)]
              /\ trapframe' = [trapframe EXCEPT ![c] = tf]
              /\ call' = [call EXCEPT ![p] = [User EXCEPT !.pc = "copy", !.child = c],
                                      ![c] = Idle("embryo")]
         ELSE /\ Memory(kfree(m, tf))
              /\ UNCHANGED <<pagetable, trapframe, call>>
      /\ UNCHANGED <<sz, guard>>

(* Faulty: every page of the child is for user code. *)
PTE_FLAGS_user(pte) == [u |-> TRUE, w |-> pte.w]
PTE_FLAGS(pte) == [u |-> pte.u, w |-> pte.w]

(* One page of uvmcopy(); on failure fork() frees the child. *)
uvmcopy(p) ==
  LET c == call[p].child
      i == call[p].a
      flags == PTE_FLAGS(pagetable[p].leaf[i])
      m == MapNew(On(free, pagetable[c]), i, flags.u, flags.w)
  IN  /\ call[p].pc = "copy" /\ i * PGSIZE < sz[p]
      /\ \/ /\ m.ok
            /\ Memory(m)
            /\ pagetable' = [pagetable EXCEPT ![c] = Table(m)]
            /\ call' = [call EXCEPT ![p].a = i + 1]
            /\ UNCHANGED <<sz, trapframe, guard>>
         \/ /\ ~m.ok
            /\ freeproc(c, uvmunmap(m, 0, i, TRUE))
            /\ call' = [call EXCEPT ![p] = User, ![c] = Unused]

fork_done(p) ==
  LET c == call[p].child IN
  /\ call[p].pc = "copy" /\ ~(call[p].a * PGSIZE < sz[p])
  /\ sz' = [sz EXCEPT ![c] = sz[p]]
  /\ guard' = [guard EXCEPT ![c] = guard[p]]
  /\ call' = [call EXCEPT ![p] = User, ![c] = User]
  /\ UNCHANGED <<free, panicked, pagetable, trapframe>>

(* exit() keeps the memory; the parent's wait() calls freeproc(). *)
exit(p) ==
  /\ call[p] = User /\ p # Init0
  /\ call' = [call EXCEPT ![p] = Idle("zombie")]
  /\ UNCHANGED <<free, panicked, pagetable, sz, trapframe, guard>>

wait(c) ==
  /\ call[c].pc = "zombie"
  /\ freeproc(c, On(free, pagetable[c]))
  /\ call' = [call EXCEPT ![c] = Unused]

-----------------------------------------------------------------------------
fetchaddr(p, addr) == addr < sz[p] /\ addr + PTR <= sz[p] /\ copyin(pagetable[p], addr, PTR)
fetchstr(p, s, n) == copyinstr(pagetable[p], s, n, PGSIZE)

(* sys_exec(): the argument vector is at uargv, all its strings at s. *)
sys_exec(p, uargv, s, args, segs) ==
  /\ call[p] = User
  /\ call' = [call EXCEPT ![p] = [User EXCEPT !.pc = "args", !.from = uargv, !.goal = s,
                                              !.args = args, !.segs = segs]]
  /\ UNCHANGED <<free, panicked, pagetable, sz, trapframe, guard>>

(* sys_exec()'s bad: the pages taken so far are given back. *)
args_bad(p, f, argv) ==
  /\ free' = f \cup argv
  /\ call' = [call EXCEPT ![p] = User]

(* One entry of the argument vector: the end, or a page with its string. *)
exec_arg(p) ==
  LET c == call[p]
      i == c.a
      entry == i < MAXARG /\ fetchaddr(p, c.from + PTR * i)
      pa == kalloc(free)
  IN  /\ c.pc = "args"
      /\ \/ /\ ~entry \/ (i < Len(c.args) /\ free = {})
            /\ args_bad(p, free, c.argv)
         \/ /\ entry /\ i < Len(c.args) /\ free # {}
            /\ IF fetchstr(p, c.goal, c.args[i + 1])
               THEN /\ free' = free \ {pa}
                    /\ call' = [call EXCEPT ![p].a = i + 1, ![p].argv = @ \cup {pa}]
               ELSE args_bad(p, free \ {pa}, c.argv \cup {pa})
         \/ /\ entry /\ i = Len(c.args)
            /\ call' = [call EXCEPT ![p] = [c EXCEPT !.pc = "exec", !.a = 0, !.from = 0, !.goal = 0]]
            /\ UNCHANGED free
      /\ UNCHANGED <<panicked, pagetable, sz, trapframe, guard>>

(* exec()'s bad: the new page table goes, then sys_exec()'s arguments. *)
bad(p, m) ==
  LET n == IF m.tables = <<>> THEN m ELSE proc_freepagetable(m, call[p].newsz) IN
  /\ Memory([n EXCEPT !.free = @ \cup call[p].argv])
  /\ call' = [call EXCEPT ![p] = User]
  /\ UNCHANGED <<pagetable, sz, trapframe, guard>>

(* The file is there or not, and an executable or not; then a page table. *)
exec(p) ==
  LET m == proc_pagetable(On(free, NoTable), trapframe[p]) IN
  /\ call[p].pc = "exec"
  /\ \/ bad(p, On(free, NoTable))
     \/ /\ ~m.ok
        /\ bad(p, m)
     \/ /\ m.ok
        /\ Memory(m)
        /\ call' = [call EXCEPT ![p].pc = "header", ![p].new = Table(m)]
        /\ UNCHANGED <<pagetable, sz, trapframe, guard>>

(* The program headers: the next segment, or the stack after the last. *)
Header(p) == Head(call[p].segs)
BadHeader(h) == h.memsz < h.filesz \/ (h.vaddr + h.memsz) % WORD < h.vaddr \/ h.vaddr % PGSIZE # 0

(* uvmalloc(new, newsz, goal, w) begins: nothing to do for a goal below. *)
StartAlloc(p, pc, goal, w) ==
  call' = [call EXCEPT ![p] =
             [@ EXCEPT !.pc = pc, !.w = w, !.a = PGROUNDUP(call[p].newsz),
                       !.from = PGROUNDUP(call[p].newsz),
                       !.goal = IF goal < call[p].newsz THEN call[p].newsz ELSE goal]]

exec_header(p) ==
  LET h == Header(p) IN
  /\ call[p].pc = "header"
  /\ \/ /\ call[p].segs # <<>> /\ BadHeader(h)
        /\ bad(p, On(free, call[p].new))
     \/ /\ call[p].segs # <<>> /\ ~BadHeader(h)
        /\ StartAlloc(p, "load", h.vaddr + h.memsz, h.w)
        /\ UNCHANGED <<free, panicked, pagetable, sz, trapframe, guard>>
     \/ /\ call[p].segs = <<>>
        /\ LET base == PGROUNDUP(call[p].newsz) * PGSIZE IN
           StartAlloc(p, "stack", base + (USERSTACK + 1) * PGSIZE, TRUE)
        /\ UNCHANGED <<free, panicked, pagetable, sz, trapframe, guard>>

exec_page(p) ==
  LET m == uvmalloc(p, On(free, call[p].new)) IN
  /\ call[p].pc \in {"load", "stack"} /\ More(p)
  /\ \/ /\ m.ok
        /\ Memory(m)
        /\ call' = [call EXCEPT ![p].a = @ + 1, ![p].new = Table(m)]
        /\ UNCHANGED <<pagetable, sz, trapframe, guard>>
     \/ /\ ~m.ok
        /\ bad(p, m)

(* uvmalloc() returned: 0 for a segment that ends at 0.  loadseg() panics   *)
(* at a page that is not mapped, and stops when the file is too short.      *)
loadseg(p) ==
  LET h == Header(p)
      c == [call[p] EXCEPT !.newsz = call[p].goal]
      m == On(free, call[p].new)
      mapped == h.filesz = 0 \/ \A va \in Span(h.vaddr, h.filesz) : walkaddr(call[p].new, va)
  IN  /\ call[p].pc = "load" /\ ~More(p)
      /\ \/ /\ call[p].goal = 0 \/ h.short
            /\ LET f == proc_freepagetable(IF mapped THEN m ELSE Panic(m), c.goal) IN
               /\ Memory([f EXCEPT !.free = @ \cup call[p].argv])
               /\ call' = [call EXCEPT ![p] = User]
         \/ /\ ~(call[p].goal = 0 \/ h.short)
            /\ Memory(IF mapped THEN m ELSE Panic(m))
            /\ call' = [call EXCEPT ![p] = [c EXCEPT !.pc = "header", !.segs = Tail(@)]]
      /\ UNCHANGED <<pagetable, sz, trapframe, guard>>

(* The stack pointer after pushing n bytes. *)
Push(sp, n) == LET s == sp - n IN s - (s % ALIGN)

(* The stack pointers as the arguments and then their addresses are pushed. *)
Pushed(top, args) ==
  LET strings == FoldLeft(LAMBDA sps, n : Append(sps, Push(Last(sps), n + 1)), <<top>>, args)
  IN  Append(strings, Push(Last(strings), (Len(args) + 1) * PTR))

(* The guard page, the arguments, and the switch to the new image. *)
exec_commit(p) ==
  LET top == call[p].goal
      sps == Pushed(top, call[p].args)
      m == uvmclear(On(free, call[p].new), top \div PGSIZE - (USERSTACK + 1))
      fits == \A k \in 2 .. Len(sps) : /\ sps[k] >= top - USERSTACK * PGSIZE
                                       /\ copyout(Table(m), sps[k], sps[k - 1] - sps[k])
      old == proc_freepagetable([m EXCEPT !.tables = pagetable[p].tables,
                                          !.leaf = pagetable[p].leaf], sz[p])
  IN  /\ call[p].pc = "stack" /\ ~More(p)
      /\ \/ /\ fits
            /\ Memory([old EXCEPT !.free = @ \cup call[p].argv])
            /\ pagetable' = [pagetable EXCEPT ![p] = Table(m)]
            /\ sz' = [sz EXCEPT ![p] = top]
            /\ guard' = [guard EXCEPT ![p] = top \div PGSIZE - (USERSTACK + 1)]
            /\ call' = [call EXCEPT ![p] = User]
            /\ UNCHANGED trapframe
         \/ /\ ~fits
            /\ LET f == proc_freepagetable(m, top) IN
               Memory([f EXCEPT !.free = @ \cup call[p].argv])
            /\ call' = [call EXCEPT ![p] = User]
            /\ UNCHANGED <<pagetable, sz, trapframe, guard>>

Enter(p) ==
  \/ \E n \in Deltas : sys_sbrk(p, n)
  \/ \E c \in Proc : allocproc(p, c)
  \/ exit(p)
  \/ \E addr \in {0, sz[p] - 1, sz[p]}, args \in Args, segs \in Programs :
       sys_exec(p, addr, addr, args, segs)

Continue(p) ==
  \/ grow_page(p) \/ grow_done(p) \/ uvmcopy(p) \/ fork_done(p) \/ wait(p)
  \/ exec_arg(p) \/ exec(p) \/ exec_header(p) \/ exec_page(p) \/ loadseg(p) \/ exec_commit(p)

Next ==
  \E p \in Proc :
    \/ calls < MaxCalls /\ calls' = calls + 1 /\ Enter(p)
    \/ UNCHANGED calls /\ Continue(p)

Spec == Init /\ [][Next]_vars

-----------------------------------------------------------------------------
(* Properties.                                                             *)

Pages(pt) == Values(pt.tables) \cup {pt.leaf[va].pa : va \in DOMAIN pt.leaf \ {TRAPFRAME, TRAMPOLINE}}
Held(p) == {free, Pages(pagetable[p]), Pages(call[p].new), call[p].argv, {trapframe[p]} \ {0}}

(* Every page of memory is on the free list or in exactly one place of     *)
(* exactly one process: a page of a page table, a user page, a trap frame, *)
(* an argument of a pending exec.  Nothing is lost, freed twice or shared  *)
(* on any path, the failing ones included.                                 *)
PagesAccounted ==
  LET Count(pt) == Cardinality(DOMAIN pt.tables)
                   + Cardinality(DOMAIN pt.leaf \ {TRAPFRAME, TRAMPOLINE})
      Own(p) == Count(pagetable[p]) + Count(call[p].new) + Cardinality(call[p].argv)
                + (IF trapframe[p] = 0 THEN 0 ELSE 1)
      total == FoldSet(LAMBDA p, n : Own(p) + n, Cardinality(free), Proc)
  IN  /\ total = Cardinality(Page)
      /\ Page = UNION UNION {Held(p) : p \in Proc}

(* The memory of a process is what its size says: while it runs, exactly   *)
(* the pages up to sz, its own trap frame and the trampoline are mapped,   *)
(* user code may touch all below sz but the guard page under its stack,    *)
(* which forks inherit, and nothing above.  No call on the way meets a     *)
(* page that is not as it expects (remap, not mapped, leaf: panic).        *)
ImageExact ==
  /\ ~panicked
  /\ \A p \in Proc : call[p] = User =>
       LET leaf == pagetable[p].leaf
           user == 0 .. PGROUNDUP(sz[p]) - 1
       IN  /\ DOMAIN leaf = user \cup {TRAPFRAME, TRAMPOLINE}
           /\ \A va \in DOMAIN leaf : leaf[va].u = (va \in user \ {guard[p]})
           /\ leaf[TRAPFRAME].pa = trapframe[p]
=============================================================================
