------------------------------- MODULE Umalloc -------------------------------
(***************************************************************************)
(* user/umalloc.c: malloc() and free() on the circular list of free blocks *)
(* in the heap, in units of a Header.  Address 0 stands for the static     *)
(* block base, which lies below the heap; the heap is 2 .. brk.            *)
(***************************************************************************)
EXTENDS Integers, FiniteSets, Sequences

CONSTANTS
  NU,      \* units morecore() asks for at least (4096)
  HEAP,    \* units sbrk() can give in all
  Sizes    \* units that are asked for, the header included

UmallocAssumption ==
  /\ NU \in Nat \ {0} /\ HEAP \in Nat
  /\ Sizes \subseteq 2 .. HEAP

base == 0
HeapStart == 2
Addr == {base} \cup HeapStart .. HeapStart + HEAP - 1
Null == -1

VARIABLES
  ptr, size,   \* the fields of the headers
  freep,       \* the list's starting point, Null before the first malloc
  brk,         \* first address behind the heap
  live         \* history variable: blocks the program owns, address to units

vars == <<ptr, size, freep, brk, live>>

Init ==
  /\ ptr = [a \in Addr |-> base]
  /\ size = [a \in Addr |-> 0]
  /\ freep = Null
  /\ brk = HeapStart
  /\ live = << >>

(* The list as the code walks it, from a block to the next. *)
RECURSIVE Walk(_, _, _)
Walk(next, a, Stop) == IF a \in Stop THEN a ELSE Walk(next, next[a], Stop)

(* The free blocks that bp can come right behind: the one below it in the  *)
(* order of addresses, or the last one when bp is above or below them all. *)
Behind(h, bp) ==
  {a \in Addr : \/ bp > a /\ bp < h.ptr[a]
                \/ a >= h.ptr[a] /\ (bp > a \/ bp < h.ptr[a])}

(* Heap states that the functions pass on: the headers and freep. *)
Heap == [ptr |-> ptr, size |-> size, freep |-> freep]

(* Faulty: bp is not joined to the block above it. *)
free_upper(h, bp) ==
  LET p == Walk(h.ptr, h.freep, Behind(h, bp))
      q == h.ptr[p]
      lower == p + h.size[p] = bp
  IN  [ptr   |-> [h.ptr EXCEPT ![p] = IF lower THEN q ELSE bp, ![bp] = q],
       size  |-> [h.size EXCEPT ![p] = IF lower THEN @ + h.size[bp] ELSE @],
       freep |-> p]

(* free(): p is the free block that bp belongs behind; bp is joined to the *)
(* block above it and p to bp where they touch.                            *)
free(h, bp) ==
  LET p == Walk(h.ptr, h.freep, Behind(h, bp))
      q == h.ptr[p]
      upper == bp + h.size[bp] = q
      lower == p + h.size[p] = bp
      bsize == h.size[bp] + IF upper THEN h.size[q] ELSE 0
      bptr  == IF upper THEN h.ptr[q] ELSE q
  IN  [ptr   |-> [h.ptr EXCEPT ![bp] = bptr, ![p] = IF lower THEN bptr ELSE bp],
       size  |-> [h.size EXCEPT ![bp] = bsize, ![p] = IF lower THEN @ + bsize ELSE @],
       freep |-> p]

(* morecore(): the new block goes to the list through free(). *)
More(nu) == IF nu < NU THEN NU ELSE nu
morecore(h, nu) == free([h EXCEPT !.size[brk] = More(nu)], brk)

(* The block of malloc()'s search: the first that is large enough, from    *)
(* the one behind freep round to freep; Null when there is none.           *)
First(h, nunits) ==
  LET prev == Walk(h.ptr, h.freep,
                {a \in Addr : h.size[h.ptr[a]] >= nunits \/ h.ptr[a] = h.freep})
  IN  IF h.size[h.ptr[prev]] >= nunits THEN prev ELSE Null

(* The block is unlinked, or its tail is cut off. *)
Take(h, prev, nunits) ==
  LET a == h.ptr[prev]
      rest == h.size[a] - nunits
  IN  IF rest = 0
      THEN [h |-> [h EXCEPT !.ptr[prev] = h.ptr[a], !.freep = prev], at |-> a]
      ELSE [h |-> [h EXCEPT !.size[a] = rest, !.size[a + rest] = nunits, !.freep = prev],
            at |-> a + rest]

(* The blocks on the list that starts at a. *)
RECURSIVE Listed(_, _, _)
Listed(next, a, seen) ==
  IF a \in seen THEN seen ELSE Listed(next, next[a], seen \cup {a})

(* The new headers.  What lies inside a block, or in the link of a block   *)
(* the program owns, is never read again and is cleared.                   *)
Become(h) ==
  LET list == Listed(h.ptr, h.freep, {})
  IN  /\ ptr' = [a \in Addr |-> IF a \in list THEN h.ptr[a] ELSE base]
      /\ size' = [a \in Addr |-> IF a \in list \cup DOMAIN live' THEN h.size[a] ELSE 0]
      /\ freep' = h.freep

malloc(nunits) ==
  LET h0   == IF freep = Null
              THEN [ptr |-> [ptr EXCEPT ![base] = base], size |-> [size EXCEPT ![base] = 0],
                    freep |-> base]
              ELSE Heap
      grow == First(h0, nunits) = Null
      h1   == IF grow THEN morecore(h0, nunits) ELSE h0
  IN  IF grow /\ brk + More(nunits) > HeapStart + HEAP
      THEN UNCHANGED <<brk, live>> /\ Become(h0)
      ELSE LET got == Take(h1, First(h1, nunits), nunits)
           IN  /\ brk' = IF grow THEN brk + More(nunits) ELSE brk
               /\ live' = [a \in DOMAIN live \cup {got.at} |->
                             IF a = got.at THEN nunits ELSE live[a]]
               /\ Become(got.h)

Free(a) ==
  /\ a \in DOMAIN live
  /\ live' = [b \in DOMAIN live \ {a} |-> live[b]]
  /\ Become(free(Heap, a))
  /\ UNCHANGED brk

Next == (\E n \in Sizes : malloc(n)) \/ (\E a \in Addr : Free(a))

Spec == Init /\ [][Next]_vars

-----------------------------------------------------------------------------
(* After any calls of malloc and free every unit of the heap belongs to    *)
(* exactly one block, live or free; a live block still has the size it was *)
(* asked for, and no two free blocks touch, so that memory given back can  *)
(* serve a larger request (user/umalloc.c:24-90).                          *)
HeapTiled ==
  freep # Null =>
    LET freeblocks == Listed(ptr, freep, {}) \ {base}
        blocks     == freeblocks \cup DOMAIN live
        Units(a)   == a .. a + size[a] - 1
    IN  /\ base \in Listed(ptr, freep, {})
        /\ \A a \in DOMAIN live : size[a] = live[a] /\ a \notin freeblocks
        /\ UNION {Units(a) : a \in blocks} = HeapStart .. brk - 1
        /\ \A a, b \in blocks : a # b => Units(a) \cap Units(b) = {}
        /\ \A a, b \in freeblocks : a + size[a] # b
=============================================================================
