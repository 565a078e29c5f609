----------------------------- MODULE VirtioDisk -----------------------------
(***************************************************************************)
(* kernel/virtio_disk.c: the disk driver, its three-descriptor chains, the *)
(* avail and used rings it shares with the device, and the completion      *)
(* interrupt.  The device (external) takes requests from the avail ring,   *)
(* finishes them in any order, and runs concurrently with everything.      *)
(*                                                                         *)
(* Each process uses its own buffer, named by the process, for a block no  *)
(* other process is using: the buffer cache sees to both.  Ring indices    *)
(* are uint16 in C and wrap at Wrap.                                       *)
(***************************************************************************)
EXTENDS Naturals, FiniteSets

CONSTANTS Proc, Block, Val, InitVal, None,
          NUM,      \* descriptors, and entries of each ring
          Wrap      \* range of the ring indices

VirtioDiskAssumption ==
  /\ NUM \in Nat /\ NUM >= 3 /\ Wrap \in Nat /\ Wrap >= NUM /\ Wrap % NUM = 0
  /\ InitVal \in Val

Desc == 0 .. NUM - 1

VARIABLES
  free, next, addr,         \* disk.free; desc[].next and the buffer of desc[].addr
  op,                       \* disk.ops: type and sector of a chain, by its head
  info, status,             \* disk.info[].b and .status (TRUE: 0, success)
  avail, avail_idx,         \* the avail ring
  used, dev_idx, used_idx,  \* the used ring, used->idx, and disk.used_idx
  busy,                     \* b->disk
  intr,                     \* virtio_disk_intr() holds vdisk_lock
  irq, fetched, inflight,   \* device: interrupt line, avail entries seen, chains taken
  disk, data,               \* contents of the disk and of the buffers
  pc, req, head,            \* per process: where it is, its request, idx[0]
  panicked

drv == <<free, next, addr, op, info, status, avail, avail_idx, used_idx, busy>>
dev == <<used, dev_idx, irq, fetched, inflight, disk, data>>
procs == <<pc, req, head>>
vars == <<free, next, addr, op, info, status, avail, avail_idx, used, dev_idx, used_idx, busy,
          intr, irq, fetched, inflight, disk, data, pc, req, head, panicked>>

NoReq == [write |-> FALSE, block |-> None]

(* virtio_disk_init() *)
Init ==
  /\ free = Desc /\ next = [d \in Desc |-> None] /\ addr = [d \in Desc |-> None]
  /\ op = [d \in Desc |-> NoReq]
  /\ info = [d \in Desc |-> None] /\ status = [d \in Desc |-> FALSE]
  /\ avail = [k \in Desc |-> 0] /\ avail_idx = 0
  /\ used = [k \in Desc |-> 0] /\ dev_idx = 0 /\ used_idx = 0
  /\ busy = [p \in Proc |-> FALSE] /\ intr = FALSE
  /\ irq = FALSE /\ fetched = 0 /\ inflight = {}
  /\ disk = [n \in Block |-> InitVal] /\ data = [p \in Proc |-> InitVal]
  /\ pc = [p \in Proc |-> "idle"] /\ req = [p \in Proc |-> NoReq] /\ head = [p \in Proc |-> None]
  /\ panicked = FALSE

Live == ~intr /\ ~panicked
Inc(x) == (x + 1) % Wrap
Least(S) == CHOOSE d \in S : \A c \in S : d <= c

(* Faulty: free_desc() without wakeup(). *)
WakeAlloc_silent(f) == f

(* wakeup(&disk.free[0]): everyone who waits for descriptors tries again. *)
WakeAlloc(f) == [p \in Proc |-> IF f[p] = "no_desc" THEN "alloc" ELSE f[p]]

-----------------------------------------------------------------------------
(* virtio_disk_rw() *)

(* The buffer cache calls it to read or write block n, with a buffer that   *)
(* holds v: what is to be written, or what a recycled buffer last held.     *)
call(p, n, v, write) ==
  /\ Live /\ pc[p] = "idle" /\ \A q \in Proc : req[q].block # n
  /\ req' = [req EXCEPT ![p] = [write |-> write, block |-> n]]
  /\ data' = [data EXCEPT ![p] = v]
  /\ pc' = [pc EXCEPT ![p] = "alloc"]
  /\ UNCHANGED <<drv, used, dev_idx, irq, fetched, inflight, disk, intr, head, panicked>>

(* alloc3_desc() fails: what it got it gives back with free_desc(), which   *)
(* wakes the others; then sleep(&disk.free[0]).                             *)
alloc_fail(p) ==
  /\ Live /\ pc[p] = "alloc" /\ Cardinality(free) < 3
  /\ pc' = [(IF free = {} THEN pc ELSE WakeAlloc(pc)) EXCEPT ![p] = "no_desc"]
  /\ UNCHANGED <<drv, dev, intr, req, head, panicked>>

(* Faulty: forgets b->disk = 1, so the loop around sleep(b) ends at once. *)
StartWait_unmarked(p) == pc' = [pc EXCEPT ![p] = "woken"] /\ UNCHANGED busy

(* b->disk = 1; ... sleep(b, &disk.vdisk_lock) *)
StartWait(p) == pc' = [pc EXCEPT ![p] = "io"] /\ busy' = [busy EXCEPT ![p] = TRUE]

(* alloc3_desc() succeeds: format the chain, put its head in the avail      *)
(* ring, notify the device, and sleep(b).                                   *)
submit(p) ==
  /\ Live /\ pc[p] = "alloc" /\ Cardinality(free) >= 3
  /\ LET d0 == Least(free)
         d1 == Least(free \ {d0})
         d2 == Least(free \ {d0, d1})
     IN /\ free' = free \ {d0, d1, d2}
        /\ next' = [next EXCEPT ![d0] = d1, ![d1] = d2, ![d2] = None]
        /\ addr' = [addr EXCEPT ![d1] = p]
        /\ op' = [op EXCEPT ![d0] = req[p]]
        /\ status' = [status EXCEPT ![d0] = FALSE]
        /\ info' = [info EXCEPT ![d0] = p]
        /\ avail' = [avail EXCEPT ![avail_idx % NUM] = d0]
        /\ head' = [head EXCEPT ![p] = d0]
  /\ avail_idx' = Inc(avail_idx)
  /\ StartWait(p)
  /\ UNCHANGED <<dev, used_idx, intr, req, panicked>>

(* free_chain(i): the descriptors reached from i through next. *)
Chain(i) == {i, next[i], next[next[i]]}

(* Woken, b->disk is 0: clear info, free_chain(), return.  The request and  *)
(* the status of a chain that is free are never read; they are cleared too. *)
finish(p) ==
  /\ Live /\ pc[p] = "woken" /\ ~busy[p]
  /\ IF Chain(head[p]) \cap free # {}
     THEN panicked' = TRUE /\ UNCHANGED <<drv, procs>>        \* "free_desc 2"
     ELSE /\ info' = [info EXCEPT ![head[p]] = None]
          /\ free' = free \cup Chain(head[p])
          /\ next' = [d \in Desc |-> IF d \in Chain(head[p]) THEN None ELSE next[d]]
          /\ addr' = [d \in Desc |-> IF d \in Chain(head[p]) THEN None ELSE addr[d]]
          /\ pc' = [WakeAlloc(pc) EXCEPT ![p] = "return"]
          /\ head' = [head EXCEPT ![p] = None]
          /\ op' = [op EXCEPT ![head[p]] = NoReq]
          /\ status' = [status EXCEPT ![head[p]] = FALSE]
          /\ UNCHANGED <<avail, avail_idx, used_idx, busy, req, panicked>>
  /\ UNCHANGED <<dev, intr>>

(* Back in the buffer cache, which forgets the buffer (call gives it a new   *)
(* content).                                                                *)
return(p) ==
  /\ ~panicked /\ pc[p] = "return"
  /\ pc' = [pc EXCEPT ![p] = "idle"]
  /\ req' = [req EXCEPT ![p] = NoReq]
  /\ data' = [data EXCEPT ![p] = InitVal]
  /\ UNCHANGED <<drv, used, dev_idx, irq, fetched, inflight, disk, intr, head, panicked>>

-----------------------------------------------------------------------------
(* The device *)

fetch ==
  /\ fetched # avail_idx
  /\ inflight' = inflight \cup {avail[fetched % NUM]}
  /\ fetched' = Inc(fetched)
  /\ UNCHANGED <<drv, used, dev_idx, irq, disk, data, intr, procs, panicked>>

(* It follows the chain from h, transfers, sets the status byte, adds h to  *)
(* the used ring and raises the interrupt.                                  *)
complete(h) ==
  /\ h \in inflight
  /\ LET b == addr[next[h]] IN
     IF op[h].write THEN disk' = [disk EXCEPT ![op[h].block] = data[b]] /\ UNCHANGED data
     ELSE data' = [data EXCEPT ![b] = disk[op[h].block]] /\ UNCHANGED disk
  /\ status' = [status EXCEPT ![h] = TRUE]
  /\ used' = [used EXCEPT ![dev_idx % NUM] = h]
  /\ dev_idx' = Inc(dev_idx)
  /\ irq' = TRUE
  /\ inflight' = inflight \ {h}
  /\ UNCHANGED <<free, next, addr, op, info, avail, avail_idx, used_idx, busy,
                 fetched, intr, procs, panicked>>

-----------------------------------------------------------------------------
(* virtio_disk_intr() *)

intr_ack ==
  /\ Live /\ irq
  /\ irq' = FALSE /\ intr' = TRUE
  /\ UNCHANGED <<drv, used, dev_idx, fetched, inflight, disk, data, procs, panicked>>

(* One round of the loop: an entry of the used ring. *)
intr_entry ==
  /\ intr /\ ~panicked /\ used_idx # dev_idx
  /\ LET id == used[used_idx % NUM]
         b == info[id]
     IN IF ~status[id] THEN panicked' = TRUE /\ UNCHANGED <<busy, pc, used_idx>>
        ELSE /\ busy' = [busy EXCEPT ![b] = FALSE]
             /\ pc' = [pc EXCEPT ![b] = "woken"]              \* wakeup(b)
             /\ used_idx' = Inc(used_idx)
             /\ UNCHANGED panicked
  /\ UNCHANGED <<free, next, addr, op, info, status, avail, avail_idx, dev, intr, req, head>>

intr_end ==
  /\ intr /\ ~panicked /\ used_idx = dev_idx
  /\ intr' = FALSE
  /\ UNCHANGED <<drv, dev, procs, panicked>>

virtio_disk_intr == intr_ack \/ intr_entry \/ intr_end

-----------------------------------------------------------------------------
virtio_disk_rw(p) == alloc_fail(p) \/ submit(p) \/ finish(p) \/ return(p)

Next ==
  \/ \E p \in Proc, n \in Block, v \in Val, wr \in BOOLEAN : call(p, n, v, wr)
  \/ \E p \in Proc : virtio_disk_rw(p)
  \/ fetch \/ \E h \in Desc : complete(h)
  \/ virtio_disk_intr

Spec == Init /\ [][Next]_vars

-----------------------------------------------------------------------------
(* Properties *)

(* When virtio_disk_rw() returns, this request and no other was carried out: *)
(* the buffer and the block on disk agree.                                  *)
Transferred == \A p \in Proc : pc[p] = "return" => data[p] = disk[req[p].block]

(* Some process is in virtio_disk_rw(); some request is done. *)
InUse == \E p \in Proc : pc[p] # "idle"
Finished == \E p \in Proc : pc[p] = "return"

-----------------------------------------------------------------------------
(* The state without the ring entries that were consumed. *)
Pending(ring, lo, hi) ==
  {<<k, ring[k % NUM]>> : k \in {i \in 0 .. Wrap - 1 : (i - lo) % Wrap < (hi - lo) % Wrap}}

View ==
  <<free, next, addr, op, info, status, avail_idx, fetched, Pending(avail, fetched, avail_idx),
    dev_idx, used_idx, Pending(used, used_idx, dev_idx), busy, intr, irq, inflight, disk, data,
    pc, req, head, panicked>>
=============================================================================
