---------------------------- MODULE BufferCache ----------------------------
(***************************************************************************)
(* kernel/bio.c: the buffer cache.  One step is one critical section of    *)
(* bcache.lock, one step of a buffer's sleep lock, or one disk transfer,   *)
(* so every window between them is open to the other processes: in         *)
(* particular the one in bget() between giving up bcache.lock and taking   *)
(* b->lock, and the one in brelse() between releasesleep() and the         *)
(* decrement of refcnt.                                                    *)
(*                                                                         *)
(* The callers' side of the contract: a caller that changed b->data writes *)
(* it (bwrite) or logs it (log_write, which pins the buffer unless it is   *)
(* logged already) before brelse(); only commit() unpins, after bwrite().  *)
(* writei() breaks it when either_copyin() fails: that is FileData's.      *)
(*                                                                         *)
(* A process has up to two buffers at a time: bmap() keeps the indirect    *)
(* block while balloc() reads others, write_log() and install_trans() the  *)
(* log block while they read the block it stands for.                      *)
(***************************************************************************)
EXTENDS Naturals, Sequences, FiniteSets

CONSTANTS Proc, Buf, Block, Val, InitVal, None,
          Outer,     \* the blocks that a process keeps while it reads another one
          MaxPins    \* blocks the log may have pinned at one time

(* What holds a buffer: a process with its first or its second one. *)
User == Proc \X {1, 2}
Other(p) == <<p[1], 3 - p[2]>>

BufferCacheAssumption ==
  /\ IsFiniteSet(Proc) /\ IsFiniteSet(Buf) /\ MaxPins \in Nat /\ Outer \subseteq Block
  /\ InitVal \in Val /\ None \notin User \cup Buf \cup Block

VARIABLES
  blockno, valid, refcnt, data,    \* struct buf, per buffer
  lru,                             \* the list from head.next to head.prev
  holder, asleep,                  \* the buffers' sleep locks
  disk,                            \* block contents on disk
  pc, want, b,                     \* per user: where it is, blockno, buffer
  pinned,                          \* blocks in the header of the log
  latest,                          \* history: last value stored in each block
  panicked

bufs  == <<blockno, valid, refcnt, data, lru>>
locks == <<holder, asleep>>
procs == <<pc, want, b>>
vars  == <<blockno, valid, refcnt, data, lru, holder, asleep, disk, pc, want, b,
           pinned, latest, panicked>>

SL == INSTANCE SleepLock WITH Proc <- User, Lock <- Buf

(* binit(): each buffer is pushed at the head; none caches a block yet. *)
Init ==
  /\ blockno = [x \in Buf |-> None] /\ valid = [x \in Buf |-> FALSE]
  /\ refcnt = [x \in Buf |-> 0] /\ data = [x \in Buf |-> InitVal]
  /\ lru \in {s \in [1 .. Cardinality(Buf) -> Buf] : \A x \in Buf : \E i \in DOMAIN s : s[i] = x}
  /\ SL!initsleeplock
  /\ disk = [n \in Block |-> InitVal] /\ latest = disk
  /\ pc = [p \in User |-> "idle"] /\ want = [p \in User |-> None] /\ b = [p \in User |-> None]
  /\ pinned = {} /\ panicked = FALSE

-----------------------------------------------------------------------------
Cached(n) == {x \in Buf : blockno[x] = n}
Unused == {i \in DOMAIN lru : refcnt[lru[i]] = 0}
Victim == lru[CHOOSE i \in Unused : \A j \in Unused : j <= i]

Got(p, n, x) ==
  /\ pc' = [pc EXCEPT ![p] = "bget"]
  /\ want' = [want EXCEPT ![p] = n]
  /\ b' = [b EXCEPT ![p] = x]

(* Faulty: does not count the reference. *)
bget_hit_uncounted(p, n) ==
  /\ ~panicked /\ pc[p] = "idle"
  /\ \E x \in Cached(n) : Got(p, n, x)
  /\ UNCHANGED <<bufs, locks, disk, pinned, latest, panicked>>

(* bget(), up to release(&bcache.lock): block n is cached. *)
bget_hit(p, n) ==
  /\ ~panicked /\ pc[p] = "idle"
  /\ \E x \in Cached(n) :
       /\ refcnt' = [refcnt EXCEPT ![x] = @ + 1]
       /\ Got(p, n, x)
  /\ UNCHANGED <<blockno, valid, data, lru, locks, disk, pinned, latest, panicked>>

(* bget(): recycle the least recently used buffer nobody refers to. *)
bget_miss(p, n) ==
  /\ ~panicked /\ pc[p] = "idle" /\ Cached(n) = {}
  /\ IF Unused = {}
     THEN /\ panicked' = TRUE     \* "bget: no buffers"
          /\ UNCHANGED <<blockno, valid, refcnt, procs>>
     ELSE /\ blockno' = [blockno EXCEPT ![Victim] = n]
          /\ valid' = [valid EXCEPT ![Victim] = FALSE]
          /\ refcnt' = [refcnt EXCEPT ![Victim] = 1]
          /\ Got(p, n, Victim)
          /\ UNCHANGED panicked
  /\ UNCHANGED <<data, lru, locks, disk, pinned, latest>>

(* Faulty: does not look at b->valid. *)
bget_lock_trusting(p) ==
  /\ ~panicked /\ pc[p] = "bget"
  /\ \/ SL!acquiresleep(p, b[p]) /\ pc' = [pc EXCEPT ![p] = "have"]
     \/ SL!acquiresleep_sleep(p, b[p]) /\ UNCHANGED pc
  /\ UNCHANGED <<bufs, disk, want, b, pinned, latest, panicked>>

(* bget(): acquiresleep(&b->lock), then bread() looks at b->valid. *)
bget_lock(p) ==
  /\ ~panicked /\ pc[p] = "bget"
  /\ \/ /\ SL!acquiresleep(p, b[p])
        /\ pc' = [pc EXCEPT ![p] = IF valid[b[p]] THEN "have" ELSE "read"]
     \/ SL!acquiresleep_sleep(p, b[p]) /\ UNCHANGED pc
  /\ UNCHANGED <<bufs, disk, want, b, pinned, latest, panicked>>

(* bread(): virtio_disk_rw(b, 0) has completed; b->valid = 1. *)
bread(p) ==
  /\ ~panicked /\ pc[p] = "read"
  /\ data' = [data EXCEPT ![b[p]] = disk[blockno[b[p]]]]
  /\ valid' = [valid EXCEPT ![b[p]] = TRUE]
  /\ pc' = [pc EXCEPT ![p] = "have"]
  /\ UNCHANGED <<blockno, refcnt, lru, locks, disk, want, b, pinned, latest, panicked>>

(* A caller stores into b->data. *)
Modify(p, v) ==
  /\ ~panicked /\ pc[p] \in {"have", "dirty"}
  /\ data' = [data EXCEPT ![b[p]] = v]
  /\ latest' = [latest EXCEPT ![want[p]] = v]
  /\ pc' = [pc EXCEPT ![p] = "dirty"]
  /\ UNCHANGED <<blockno, valid, refcnt, lru, locks, disk, want, b, pinned, panicked>>

(* bwrite(): panics unless holdingsleep(). *)
bwrite(p) ==
  /\ ~panicked /\ pc[p] \in {"have", "dirty"}
  /\ IF SL!holdingsleep(p, b[p])
     THEN /\ disk' = [disk EXCEPT ![blockno[b[p]]] = data[b[p]]]
          /\ pc' = [pc EXCEPT ![p] = "written"]
          /\ UNCHANGED panicked
     ELSE panicked' = TRUE /\ UNCHANGED <<disk, pc>>
  /\ UNCHANGED <<bufs, locks, want, b, pinned, latest>>

(* log_write() of a changed buffer: bpin() unless the block is logged. *)
bpin(p) ==
  /\ ~panicked /\ pc[p] = "dirty"
  /\ \/ want[p] \in pinned /\ UNCHANGED <<refcnt, pinned>>
     \/ /\ want[p] \notin pinned /\ Cardinality(pinned) < MaxPins
        /\ refcnt' = [refcnt EXCEPT ![b[p]] = @ + 1]
        /\ pinned' = pinned \cup {want[p]}
  /\ pc' = [pc EXCEPT ![p] = "have"]
  /\ UNCHANGED <<blockno, valid, data, lru, locks, disk, want, b, latest, panicked>>

(* install_trans(0): the block is on disk, bunpin() drops the log's claim. *)
bunpin(p) ==
  /\ ~panicked /\ pc[p] = "written" /\ want[p] \in pinned
  /\ refcnt' = [refcnt EXCEPT ![b[p]] = @ - 1]
  /\ pinned' = pinned \ {want[p]}
  /\ pc' = [pc EXCEPT ![p] = "have"]
  /\ UNCHANGED <<blockno, valid, data, lru, locks, disk, want, b, latest, panicked>>

(* brelse(), its first half: releasesleep(&b->lock). *)
brelse(p) ==
  /\ ~panicked /\ pc[p] \in {"have", "written"}
  /\ IF SL!holdingsleep(p, b[p])
     THEN SL!releasesleep(b[p]) /\ pc' = [pc EXCEPT ![p] = "brelse"] /\ UNCHANGED panicked
     ELSE panicked' = TRUE /\ UNCHANGED <<locks, pc>>
  /\ UNCHANGED <<bufs, disk, want, b, pinned, latest>>

(* The list with x unlinked and put behind the head. *)
ToFront(x) ==
  LET i == CHOOSE k \in DOMAIN lru : lru[k] = x
  IN [k \in DOMAIN lru |-> IF k = 1 THEN x ELSE IF k <= i THEN lru[k - 1] ELSE lru[k]]

(* brelse(), inside bcache.lock: an unused buffer becomes most recent. *)
brelse_put(p) ==
  /\ ~panicked /\ pc[p] = "brelse"
  /\ refcnt' = [refcnt EXCEPT ![b[p]] = @ - 1]
  /\ lru' = IF refcnt[b[p]] = 1 THEN ToFront(b[p]) ELSE lru
  /\ pc' = [pc EXCEPT ![p] = "idle"]
  /\ want' = [want EXCEPT ![p] = None]
  /\ b' = [b EXCEPT ![p] = None]
  /\ UNCHANGED <<blockno, valid, data, locks, disk, pinned, latest, panicked>>

-----------------------------------------------------------------------------
(* A process makes one call at a time, and reads a second block only while  *)
(* it has one of those that it keeps for that; the second one is never such *)
(* a block, so no two processes wait for each other's.                      *)
Free(p) == pc[Other(p)] \notin {"bget", "read", "brelse"}
MayGet(p, n) ==
  IF p[2] = 1 THEN pc[Other(p)] = "idle"
  ELSE pc[Other(p)] # "idle" /\ want[Other(p)] \in Outer /\ n \notin Outer

Get(p) == \E n \in Block : MayGet(p, n) /\ (bget_hit(p, n) \/ bget_miss(p, n))
Use(p) == (\E v \in Val : Modify(p, v)) \/ bwrite(p) \/ bpin(p) \/ bunpin(p)
Put(p) == brelse(p) \/ brelse_put(p)

(* panic() does not return. *)
Halted == panicked /\ UNCHANGED vars

Next ==
  \/ \E p \in User : Free(p) /\ (Get(p) \/ bget_lock(p) \/ bread(p) \/ Use(p) \/ Put(p))
  \/ Halted

Spec == Init /\ [][Next]_vars

-----------------------------------------------------------------------------
(* Properties *)

(* refcnt counts the users between bget() and brelse() and the log's pin,   *)
(* no more (the buffer would never be reused) and no less.  The only panic  *)
(* is bget()'s, and it means what it says: every buffer is in use.          *)
RefcntExact ==
  /\ \A x \in Buf :
       refcnt[x] = Cardinality({p \in User : b[p] = x})
                   + Cardinality({n \in pinned : blockno[x] = n})
  /\ panicked => \A x \in Buf : refcnt[x] > 0

(* A process that has the block sees the last value any process stored in   *)
(* it, though the buffer may have been recycled and read again since.       *)
SeesLatest == \A p \in User : pc[p] \in {"have", "dirty", "written"} => data[b[p]] = latest[want[p]]

(* acquiresleep() sleeps on a buffer's lock only while another process holds *)
(* it, whose releasesleep() will wake the sleeper.                          *)
SleeperHasHolder == SL!SleeperHasHolder

=============================================================================
