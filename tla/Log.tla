-------------------------------- MODULE Log --------------------------------
(***************************************************************************)
(* kernel/log.c: the write-ahead redo log, with group commit, recovery and *)
(* the part of the buffer cache it leans on (pinned buffers stay cached).  *)
(*                                                                         *)
(* One step is one critical section of log.lock, or one disk write.  A     *)
(* crash may hit between any two steps; a crash in the middle of the write *)
(* of a data block leaves that block Torn.  The header block is written    *)
(* atomically: struct logheader is 124 bytes, inside one 512-byte sector.  *)
(***************************************************************************)
EXTENDS Naturals, Sequences, FiniteSets

CONSTANTS
  Proc,         \* processes that make file-system calls
  Block,        \* home blocks of the file system
  Val,          \* contents of a block
  InitVal,      \* the contents mkfs leaves
  Torn,         \* contents of a block whose write a crash interrupted
  NoBuf,        \* no buffer: the block is not cached, the process holds none
  MAXOPBLOCKS,  \* blocks begin_op() reserves for one call
  LOGSIZE,      \* blocks begin_op() hands out
  LogSize,      \* log.size, sb->nlog: log blocks on disk, header included
  OpBlocks      \* distinct blocks a file-system call really writes

ASSUME LogAssumption ==
  /\ IsFiniteSet(Proc) /\ InitVal \in Val
  /\ Torn \notin Val /\ NoBuf \notin Val \cup {Torn} \cup Block
  /\ MAXOPBLOCKS \in Nat /\ LOGSIZE \in Nat /\ LogSize \in Nat \ {0} /\ OpBlocks \in Nat

VARIABLES
  home, dlog, dhead,              \* on disk: file system, log blocks, log header
  lh, outstanding, committing,    \* struct log; lh is block[0..n-1]
  cache, pins,                    \* valid buffers, and the references log_write() took
  pc, blk, wrote, tail,           \* per process: where it is, buffer it has locked,
                                  \* blocks its call wrote, index in write_log/install_trans
  boot, rtail,                    \* initlog() at boot, and its install_trans() index
  panicked                        \* the message of a panic(), or "none"

disk  == <<home, dlog, dhead>>
logvars == <<lh, outstanding, committing>>
bufs  == <<cache, pins>>
procs == <<pc, blk, wrote, tail>>
vars  == <<home, dlog, dhead, lh, outstanding, committing, cache, pins,
           pc, blk, wrote, tail, boot, rtail, panicked>>

Content == Val \cup {Torn}
Slot == 1 .. (LogSize - 1)    \* log data blocks: log.start + 1 ...

(* What bread(b) returns: the cached buffer, else the block on disk. *)
bread(b) == IF cache[b] = NoBuf THEN home[b] ELSE cache[b]

Running == boot = "up" /\ panicked = "none"

Locked(b) == \E p \in Proc : blk[p] = b

(* wakeup(&log): every sleeper goes round the loop of begin_op() again. *)
wakeup(f) == [p \in Proc |-> IF f[p] = "sleep" THEN "begin" ELSE f[p]]

-----------------------------------------------------------------------------
(* mkfs leaves an empty log; the machine has booted and recovered nothing.  *)
Init ==
  /\ home = [b \in Block |-> InitVal]
  /\ dlog = [i \in Slot |-> InitVal]
  /\ dhead = <<>>
  /\ lh = <<>> /\ outstanding = 0 /\ committing = FALSE
  /\ cache = [b \in Block |-> NoBuf]
  /\ pins = [b \in Block |-> 0]
  /\ pc = [p \in Proc |-> "begin"]
  /\ blk = [p \in Proc |-> NoBuf]
  /\ wrote = [p \in Proc |-> {}]
  /\ tail = [p \in Proc |-> 0]
  /\ boot = "read_head" /\ rtail = 0
  /\ panicked = "none"

-----------------------------------------------------------------------------
(* The buffer cache, as the log sees it. *)

(* A reader caches block b; sys_read() and friends need no transaction. *)
Load(b) ==
  /\ Running
  /\ cache[b] = NoBuf
  /\ cache' = [cache EXCEPT ![b] = home[b]]
  /\ UNCHANGED <<disk, logvars, pins, procs, boot, rtail, panicked>>

(* bget() recycles b's buffer: nobody holds it and the log did not pin it. *)
Evict(b) ==
  /\ Running
  /\ cache[b] # NoBuf /\ pins[b] = 0 /\ ~Locked(b)
  /\ cache' = [cache EXCEPT ![b] = NoBuf]
  /\ UNCHANGED <<disk, logvars, pins, procs, boot, rtail, panicked>>

-----------------------------------------------------------------------------
(* begin_op() *)

(* Faulty: does not wait for a commit in progress. *)
NoRoom_in_commit == Len(lh) + (outstanding + 1) * MAXOPBLOCKS > LOGSIZE

(* Faulty: forgets the space of the call that begins. *)
NoRoom_off_by_one == committing \/ Len(lh) + outstanding * MAXOPBLOCKS > LOGSIZE

NoRoom == committing \/ Len(lh) + (outstanding + 1) * MAXOPBLOCKS > LOGSIZE

begin_op_sleep(p) ==
  /\ Running
  /\ pc[p] = "begin" /\ NoRoom
  /\ pc' = [pc EXCEPT ![p] = "sleep"]
  /\ UNCHANGED <<disk, logvars, bufs, blk, wrote, tail, boot, rtail, panicked>>

begin_op(p) ==
  /\ Running
  /\ pc[p] = "begin" /\ ~NoRoom
  /\ outstanding' = outstanding + 1
  /\ pc' = [pc EXCEPT ![p] = "op"]
  /\ UNCHANGED <<disk, lh, committing, bufs, blk, wrote, tail, boot, rtail, panicked>>

(* The body of a call: bp = bread(b); modify bp->data.  A call writes at    *)
(* most OpBlocks distinct blocks.                                           *)
Modify(p, b, v) ==
  /\ Running
  /\ pc[p] = "op" /\ ~Locked(b)
  /\ Cardinality(wrote[p] \cup {b}) <= OpBlocks
  /\ cache' = [cache EXCEPT ![b] = v]
  /\ blk' = [blk EXCEPT ![p] = b]
  /\ pc' = [pc EXCEPT ![p] = "buf"]
  /\ UNCHANGED <<disk, logvars, pins, wrote, tail, boot, rtail, panicked>>

(* log_write(bp); brelse(bp) *)
Panics(msg) ==
  /\ panicked' = msg
  /\ UNCHANGED <<disk, logvars, bufs, procs, boot, rtail>>

TooBig == Len(lh) >= LOGSIZE \/ Len(lh) >= LogSize - 1

Logged(b) == \E i \in 1 .. Len(lh) : lh[i] = b

log_write(p) ==
  /\ Running
  /\ pc[p] = "buf"
  /\ IF TooBig THEN Panics("too big a transaction")
     ELSE IF outstanding < 1 THEN Panics("log_write outside of trans")
     ELSE LET b == blk[p] IN
          /\ IF Logged(b) THEN UNCHANGED <<lh, pins>>        \* log absorption
             ELSE /\ lh' = Append(lh, b)
                  /\ pins' = [pins EXCEPT ![b] = @ + 1]
          /\ wrote' = [wrote EXCEPT ![p] = @ \cup {b}]
          /\ blk' = [blk EXCEPT ![p] = NoBuf]
          /\ pc' = [pc EXCEPT ![p] = "op"]
          /\ UNCHANGED <<disk, outstanding, committing, cache, tail, boot, rtail, panicked>>

-----------------------------------------------------------------------------
(* end_op() and commit() *)

end_op(p) ==
  /\ Running
  /\ pc[p] = "op"
  /\ outstanding' = outstanding - 1
  /\ IF committing
     THEN /\ panicked' = "log.committing"
          /\ UNCHANGED <<committing, pc, wrote>>
     ELSE /\ IF outstanding' = 0
             THEN /\ committing' = TRUE
                  /\ pc' = [pc EXCEPT ![p] = IF lh = <<>> THEN "done" ELSE "write_log"]
             ELSE /\ pc' = wakeup([pc EXCEPT ![p] = "begin"])
                  /\ UNCHANGED committing
          /\ wrote' = [wrote EXCEPT ![p] = {}]
          /\ UNCHANGED panicked
  /\ UNCHANGED <<disk, lh, bufs, blk, tail, boot, rtail>>

(* One round of the loop of write_log(): copy a cached block to the log. *)
write_log(p) ==
  /\ Running
  /\ pc[p] = "write_log"
  /\ LET i == tail[p] + 1
         b == lh[i]
     IN /\ dlog' = [dlog EXCEPT ![i] = bread(b)]
        /\ cache' = [cache EXCEPT ![b] = bread(b)]
        /\ tail' = [tail EXCEPT ![p] = IF i = Len(lh) THEN 0 ELSE i]
        /\ pc' = [pc EXCEPT ![p] = IF i = Len(lh) THEN "write_head" ELSE @]
  /\ UNCHANGED <<home, dhead, logvars, pins, blk, wrote, boot, rtail, panicked>>

(* Faulty: installs before the header is on disk. *)
write_head_skipped(p) ==
  /\ Running
  /\ pc[p] = "write_head"
  /\ pc' = [pc EXCEPT ![p] = "install"]
  /\ UNCHANGED <<disk, logvars, bufs, blk, wrote, tail, boot, rtail, panicked>>

(* The first write_head() of commit(). *)
write_head(p) ==
  /\ Running
  /\ pc[p] = "write_head"
  /\ dhead' = lh
  /\ pc' = [pc EXCEPT ![p] = "install"]
  /\ UNCHANGED <<home, dlog, logvars, bufs, blk, wrote, tail, boot, rtail, panicked>>

(* Faulty: forgets bunpin(). *)
install_trans_pinned(p) ==
  /\ Running
  /\ pc[p] = "install"
  /\ LET i == tail[p] + 1
     IN /\ home' = [home EXCEPT ![lh[i]] = dlog[i]]
        /\ tail' = [tail EXCEPT ![p] = IF i = Len(lh) THEN 0 ELSE i]
        /\ pc' = [pc EXCEPT ![p] = IF i = Len(lh) THEN "clear" ELSE @]
  /\ UNCHANGED <<dlog, dhead, logvars, bufs, blk, wrote, boot, rtail, panicked>>

(* One round of install_trans(0): log block to home block, then bunpin. *)
install_trans(p) ==
  /\ Running
  /\ pc[p] = "install"
  /\ LET i == tail[p] + 1
         b == lh[i]
     IN /\ home' = [home EXCEPT ![b] = dlog[i]]
        /\ cache' = [cache EXCEPT ![b] = dlog[i]]
        /\ pins' = [pins EXCEPT ![b] = @ - 1]
        /\ tail' = [tail EXCEPT ![p] = IF i = Len(lh) THEN 0 ELSE i]
        /\ pc' = [pc EXCEPT ![p] = IF i = Len(lh) THEN "clear" ELSE @]
  /\ UNCHANGED <<dlog, dhead, logvars, blk, wrote, boot, rtail, panicked>>

(* log.lh.n = 0; write_head(): the transaction is erased from the log. *)
clear_head(p) ==
  /\ Running
  /\ pc[p] = "clear"
  /\ lh' = <<>>
  /\ dhead' = <<>>
  /\ pc' = [pc EXCEPT ![p] = "done"]
  /\ UNCHANGED <<home, dlog, outstanding, committing, bufs, blk, wrote, tail, boot, rtail, panicked>>

(* Faulty: no wakeup(&log). *)
commit_done_silent(p) ==
  /\ Running
  /\ pc[p] = "done"
  /\ committing' = FALSE
  /\ pc' = [pc EXCEPT ![p] = "begin"]
  /\ UNCHANGED <<disk, lh, outstanding, bufs, blk, wrote, tail, boot, rtail, panicked>>

(* The end of end_op(): log.committing = 0; wakeup(&log). *)
commit_done(p) ==
  /\ Running
  /\ pc[p] = "done"
  /\ committing' = FALSE
  /\ pc' = wakeup([pc EXCEPT ![p] = "begin"])
  /\ UNCHANGED <<disk, lh, outstanding, bufs, blk, wrote, tail, boot, rtail, panicked>>

-----------------------------------------------------------------------------
(* Crash, and recover_from_log() at the next boot. *)

(* The disk after power is lost: a data block being written may be torn. *)
Lost ==
  \/ UNCHANGED disk
  \/ \E p \in Proc :
       /\ Running /\ pc[p] = "write_log"
       /\ dlog' = [dlog EXCEPT ![tail[p] + 1] = Torn]
       /\ UNCHANGED <<home, dhead>>
  \/ \E p \in Proc :
       /\ Running /\ pc[p] = "install"
       /\ home' = [home EXCEPT ![lh[tail[p] + 1]] = Torn]
       /\ UNCHANGED <<dlog, dhead>>
  \/ /\ boot = "install"
     /\ home' = [home EXCEPT ![lh[rtail + 1]] = Torn]
     /\ UNCHANGED <<dlog, dhead>>

Crash ==
  /\ Lost
  /\ lh' = <<>> /\ outstanding' = 0 /\ committing' = FALSE
  /\ cache' = [b \in Block |-> NoBuf]
  /\ pins' = [b \in Block |-> 0]
  /\ pc' = [p \in Proc |-> "begin"]
  /\ blk' = [p \in Proc |-> NoBuf]
  /\ wrote' = [p \in Proc |-> {}]
  /\ tail' = [p \in Proc |-> 0]
  /\ boot' = "read_head" /\ rtail' = 0
  /\ panicked' = "none"

(* Faulty: the log is not replayed. *)
read_head_ignored ==
  /\ boot = "read_head"
  /\ boot' = "clear"
  /\ UNCHANGED <<disk, logvars, bufs, procs, rtail, panicked>>

read_head ==
  /\ boot = "read_head"
  /\ lh' = dhead
  /\ boot' = IF dhead = <<>> THEN "clear" ELSE "install"
  /\ UNCHANGED <<disk, outstanding, committing, bufs, procs, rtail, panicked>>

(* One round of install_trans(1): nothing was pinned, nothing is unpinned. *)
recover_install ==
  /\ boot = "install"
  /\ LET i == rtail + 1
         b == lh[i]
     IN /\ home' = [home EXCEPT ![b] = dlog[i]]
        /\ cache' = [cache EXCEPT ![b] = dlog[i]]
        /\ rtail' = IF i = Len(lh) THEN 0 ELSE i
        /\ boot' = IF i = Len(lh) THEN "clear" ELSE boot
  /\ UNCHANGED <<dlog, dhead, logvars, pins, procs, panicked>>

recover_clear ==
  /\ boot = "clear"
  /\ lh' = <<>>
  /\ dhead' = <<>>
  /\ boot' = "up"
  /\ UNCHANGED <<home, dlog, outstanding, committing, bufs, procs, rtail, panicked>>

-----------------------------------------------------------------------------
Recover == read_head \/ recover_install \/ recover_clear

Commit(p) == write_log(p) \/ write_head(p) \/ install_trans(p) \/ clear_head(p) \/ commit_done(p)

Call(p) ==
  \/ begin_op_sleep(p) \/ begin_op(p)
  \/ \E b \in Block, v \in Val : Modify(p, b, v)
  \/ log_write(p) \/ end_op(p)

Next ==
  \/ \E b \in Block : Load(b) \/ Evict(b)
  \/ \E p \in Proc : Call(p) \/ Commit(p)
  \/ Recover
  \/ Crash

Spec == Init /\ [][Next]_vars

(* A call makes finitely many writes and then calls end_op(); the scheduler *)
(* runs every runnable process, so no step that stays enabled waits forever. *)
Fairness ==
  /\ \A p \in Proc : SF_vars(end_op(p)) /\ WF_vars(log_write(p)) /\ WF_vars(Commit(p))
  /\ WF_vars(Recover)

FairSpec == Spec /\ Fairness

-----------------------------------------------------------------------------
(* Properties *)

PC == {"begin", "sleep", "op", "buf", "write_log", "write_head", "install", "clear", "done"}

(* The types of the variables of struct log, the disk and the processes. *)
TypeOK ==
  /\ home \in [Block -> Content]
  /\ dlog \in [Slot -> Content]
  /\ dhead \in Seq(Block) /\ lh \in Seq(Block)
  /\ outstanding \in Nat /\ committing \in BOOLEAN
  /\ cache \in [Block -> Content \cup {NoBuf}]
  /\ pins \in [Block -> Nat]
  /\ pc \in [Proc -> PC]
  /\ blk \in [Proc -> Block \cup {NoBuf}]
  /\ wrote \in [Proc -> SUBSET Block]
  /\ tail \in [Proc -> Nat] /\ rtail \in Nat
  /\ boot \in {"read_head", "install", "clear", "up"}
  /\ panicked \in {"none", "too big a transaction", "log_write outside of trans", "log.committing"}

InCall(p) == pc[p] \in {"op", "buf"}
InCommit(p) == pc[p] \in {"write_log", "write_head", "install", "clear", "done"}

(* "The logging system only commits when there are no FS system calls       *)
(* active" (log.c:13): while a process is in commit() no call is between    *)
(* begin_op() and end_op(), and no other process commits.                   *)
CommitAlone ==
  \A p, q \in Proc : InCommit(p) => ~InCall(q) /\ (InCommit(q) => p = q)

(* log_write() absorbs: the running transaction lists a block at most once, *)
(* or install_trans() would write and unpin it twice.                       *)
LoggedOnce == boot = "up" => \A i, j \in 1 .. Len(lh) : lh[i] = lh[j] => i = j

Installed(i) == \E p \in Proc : pc[p] = "clear" \/ (pc[p] = "install" /\ i <= tail[p])

(* bpin()/bunpin(): a block in the header of the running transaction keeps  *)
(* its buffer, which holds the only copy of what the calls wrote, until it  *)
(* is installed; afterwards nothing stays pinned.                           *)
PinnedUntilInstalled ==
  boot = "up" =>
    \A b \in Block :
      pins[b] = IF \E i \in 1 .. Len(lh) : lh[i] = b /\ ~Installed(i) THEN 1 ELSE 0

(* begin_op() reserves enough log space: log_write() and end_op() do not    *)
(* panic in the middle of a call.                                           *)
NoPanic == panicked = "none"

(* Write-ahead: a home block changes on disk only while the header on disk  *)
(* lists it, so a crash after the write can redo it.                        *)
WriteAhead ==
  [][\A b \in Block : home'[b] # home[b] => \E i \in 1 .. Len(dhead) : dhead[i] = b]_vars

(* What the next boot will recover, and what a call reads now. *)
Recovered ==
  [b \in Block |->
     IF \E i \in 1 .. Len(dhead) : dhead[i] = b
     THEN dlog[CHOOSE i \in 1 .. Len(dhead) : dhead[i] = b]
     ELSE home[b]]

Current == IF boot = "up" THEN [b \in Block |-> bread(b)] ELSE Recovered

Tx == INSTANCE TxDisk WITH durable <- Recovered, pending <- Current,
                           active <- {p \in Proc : InCall(p)}

(* Crash atomicity: through any crash, torn block write or crash during     *)
(* recovery, the disk behaves as one on which whole groups of calls become  *)
(* durable in one step (the write of the header) or not at all.             *)
CrashAtomic == Tx!Spec

(* Whoever sleeps in begin_op() is woken, by a commit or another end_op(). *)
SleeperWoken == \A p \in Proc : pc[p] = "sleep" ~> pc[p] # "sleep"
=============================================================================
