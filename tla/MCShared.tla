------------------------------ MODULE MCShared ------------------------------
(* The parts of the kernel whose processes only share state under its locks, *)
(* one in each behaviour: part says which one runs and v1 .. v22 are its    *)
(* variables.  The parts name what they permute by the same sets, so that   *)
(* one symmetry set serves them.  The parts that theorems are proved about  *)
(* are taken from the modules that hold the proofs.                         *)
EXTENDS Integers, Sequences, FiniteSets, TLC

CONSTANTS
  A, B, D,                \* processes; CPUs; blocks of the cache and the scheduler's processes
  D4, Sectors, W, w0,     \* the cache's outer blocks; buffers and the disk's blocks; values, the first one
  MaxPins, NUM, Wrap,     \* of the cache; of the disk
  init, MaxCond,          \* of the scheduler
  Letter, NL, CR, CtrlD, CtrlU, CtrlP, BS, INPUT_BUF_SIZE, WrapC, MaxN,  \* of the console
  None

VARIABLES part, v1, v2, v3, v4, v5, v6, v7, v8, v9, v10, v11, v12, v13, v14,
          v15, v16, v17, v18, v19, v20, v21, v22
From11 == <<v11, v12, v13, v14>>
From15 == <<v15, v16, v17, v18, v19, v20, v21, v22>>
vars == <<part, v1, v2, v3, v4, v5, v6, v7, v8, v9, v10, From11, From15>>

Cache == INSTANCE BufferCacheProofs WITH Proc <- A, Buf <- Sectors, Block <- D \cup D4, Outer <- D4,
           Val <- W, InitVal <- w0, blockno <- v1, valid <- v2, refcnt <- v3, data <- v4, lru <- v5,
           holder <- v6, asleep <- v7, disk <- v8, pc <- v9, want <- v10, b <- v11,
           pinned <- v12, latest <- v13, panicked <- v14

Disk == INSTANCE VirtioDiskProofs WITH Proc <- A, Block <- Sectors, Val <- W, InitVal <- w0,
          free <- v1, next <- v2, addr <- v3, op <- v4, info <- v5,
          status <- v6, avail <- v7, avail_idx <- v8, used <- v9, dev_idx <- v10,
          used_idx <- v11, busy <- v12, intr <- v13, irq <- v14, fetched <- v15,
          inflight <- v16, disk <- v17, data <- v18, pc <- v19, req <- v20, head <- v21,
          panicked <- v22

Cons == INSTANCE Console WITH Reader <- A, Plain <- {Letter}, Keys <- {Letter, CR, CtrlD, CtrlU, CtrlP, BS},
          Modes <- BOOLEAN, Wrap <- WrapC,
          buf <- v1, r <- v2, w <- v3, e <- v4, rawmode <- v5, lock <- v6, pc <- v7,
          n <- v8, target <- v9, killed <- v10

Sch == INSTANCE SchedProofs WITH Proc <- D \cup {init}, CPU <- B, initproc <- init,
         run <- v1, swtched <- v2, intr <- v3, todo <- v4, plock <- v5, lk <- v6,
         state <- v7, chan <- v8, pc <- v9, cond <- v10

ASSUME SharedAssumptions ==
  /\ Cache!BufferCacheAssumption /\ Disk!VirtioDiskAssumption /\ Cons!ConsoleAssumption /\ Sch!SchedAssumption

Sym == Permutations(A) \cup Permutations(B) \cup Permutations(D)
       \cup Permutations(Sectors)

-----------------------------------------------------------------------------
Unused11 == v11 = 0 /\ v12 = 0 /\ v13 = 0 /\ v14 = 0
Unused15 == v15 = 0 /\ v16 = 0 /\ v17 = 0 /\ v18 = 0 /\ v19 = 0 /\ v20 = 0 /\ v21 = 0 /\ v22 = 0

Init ==
  \/ part = "cache" /\ Cache!Init /\ Unused15
  \/ part = "disk" /\ Disk!Init
  \/ part = "console" /\ Cons!Init /\ Unused11 /\ Unused15
  \/ part = "sched" /\ Sch!Init /\ Unused11 /\ Unused15

Next ==
  \/ part = "cache" /\ Cache!Next /\ UNCHANGED <<part, From15>>
  \/ part = "disk" /\ Disk!Next /\ UNCHANGED part
  \/ part = "console" /\ Cons!Next /\ UNCHANGED <<part, From11, From15>>
  \/ part = "sched" /\ Sch!Next /\ UNCHANGED <<part, From11, From15>>

Spec == Init /\ [][Next]_vars

View ==
  <<part, CASE part = "disk" -> Disk!View [] part = "console" -> Cons!View [] OTHER -> vars>>

-----------------------------------------------------------------------------
(* A buffer's refcnt counts the processes between bget() and brelse() and   *)
(* the log's pin, no more and no less, and bget() panics only when every    *)
(* buffer is in use (kernel/bio.c:59-151).                                  *)
RefcntExact == part = "cache" => Cache!RefcntExact

(* A process that has a block sees the last value any process stored in it  *)
(* (kernel/bio.c:59-103).                                                   *)
SeesLatest == part = "cache" => Cache!SeesLatest

(* A process sleeps in acquiresleep() only while another one holds the lock *)
(* (kernel/sleeplock.c:21-41).                                              *)
SleeperHasHolder == part = "cache" => Cache!SleeperHasHolder

(* A request returns when it and no other one was carried out               *)
(* (kernel/virtio_disk.c:215-327).                                          *)
Transferred == part = "disk" => Disk!Transferred

(* No kernel stack is used by two CPUs (kernel/proc.c:437-573).             *)
OneCpuPerStack == part = "sched" => Sch!OneCpuPerStack

(* No process sleeps over a condition that holds, unless its wakeup() is    *)
(* under way (kernel/proc.c:545-592).                                       *)
NoMissedWakeup == part = "sched" => Sch!NoMissedWakeup

(* Keys are read once, unchanged and in the order they were typed; a line   *)
(* is handed out when it is finished, the buffer is full or the mode is     *)
(* raw; editing only touches what was not yet handed out                    *)
(* (kernel/console.c:81-188).  Left out are ^U in raw mode and a raw-mode   *)
(* backspace that finds the buffer full.                                    *)
ImplementsLineQueue ==
  /\ part = "console" => Cons!LQ!Init
  /\ [][part = "console" => Cons!LineStep]_vars

(* No reader of the console sleeps over published input                     *)
(* (kernel/console.c:93-98, 172-181).                                       *)
ConsoleSleepersHaveReason == part = "console" => Cons!SleepersHaveReason
=============================================================================
