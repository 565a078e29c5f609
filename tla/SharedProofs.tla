---------------------------- MODULE SharedProofs ----------------------------
(***************************************************************************)
(* What is proved of the parts, for the specification that MCShared        *)
(* composes of them: the part that runs never changes, so a behaviour in   *)
(* which it is the cache (or the disk, or the scheduler) is one of that    *)
(* part's specification, whose theorems hold of it.  What is proved of the *)
(* console is proved here.                                                 *)
(***************************************************************************)
EXTENDS MCShared, TLAPS

Runs(c) == part = c

(* A behaviour of the cache's part is a behaviour of BufferCache. *)
LEMMA CacheStep ==
  ASSUME [Next]_vars
  PROVE  /\ Runs("cache") => [Cache!Next]_(Cache!vars)
         /\ Runs("cache") <=> Runs("cache")'
  BY Zenon DEF Next, vars, From11, From15, Runs, Cache!vars

(* A behaviour of the scheduler's part is a behaviour of Sched. *)
LEMMA SchedStep ==
  ASSUME [Next]_vars
  PROVE  /\ Runs("sched") => [Sch!Next]_(Sch!vars)
         /\ Runs("sched") <=> Runs("sched")'
  BY Zenon DEF Next, vars, From11, From15, Runs, Sch!vars

(* A behaviour of the disk's part is a behaviour of VirtioDisk. *)
LEMMA DiskStep ==
  ASSUME [Next]_vars
  PROVE  /\ Runs("disk") => [Disk!Next]_(Disk!vars)
         /\ Runs("disk") <=> Runs("disk")'
  BY Zenon DEF Next, vars, From11, From15, Runs, Disk!vars

(* A behaviour of the console's part is a behaviour of Console. *)
LEMMA ConsoleStep ==
  ASSUME [Next]_vars
  PROVE  /\ Runs("console") => [Cons!Next]_(Cons!vars)
         /\ Runs("console") <=> Runs("console")'
  BY Zenon DEF Next, vars, From11, From15, Runs, Cons!vars

(* Each part starts as its initialisation in main() leaves it. *)
LEMMA PartInit ==
  ASSUME Init
  PROVE  /\ Runs("cache") => Cache!Init
         /\ Runs("disk") => Disk!Init
         /\ Runs("console") => Cons!Init
         /\ Runs("sched") => Sch!Init
  BY Zenon DEF Init, Runs

(* The reference counts of the cache are exact, and bget() panics only when *)
(* every buffer is in use (bio.c:59-151).                                   *)
THEOREM RefcntAlwaysExact == Spec => []RefcntExact
<1>1. Cache!Spec => []Cache!RefcntExact
  BY Cache!CountsExact, SharedAssumptions, Zenon
<1>2. RefcntExact <=> (Runs("cache") => Cache!RefcntExact)
  BY Zenon DEF RefcntExact, Runs
<1> QED
  BY <1>1, <1>2, CacheStep, PartInit, PTL DEF Spec, Cache!Spec

(* A process that has a block sees the last value stored in it              *)
(* (bio.c:59-103).                                                          *)
THEOREM LatestAlwaysSeen == Spec => []SeesLatest
<1>1. Cache!Spec => []Cache!SeesLatest
  BY Cache!LatestSeen, SharedAssumptions, Zenon
<1>2. SeesLatest <=> (Runs("cache") => Cache!SeesLatest)
  BY Zenon DEF SeesLatest, Runs
<1> QED
  BY <1>1, <1>2, CacheStep, PartInit, PTL DEF Spec, Cache!Spec

(* A process sleeps in acquiresleep() only while another one holds the lock *)
(* (sleeplock.c:21-41).                                                     *)
THEOREM SleepersAlwaysWoken == Spec => []SleeperHasHolder
<1>1. Cache!Spec => []Cache!SleeperHasHolder
  BY Cache!SleepersWoken, SharedAssumptions, Zenon
<1>2. SleeperHasHolder <=> (Runs("cache") => Cache!SleeperHasHolder)
  BY Zenon DEF SleeperHasHolder, Runs
<1> QED
  BY <1>1, <1>2, CacheStep, PartInit, PTL DEF Spec, Cache!Spec

(* No two CPUs are on one kernel stack (proc.c:437-573). *)
THEOREM StackAlwaysOneCpu == Spec => []OneCpuPerStack
<1>1. Sch!Spec => []Sch!OneCpuPerStack
  BY Sch!StackHasOneCpu, SharedAssumptions, Zenon
<1>2. OneCpuPerStack <=> (Runs("sched") => Sch!OneCpuPerStack)
  BY Zenon DEF OneCpuPerStack, Runs
<1> QED
  BY <1>1, <1>2, SchedStep, PartInit, PTL DEF Spec, Sch!Spec

(* No wakeup() is missed (proc.c:545-592). *)
THEOREM WakeupNeverMissed == Spec => []NoMissedWakeup
<1>1. Sch!Spec => []Sch!NoMissedWakeup
  BY Sch!WakeupNotMissed, SharedAssumptions, Zenon
<1>2. NoMissedWakeup <=> (Runs("sched") => Sch!NoMissedWakeup)
  BY Zenon DEF NoMissedWakeup, Runs
<1> QED
  BY <1>1, <1>2, SchedStep, PartInit, PTL DEF Spec, Sch!Spec

(* When virtio_disk_rw() returns, its request and no other was carried out  *)
(* (virtio_disk.c:215-327).                                                 *)
THEOREM AlwaysTransferred == Spec => []Transferred
<1>1. Disk!Spec => []Disk!Transferred
  BY Disk!RequestsCarriedOut, SharedAssumptions, Zenon
<1>2. Transferred <=> (Runs("disk") => Disk!Transferred)
  BY Zenon DEF Transferred, Runs
<1> QED
  BY <1>1, <1>2, DiskStep, PartInit, PTL DEF Spec, Disk!Spec

-----------------------------------------------------------------------------
(* The readers of the console: v2, v3, v6 and v7 are its r, w, lock and pc. *)

(* The reader that runs or goes to sleep in consoleread() has cons.lock,    *)
(* and one that sleeps, or has decided to, has nothing to read.             *)
Readers ==
  /\ v7 \in [A -> {"user", "enter", "loop", "sleep", "asleep"}]
  /\ \A p \in A : /\ v7[p] \in {"loop", "sleep"} => v6 = p
                  /\ v7[p] \in {"sleep", "asleep"} => v2 = v3

(* consoleintr() runs when no reader has cons.lock, and where it publishes  *)
(* input it wakes all of them.                                              *)
LEMMA ConsoleintrKeepsReaders ==
  ASSUME Readers, None \notin A, Cons!consoleintr
  PROVE  Readers'
<1>1. v6 = None /\ v6' = v6 /\ v2' = v2
  BY ZenonT(30) DEF Cons!consoleintr, Cons!intr_ctrl_p, Cons!intr_ctrl_u, Cons!intr_backspace, Cons!intr_key,
     Cons!PublishAll, Cons!Store, Cons!vars, Cons!rest
<1>2. (v7' = v7 /\ v3' = v3) \/ v7' = Cons!wakeup
  BY ZenonT(30) DEF Cons!consoleintr, Cons!intr_ctrl_p, Cons!intr_ctrl_u, Cons!intr_backspace, Cons!intr_key,
     Cons!PublishAll, Cons!Store, Cons!vars, Cons!rest
<1>3. CASE v7' = v7 /\ v3' = v3
  BY <1>1, <1>3, ZenonT(30) DEF Readers
<1>4. CASE v7' = Cons!wakeup
  BY <1>1, <1>4, SMTT(30) DEF Readers, Cons!wakeup
<1> QED
  BY <1>2, <1>3, <1>4, ZenonT(30)

(* consoleread() looks at r and w and goes to sleep under the lock, and     *)
(* moves r only when there is something to read.                            *)
LEMMA ConsolereadKeepsReaders ==
  ASSUME Readers, None \notin A, NEW p \in A, Cons!consoleread(p)
  PROVE  Readers'
<1> USE DEF Readers, Cons!cons
<1>1. CASE Cons!acquire(p)
  BY <1>1, SMTT(30) DEF Cons!acquire
<1>2. CASE Cons!read_end(p)
  BY <1>2, SMTT(30) DEF Cons!read_end, Cons!Return
<1>3. CASE Cons!read_wait(p)
  BY <1>3, SMTT(30) DEF Cons!read_wait
<1>4. CASE Cons!sleep(p)
  BY <1>4, SMTT(30) DEF Cons!sleep
<1>5. CASE Cons!read_eof(p)
  BY <1>5, SMTT(30) DEF Cons!read_eof, Cons!Return
<1>6. CASE Cons!read_byte(p)
  BY <1>6, SMTT(30) DEF Cons!read_byte, Cons!Return
<1>7. ASSUME NEW k \in 0 .. MaxN, Cons!read(p, k) PROVE Readers'
  BY <1>7, SMTT(30) DEF Cons!read
<1> QED
  BY <1>1, <1>2, <1>3, <1>4, <1>5, <1>6, <1>7, ZenonT(30) DEF Cons!consoleread

(* No reader of the console sleeps over published input                     *)
(* (console.c:93-98, 172-181).                                              *)
THEOREM ConsoleSleepersAlwaysHaveReason == Spec => []ConsoleSleepersHaveReason
<1>1. Init => (Runs("console") => Readers)
  BY PartInit, SMTT(30) DEF Cons!Init, Readers
<1>2. ASSUME Readers, [Cons!Next]_(Cons!vars) PROVE Readers'
  <2>1. None \notin A
    BY SharedAssumptions, ZenonT(30) DEF Cons!ConsoleAssumption
  <2>2. ASSUME NEW on \in BOOLEAN, Cons!console_set_rawmode(on) PROVE Readers'
    BY <1>2, <2>2, ZenonT(30) DEF Cons!console_set_rawmode, Cons!rest, Readers
  <2>3. ASSUME NEW p \in A, Cons!kill(p) PROVE Readers'
    BY <1>2, <2>3, SMTT(30) DEF Cons!kill, Cons!cons, Readers
  <2>4. CASE UNCHANGED Cons!vars
    BY <1>2, <2>4, ZenonT(30) DEF Cons!vars, Readers
  <2> QED
    BY <1>2, <2>1, <2>2, <2>3, <2>4, ConsoleintrKeepsReaders, ConsolereadKeepsReaders, ZenonT(30) DEF Cons!Next
<1>3. Readers => Cons!SleepersHaveReason
  BY ZenonT(30) DEF Readers, Cons!SleepersHaveReason
<1>4. ConsoleSleepersHaveReason <=> (Runs("console") => Cons!SleepersHaveReason)
  BY Zenon DEF ConsoleSleepersHaveReason, Runs
<1> QED
  BY <1>1, <1>2, <1>3, <1>4, ConsoleStep, PTL DEF Spec
=============================================================================
