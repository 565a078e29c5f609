------------------------------ MODULE SleepLock ------------------------------
(***************************************************************************)
(* kernel/sleeplock.c: long-term locks.  Each operation runs inside the    *)
(* spinlock lk->lk, so it is one step; sleep(lk, &lk->lk) gives the        *)
(* spinlock up and blocks in that same step (Sched justifies it).          *)
(***************************************************************************)
CONSTANTS Proc, Lock, None

VARIABLES
  holder,   \* per lock: the process whose pid it records, None when !locked
  asleep    \* per process: the lock it sleeps on in acquiresleep(), or None

initsleeplock ==
  /\ holder = [l \in Lock |-> None]
  /\ asleep = [p \in Proc |-> None]

(* acquiresleep(), the loop's test fails: the lock is taken. *)
acquiresleep(p, l) ==
  /\ asleep[p] = None
  /\ holder[l] = None
  /\ holder' = [holder EXCEPT ![l] = p]
  /\ UNCHANGED asleep

(* acquiresleep(), the lock is busy: sleep(lk, &lk->lk). *)
acquiresleep_sleep(p, l) ==
  /\ asleep[p] = None
  /\ holder[l] # None
  /\ asleep' = [asleep EXCEPT ![p] = l]
  /\ UNCHANGED holder

(* Faulty: no wakeup(lk). *)
releasesleep_silent(l) == holder' = [holder EXCEPT ![l] = None] /\ UNCHANGED asleep

(* releasesleep(): wakeup(lk) wakes every sleeper; each tests again. *)
releasesleep(l) ==
  /\ holder' = [holder EXCEPT ![l] = None]
  /\ asleep' = [p \in Proc |-> IF asleep[p] = l THEN None ELSE asleep[p]]

holdingsleep(p, l) == holder[l] = p

(* No wakeup is lost: a process sleeps in acquiresleep() only while some    *)
(* other process holds the lock, whose releasesleep() will wake it.         *)
SleeperHasHolder ==
  \A p \in Proc : asleep[p] # None => holder[asleep[p]] \notin {None, p}
=============================================================================
