-------------------------------- MODULE Sched --------------------------------
(***************************************************************************)
(* kernel/proc.c: scheduler(), sched(), yield(), sleep(), wakeup(), and    *)
(* the hand-over of p->lock across swtch(), on several CPUs.               *)
(*                                                                         *)
(* Unlike the other modules this one does not take sleep() to be atomic:   *)
(* spinlocks are variables and a step is what happens between two lock     *)
(* operations.  A client waits, under a lock lk, for a counter cond to be  *)
(* positive, as the kernel's users of sleep() do; an interrupt handler     *)
(* raises cond and calls wakeup(), as virtio_disk_intr(), consoleintr()    *)
(* and clockintr() do.                                                     *)
(***************************************************************************)
EXTENDS Naturals, FiniteSets

CONSTANTS Proc, CPU, None,
          initproc,    \* never exits
          MaxCond      \* bound on cond

SchedAssumption ==
  /\ initproc \in Proc /\ MaxCond \in Nat \ {0}
  /\ None \notin Proc /\ None \notin CPU

VARIABLES
  run,            \* per CPU: whose kernel stack it is on; None: the scheduler's
  swtched,        \* per CPU: the process that swtch()ed back, until its lock is released
  intr, todo,     \* per CPU: interrupt handler running, processes its wakeup() has to visit
  plock, lk,      \* spinlocks: the CPU that holds them, or None
  state, chan,    \* p->state; whether p->chan is the channel
  pc,             \* per process: where it is
  cond

vars == <<run, swtched, intr, todo, plock, lk, state, chan, pc, cond>>

Init ==
  /\ run = [c \in CPU |-> None] /\ swtched = [c \in CPU |-> None]
  /\ intr = [c \in CPU |-> FALSE] /\ todo = [c \in CPU |-> {}]
  /\ plock = [p \in Proc |-> None] /\ lk = None
  /\ state = [p \in Proc |-> IF p = initproc THEN "RUNNABLE" ELSE "UNUSED"]
  /\ chan = [p \in Proc |-> FALSE]
  /\ pc = [p \in Proc |-> "back"]
  /\ cond = 0

-----------------------------------------------------------------------------
(* CPU c executes process p's code at l. *)
At(c, p, l) == run[c] = p /\ pc[p] = l /\ ~intr[c]
Goto(p, l) == pc' = [pc EXCEPT ![p] = l]

acquire(c, p) == plock[p] = None /\ plock' = [plock EXCEPT ![p] = c]
release(p) == plock' = [plock EXCEPT ![p] = None]

(* The scheduler's loop on c: lock p, find it RUNNABLE, swtch() to it. *)
scheduler(c, p) ==
  /\ run[c] = None /\ swtched[c] = None /\ ~intr[c]
  /\ state[p] = "RUNNABLE" /\ acquire(c, p)
  /\ state' = [state EXCEPT ![p] = "RUNNING"]
  /\ run' = [run EXCEPT ![c] = p]
  /\ UNCHANGED <<swtched, intr, todo, lk, chan, pc, cond>>

(* sched(): swtch() to the scheduler; the process will resume at "back". *)
sched(c, p) ==
  /\ At(c, p, "sched")
  /\ run' = [run EXCEPT ![c] = None]
  /\ swtched' = [swtched EXCEPT ![c] = p]
  /\ Goto(p, "back")
  /\ UNCHANGED <<intr, todo, plock, lk, state, chan, cond>>

(* The scheduler's stack again: c->proc = 0; release(&p->lock). *)
scheduler_release(c) ==
  /\ swtched[c] # None
  /\ release(swtched[c])
  /\ swtched' = [swtched EXCEPT ![c] = None]
  /\ UNCHANGED <<run, intr, todo, lk, state, chan, pc, cond>>

(* Faulty: does not hold p->lock across swtch(). *)
yield_unlocked(c, p) ==
  /\ At(c, p, "user")
  /\ state' = [state EXCEPT ![p] = "RUNNABLE"]
  /\ Goto(p, "sched")
  /\ UNCHANGED <<run, swtched, intr, todo, plock, lk, chan, cond>>

(* yield() from a timer interrupt: it holds no spinlock, or interrupts      *)
(* would be off.                                                            *)
yield(c, p) ==
  /\ At(c, p, "user") /\ acquire(c, p)
  /\ state' = [state EXCEPT ![p] = "RUNNABLE"]
  /\ Goto(p, "sched")
  /\ UNCHANGED <<run, swtched, intr, todo, lk, chan, cond>>

(* Back from sched(): yield() and forkret() release p->lock and go on;      *)
(* sleep() clears p->chan first and then takes lk again.                    *)
back(c, p) ==
  /\ At(c, p, "back") /\ release(p)
  /\ chan' = [chan EXCEPT ![p] = FALSE]
  /\ Goto(p, IF chan[p] THEN "lock" ELSE "user")
  /\ UNCHANGED <<run, swtched, intr, todo, lk, state, cond>>

-----------------------------------------------------------------------------
(* A client of sleep(): acquire(lk); while(cond == 0) sleep(chan, lk); ...  *)
client(c, p) ==
  /\ At(c, p, "user")
  /\ Goto(p, "lock")
  /\ UNCHANGED <<run, swtched, intr, todo, plock, lk, state, chan, cond>>

lock(c, p) ==
  /\ At(c, p, "lock") /\ lk = None
  /\ lk' = c
  /\ Goto(p, "test")
  /\ UNCHANGED <<run, swtched, intr, todo, plock, state, chan, cond>>

test(c, p) ==
  /\ At(c, p, "test")
  /\ IF cond > 0 THEN cond' = cond - 1 /\ lk' = None /\ Goto(p, "user")
     ELSE UNCHANGED <<cond, lk>> /\ Goto(p, "sleep")
  /\ UNCHANGED <<run, swtched, intr, todo, plock, state, chan>>

(* sleep(): acquire(&p->lock) ... *)
sleep_acquire(c, p) ==
  /\ At(c, p, "sleep") /\ acquire(c, p)
  /\ Goto(p, "sleep_release")
  /\ UNCHANGED <<run, swtched, intr, todo, lk, state, chan, cond>>

(* ... release(lk) ... *)
sleep_release(c, p) ==
  /\ At(c, p, "sleep_release")
  /\ lk' = None
  /\ Goto(p, "sleep_set")
  /\ UNCHANGED <<run, swtched, intr, todo, plock, state, chan, cond>>

(* ... p->chan = chan; p->state = SLEEPING; sched(). *)
sleep_set(c, p) ==
  /\ At(c, p, "sleep_set")
  /\ chan' = [chan EXCEPT ![p] = TRUE]
  /\ state' = [state EXCEPT ![p] = "SLEEPING"]
  /\ Goto(p, "sched")
  /\ UNCHANGED <<run, swtched, intr, todo, plock, lk, cond>>

-----------------------------------------------------------------------------
(* A device interrupt on a CPU that holds no lock: acquire(lk), raise cond, *)
(* wakeup(chan), release(lk).                                               *)
HoldsNone(c) == lk # c /\ \A p \in Proc : plock[p] # c

interrupt(c) ==
  /\ HoldsNone(c) /\ ~intr[c] /\ lk = None /\ cond < MaxCond
  /\ lk' = c
  /\ cond' = cond + 1
  /\ intr' = [intr EXCEPT ![c] = TRUE]
  /\ todo' = [todo EXCEPT ![c] = Proc \ {run[c]}]     \* p != myproc()
  /\ UNCHANGED <<run, swtched, plock, state, chan, pc>>

(* Faulty: looks at p->state without p->lock. *)
wakeup_unlocked(c, p) ==
  /\ intr[c] /\ p \in todo[c]
  /\ todo' = [todo EXCEPT ![c] = @ \ {p}]
  /\ state' = IF state[p] = "SLEEPING" /\ chan[p] THEN [state EXCEPT ![p] = "RUNNABLE"] ELSE state
  /\ UNCHANGED <<run, swtched, intr, plock, lk, chan, pc, cond>>

(* One round of wakeup()'s loop: acquire(&p->lock), test, release. *)
wakeup(c, p) ==
  /\ intr[c] /\ p \in todo[c] /\ plock[p] = None
  /\ todo' = [todo EXCEPT ![c] = @ \ {p}]
  /\ state' = IF state[p] = "SLEEPING" /\ chan[p] THEN [state EXCEPT ![p] = "RUNNABLE"] ELSE state
  /\ UNCHANGED <<run, swtched, intr, plock, lk, chan, pc, cond>>

interrupt_end(c) ==
  /\ intr[c] /\ todo[c] = {}
  /\ lk' = None
  /\ intr' = [intr EXCEPT ![c] = FALSE]
  /\ UNCHANGED <<run, swtched, todo, plock, state, chan, pc, cond>>

-----------------------------------------------------------------------------
(* The end of exit(): acquire(&p->lock); p->state = ZOMBIE; sched(). *)
exit(c, p) ==
  /\ At(c, p, "user") /\ p # initproc /\ acquire(c, p)
  /\ state' = [state EXCEPT ![p] = "ZOMBIE"]
  /\ Goto(p, "sched")
  /\ UNCHANGED <<run, swtched, intr, todo, lk, chan, cond>>

(* wait() in q: acquire(&p->lock); freeproc(p) if it is a zombie. *)
freeproc(c, q, p) ==
  /\ At(c, q, "user")
  /\ plock[p] = None /\ state[p] = "ZOMBIE"
  /\ state' = [state EXCEPT ![p] = "UNUSED"]
  /\ UNCHANGED <<run, swtched, intr, todo, plock, lk, chan, pc, cond>>

(* fork() in q: p starts in forkret(), which releases p->lock. *)
fork(c, q, p) ==
  /\ At(c, q, "user")
  /\ plock[p] = None /\ state[p] = "UNUSED"
  /\ state' = [state EXCEPT ![p] = "RUNNABLE"]
  /\ Goto(p, "back")
  /\ UNCHANGED <<run, swtched, intr, todo, plock, lk, chan, cond>>

-----------------------------------------------------------------------------
Switch(c) == scheduler_release(c) \/ \E p \in Proc : scheduler(c, p) \/ sched(c, p)

Step(c, p) ==
  \/ yield(c, p) \/ back(c, p) \/ client(c, p) \/ lock(c, p) \/ test(c, p)
  \/ sleep_acquire(c, p) \/ sleep_release(c, p) \/ sleep_set(c, p) \/ exit(c, p)

Handler(c) == interrupt_end(c) \/ \E p \in Proc : wakeup(c, p)

Next ==
  \E c \in CPU :
    \/ Switch(c) \/ interrupt(c) \/ Handler(c)
    \/ \E p \in Proc : Step(c, p)
    \/ \E q, p \in Proc : freeproc(c, q, p) \/ fork(c, q, p)

Spec == Init /\ [][Next]_vars

-----------------------------------------------------------------------------
(* Properties *)

(* p->lock held across swtch(): no process's kernel stack is ever used by   *)
(* two CPUs, though it is RUNNABLE or woken before it has left its CPU.     *)
OneCpuPerStack ==
  \A c, d \in CPU : run[c] # None /\ c # d => run[c] # run[d]

(* "we can be guaranteed that we won't miss any wakeup" (proc.c:554): a     *)
(* process sleeps while cond is positive only if a wakeup() that has not    *)
(* come to it yet is under way.                                             *)
NoMissedWakeup ==
  \A p \in Proc :
    state[p] = "SLEEPING" /\ cond > 0 => \E c \in CPU : intr[c] /\ p \in todo[c]
=============================================================================
