-------------------------------- MODULE Proc --------------------------------
(***************************************************************************)
(* kernel/proc.c: the life of a process - fork, exit, wait, kill.          *)
(*                                                                         *)
(* One step is one critical section of a process's p->lock, or one part of *)
(* a critical section of wait_lock between two of those, so that kill(),   *)
(* fork() and wakeup(), which do not take wait_lock, can run in between.   *)
(* Which CPU runs a process, and how sleep() and the scheduler hand p->lock *)
(* over, is the subject of Sched: here a RUNNABLE process may take a step, *)
(* and sleep(p, &wait_lock) is one step.                                   *)
(***************************************************************************)
EXTENDS Naturals, FiniteSets

CONSTANTS
  NPROC,      \* size of proc[]
  MaxPid,     \* bound: fork() is not called once nextpid exceeds it
  KillPids,   \* the arguments kill() is called with
  None

ASSUME ProcAssumption ==
  NPROC \in Nat \ {0} /\ MaxPid \in Nat /\ KillPids \subseteq Nat /\ None \notin Nat

Slot == 1 .. NPROC
initproc == 1

VARIABLES
  state, pid, parent, killed, chan,   \* struct proc, per slot of proc[]
  nextpid,
  wait_lock,                          \* the slot of the process that holds it, or None
  pc, np,                             \* per slot: where in the kernel, fork()'s new process
  reqs                                \* history: the pids kill() was asked to kill

table == <<state, pid, parent, killed, chan>>
vars == <<state, pid, parent, killed, chan, nextpid, wait_lock, pc, np, reqs>>

(* procinit() and userinit(): the first slot holds the first process. *)
Init ==
  /\ state = [s \in Slot |-> IF s = initproc THEN "RUNNABLE" ELSE "UNUSED"]
  /\ pid = [s \in Slot |-> IF s = initproc THEN 1 ELSE 0]
  /\ parent = [s \in Slot |-> None]
  /\ killed = [s \in Slot |-> FALSE]
  /\ chan = [s \in Slot |-> None]
  /\ nextpid = 2
  /\ wait_lock = None
  /\ pc = [s \in Slot |-> "user"]
  /\ np = [s \in Slot |-> None]
  /\ reqs = {}

-----------------------------------------------------------------------------
At(s, l) == state[s] = "RUNNABLE" /\ pc[s] = l
Goto(s, l) == pc' = [pc EXCEPT ![s] = l]
Least(S) == CHOOSE s \in S : \A t \in S : s <= t

(* wakeup(c), from the state function st. *)
Woken(st, c) == [s \in Slot |-> IF st[s] = "SLEEPING" /\ chan[s] = c THEN "RUNNABLE" ELSE st[s]]

(* Faulty: leaves p->killed set. *)
freeproc_killed(s) ==
  /\ state' = [state EXCEPT ![s] = "UNUSED"]
  /\ pid' = [pid EXCEPT ![s] = 0]
  /\ parent' = [parent EXCEPT ![s] = None]
  /\ chan' = [chan EXCEPT ![s] = None]
  /\ UNCHANGED killed

(* freeproc(s): pid, parent, chan, killed and state are cleared. *)
freeproc(s) ==
  /\ state' = [state EXCEPT ![s] = "UNUSED"]
  /\ pid' = [pid EXCEPT ![s] = 0]
  /\ parent' = [parent EXCEPT ![s] = None]
  /\ chan' = [chan EXCEPT ![s] = None]
  /\ killed' = [killed EXCEPT ![s] = FALSE]

-----------------------------------------------------------------------------
(* fork() *)

Unused == {s \in Slot : state[s] = "UNUSED"}

(* allocproc() and the copying, up to release(&np->lock). *)
fork_alloc(s) ==
  /\ At(s, "user") /\ Unused # {} /\ nextpid <= MaxPid
  /\ LET n == Least(Unused) IN
     /\ pid' = [pid EXCEPT ![n] = nextpid]
     /\ state' = [state EXCEPT ![n] = "USED"]
     /\ np' = [np EXCEPT ![s] = n]
  /\ nextpid' = nextpid + 1
  /\ Goto(s, "fork_parent")
  /\ UNCHANGED <<parent, killed, chan, wait_lock, reqs>>

(* kalloc(), proc_pagetable() or uvmcopy() fails: freeproc(), return -1. *)
fork_fail(s) ==
  /\ At(s, "user") /\ Unused # {} /\ nextpid <= MaxPid
  /\ freeproc(Least(Unused))
  /\ nextpid' = nextpid + 1
  /\ UNCHANGED <<wait_lock, pc, np, reqs>>

fork_parent(s) ==
  /\ At(s, "fork_parent") /\ wait_lock = None
  /\ parent' = [parent EXCEPT ![np[s]] = s]
  /\ Goto(s, "fork_run")
  /\ UNCHANGED <<state, pid, killed, chan, nextpid, wait_lock, np, reqs>>

fork_run(s) ==
  /\ At(s, "fork_run")
  /\ state' = [state EXCEPT ![np[s]] = "RUNNABLE"]
  /\ pc' = [pc EXCEPT ![s] = "user", ![np[s]] = "user"]
  /\ np' = [np EXCEPT ![s] = None]
  /\ UNCHANGED <<pid, parent, killed, chan, nextpid, wait_lock, reqs>>

-----------------------------------------------------------------------------
(* exit(), called by the process or by usertrap() once it is killed. *)

Children(s) == {c \in Slot : parent[c] = s}

(* Faulty: reparent() without wakeup(initproc). *)
exit_reparent_silent(s) ==
  /\ At(s, "user") /\ s # initproc /\ wait_lock = None
  /\ wait_lock' = s
  /\ parent' = [c \in Slot |-> IF parent[c] = s THEN initproc ELSE parent[c]]
  /\ Goto(s, "exit_wake")
  /\ UNCHANGED <<state, pid, killed, chan, nextpid, np, reqs>>

(* acquire(&wait_lock); reparent(p), with its wakeup(initproc). *)
exit_reparent(s) ==
  /\ At(s, "user") /\ s # initproc /\ wait_lock = None
  /\ wait_lock' = s
  /\ parent' = [c \in Slot |-> IF parent[c] = s THEN initproc ELSE parent[c]]
  /\ state' = IF Children(s) = {} THEN state ELSE Woken(state, initproc)
  /\ Goto(s, "exit_wake")
  /\ UNCHANGED <<pid, killed, chan, nextpid, np, reqs>>

(* Faulty: does not wake the parent. *)
exit_wake_silent(s) ==
  /\ At(s, "exit_wake")
  /\ Goto(s, "exit_zombie")
  /\ UNCHANGED <<table, nextpid, wait_lock, np, reqs>>

exit_wake(s) ==
  /\ At(s, "exit_wake")
  /\ state' = Woken(state, parent[s])
  /\ Goto(s, "exit_zombie")
  /\ UNCHANGED <<pid, parent, killed, chan, nextpid, wait_lock, np, reqs>>

exit_zombie(s) ==
  /\ At(s, "exit_zombie")
  /\ state' = [state EXCEPT ![s] = "ZOMBIE"]
  /\ wait_lock' = None
  /\ UNCHANGED <<pid, parent, killed, chan, nextpid, pc, np, reqs>>

-----------------------------------------------------------------------------
(* wait() *)

(* acquire(&wait_lock): on entry, or again when sleep() returns. *)
wait_acquire(s) ==
  /\ At(s, "user") \/ At(s, "wait_wake")
  /\ wait_lock = None
  /\ wait_lock' = s
  /\ chan' = [chan EXCEPT ![s] = None]
  /\ Goto(s, "wait_scan")
  /\ UNCHANGED <<state, pid, parent, killed, nextpid, np, reqs>>

Zombies(s) == {c \in Children(s) : state[c] = "ZOMBIE"}

(* The scan finds a zombie: freeproc() and return its pid, ... *)
wait_reap(s) ==
  /\ At(s, "wait_scan") /\ Zombies(s) # {}
  /\ freeproc(Least(Zombies(s)))
  /\ wait_lock' = None
  /\ Goto(s, "user")
  /\ UNCHANGED <<nextpid, np, reqs>>

(* ... or copyout() of its status fails: return -1, the zombie stays. *)
wait_copyout_fails(s) ==
  /\ At(s, "wait_scan") /\ Zombies(s) # {}
  /\ wait_lock' = None
  /\ Goto(s, "user")
  /\ UNCHANGED <<table, nextpid, np, reqs>>

(* No zombie: return -1 without children or when killed(), else sleep. *)
wait_none(s) ==
  /\ At(s, "wait_scan") /\ Zombies(s) = {}
  /\ IF Children(s) = {} \/ killed[s]
     THEN wait_lock' = None /\ Goto(s, "user")
     ELSE UNCHANGED wait_lock /\ Goto(s, "wait_sleep")
  /\ UNCHANGED <<table, nextpid, np, reqs>>

(* sleep(p, &wait_lock) *)
wait_sleep(s) ==
  /\ At(s, "wait_sleep")
  /\ state' = [state EXCEPT ![s] = "SLEEPING"]
  /\ chan' = [chan EXCEPT ![s] = s]
  /\ wait_lock' = None
  /\ Goto(s, "wait_wake")
  /\ UNCHANGED <<pid, parent, killed, nextpid, np, reqs>>

-----------------------------------------------------------------------------
(* kill(k): the first slot whose pid is k. *)
Matches(k) == {s \in Slot : pid[s] = k}

kill(k) ==
  /\ k \notin reqs                \* bound: each pid is killed once
  /\ \E s \in Slot : At(s, "user")
  /\ Matches(k) # {}
  /\ LET t == Least(Matches(k)) IN
     /\ killed' = [killed EXCEPT ![t] = TRUE]
     /\ state' = IF state[t] = "SLEEPING" THEN [state EXCEPT ![t] = "RUNNABLE"] ELSE state
  /\ reqs' = reqs \cup {k}
  /\ UNCHANGED <<pid, parent, chan, nextpid, wait_lock, pc, np>>

-----------------------------------------------------------------------------
fork(s) == fork_alloc(s) \/ fork_fail(s) \/ fork_parent(s) \/ fork_run(s)
exit(s) == exit_reparent(s) \/ exit_wake(s) \/ exit_zombie(s)
wait(s) == wait_acquire(s) \/ wait_reap(s) \/ wait_copyout_fails(s) \/ wait_none(s) \/ wait_sleep(s)

Next == (\E s \in Slot : fork(s) \/ exit(s) \/ wait(s)) \/ (\E k \in KillPids : kill(k))

Spec == Init /\ [][Next]_vars

(* A process inside one of these system calls is runnable and is scheduled, *)
(* and gets wait_lock if it is free again and again;                         *)
(* user/init.c calls wait(0) forever, so init goes on waiting, and           *)
(* copyout() cannot fail for the null address it passes.                    *)
InKernel(s) ==
  \/ fork_parent(s) \/ fork_run(s) \/ exit_wake(s) \/ exit_zombie(s)
  \/ wait_none(s) \/ wait_sleep(s) \/ wait_reap(s)

Fairness ==
  /\ \A s \in Slot : WF_vars(InKernel(s)) /\ SF_vars(fork_parent(s))
  /\ SF_vars(wait_acquire(initproc)) /\ SF_vars(wait_reap(initproc))

FairSpec == Spec /\ Fairness

-----------------------------------------------------------------------------
(* Properties *)

(* exit() and wait() miss no wakeup: once wait_lock is free, a process that *)
(* sleeps in wait() has children, and none of them is a zombie.             *)
NoMissedExit ==
  wait_lock = None =>
    \A s \in Slot : state[s] = "SLEEPING" => Children(s) # {} /\ Zombies(s) = {}

(* "Kill the process with the given pid" (proc.c:594): only a process whose *)
(* pid was given to kill() is killed.                                       *)
KilledOnlyIfAsked == \A s \in Slot : killed[s] => pid[s] \in reqs

(* A zombie whose parent is init is reaped, also if it became a child of    *)
(* init, in reparent(), while init slept in wait().                         *)
OrphansReaped ==
  \A s \in Slot : (state[s] = "ZOMBIE" /\ parent[s] = initproc) ~> state[s] = "UNUSED"
=============================================================================
