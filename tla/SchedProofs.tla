----------------------------- MODULE SchedProofs -----------------------------
(***************************************************************************)
(* The two properties of Sched for any number of processes and CPUs.       *)
(*                                                                         *)
(* That no stack has two CPUs follows from who holds p->lock at every line *)
(* of proc.c (Locks); that no wakeup is missed needs in addition what lk   *)
(* protects (Waiting).                                                     *)
(***************************************************************************)
EXTENDS Sched, TLAPS

Label == {"user", "back", "sched", "lock", "test", "sleep", "sleep_release", "sleep_set"}
State == {"UNUSED", "RUNNABLE", "RUNNING", "SLEEPING", "ZOMBIE"}

TypeOK ==
  /\ run \in [CPU -> Proc \cup {None}] /\ swtched \in [CPU -> Proc \cup {None}]
  /\ intr \in [CPU -> BOOLEAN] /\ todo \in [CPU -> SUBSET Proc]
  /\ plock \in [Proc -> CPU \cup {None}] /\ lk \in CPU \cup {None}
  /\ state \in [Proc -> State] /\ chan \in [Proc -> BOOLEAN] /\ pc \in [Proc -> Label]
  /\ cond \in Nat

(* The lines at which a process on a CPU holds its own lock, and lk. *)
Locked == {"back", "sched", "sleep_release", "sleep_set"}
Critical == {"test", "sleep", "sleep_release"}

(* On a CPU, p is RUNNING except behind the line that has given it another  *)
(* state, where it holds its lock; while it leaves, the CPU has its lock;   *)
(* off the CPUs its lock is free.                                           *)
RunOk(c, p) ==
  run[c] = p =>
    /\ plock[p] = IF pc[p] \in Locked THEN c ELSE None
    /\ IF pc[p] = "sched" THEN state[p] \in {"RUNNABLE", "SLEEPING", "ZOMBIE"}
       ELSE state[p] = "RUNNING"
    /\ pc[p] \in Critical => lk = c

LeaveOk(c, p) ==
  swtched[c] = p => plock[p] = c /\ pc[p] = "back" /\ state[p] # "RUNNING"

OffOk(p) ==
  (\A c \in CPU : run[c] # p /\ swtched[c] # p) =>
    plock[p] = None /\ pc[p] = "back" /\ state[p] # "RUNNING"

CpuOk(c) ==
  /\ run[c] # None => swtched[c] = None
  /\ intr[c] => /\ lk = c /\ swtched[c] = None
                /\ run[c] # None => pc[run[c]] \in {"user", "lock"}

Locks ==
  /\ \A c \in CPU : CpuOk(c)
  /\ \A c \in CPU, p \in Proc : RunOk(c, p) /\ LeaveOk(c, p)
  /\ \A p \in Proc : OffOk(p)
  /\ OneCpuPerStack

(* cond is 0 from the test until lk is given up; from then on a handler     *)
(* that raises it has p still to visit.                                     *)
Waiting ==
  \A p \in Proc :
    /\ state[p] = "SLEEPING" => chan[p]
    /\ pc[p] \in {"sleep", "sleep_release"} => cond = 0
    /\ (state[p] = "SLEEPING" \/ pc[p] = "sleep_set") /\ cond > 0 =>
         \E c \in CPU : intr[c] /\ p \in todo[c]

Inv == TypeOK /\ Locks /\ Waiting

-----------------------------------------------------------------------------
(* A process that is not RUNNING and whose lock is free is on no CPU. *)
LEMMA OffCpu ==
  ASSUME Inv, SchedAssumption, NEW p \in Proc, plock[p] = None, state[p] # "RUNNING"
  PROVE  \A c \in CPU : run[c] # p /\ swtched[c] # p
  BY DEF Inv, Locks, RunOk, LeaveOk, Locked, SchedAssumption

(* The kernel starts in Inv, all processes off the CPUs. *)
LEMMA InitInv ==
  ASSUME SchedAssumption, Init
  PROVE  Inv
  BY
     DEF SchedAssumption, Init, Inv, TypeOK, Label, State, Locks, CpuOk, RunOk, LeaveOk, OffOk,
         OneCpuPerStack, Waiting, Locked, Critical

(* Every step keeps the types. *)
LEMMA TypeStep ==
  ASSUME SchedAssumption, TypeOK, Next
  PROVE  TypeOK'
<1> USE DEF SchedAssumption, TypeOK, Label, State
<1>1. ASSUME NEW c \in CPU, NEW p \in Proc, scheduler(c, p) PROVE TypeOK'
  BY <1>1 DEF scheduler, acquire
<1>2. ASSUME NEW c \in CPU, NEW p \in Proc, sched(c, p) PROVE TypeOK'
  BY <1>2 DEF sched, At, Goto
<1>3. ASSUME NEW c \in CPU, scheduler_release(c) PROVE TypeOK'
  BY <1>3 DEF scheduler_release, release
<1>4. ASSUME NEW c \in CPU, NEW p \in Proc, yield(c, p) PROVE TypeOK'
  BY <1>4 DEF yield, At, Goto, acquire
<1>5. ASSUME NEW c \in CPU, NEW p \in Proc, back(c, p) PROVE TypeOK'
  BY <1>5 DEF back, At, Goto, release
<1>6. ASSUME NEW c \in CPU, NEW p \in Proc, client(c, p) PROVE TypeOK'
  BY <1>6 DEF client, At, Goto
<1>7. ASSUME NEW c \in CPU, NEW p \in Proc, lock(c, p) PROVE TypeOK'
  BY <1>7 DEF lock, At, Goto
<1>8. ASSUME NEW c \in CPU, NEW p \in Proc, test(c, p) PROVE TypeOK'
  BY <1>8 DEF test, At, Goto
<1>9. ASSUME NEW c \in CPU, NEW p \in Proc, sleep_acquire(c, p) PROVE TypeOK'
  BY <1>9 DEF sleep_acquire, At, Goto, acquire
<1>10. ASSUME NEW c \in CPU, NEW p \in Proc, sleep_release(c, p) PROVE TypeOK'
  BY <1>10 DEF sleep_release, At, Goto
<1>11. ASSUME NEW c \in CPU, NEW p \in Proc, sleep_set(c, p) PROVE TypeOK'
  BY <1>11 DEF sleep_set, At, Goto
<1>12. ASSUME NEW c \in CPU, interrupt(c) PROVE TypeOK'
  BY <1>12 DEF interrupt, HoldsNone
<1>13. ASSUME NEW c \in CPU, NEW p \in Proc, wakeup(c, p) PROVE TypeOK'
  BY <1>13 DEF wakeup
<1>14. ASSUME NEW c \in CPU, interrupt_end(c) PROVE TypeOK'
  BY <1>14 DEF interrupt_end
<1>15. ASSUME NEW c \in CPU, NEW p \in Proc, exit(c, p) PROVE TypeOK'
  BY <1>15 DEF exit, At, Goto, acquire
<1>16. ASSUME NEW c \in CPU, NEW q \in Proc, NEW p \in Proc, freeproc(c, q, p) PROVE TypeOK'
  BY <1>16 DEF freeproc, At
<1>17. ASSUME NEW c \in CPU, NEW q \in Proc, NEW p \in Proc, fork(c, q, p) PROVE TypeOK'
  BY <1>17 DEF fork, At, Goto
<1> QED
  BY <1>1, <1>2, <1>3, <1>4, <1>5, <1>6, <1>7, <1>8, <1>9, <1>10, <1>11, <1>12, <1>13,
     <1>14, <1>15, <1>16, <1>17, Zenon
     DEF Next, Switch, Step, Handler

(* Every step keeps who holds p->lock where. *)
LEMMA LocksStep ==
  ASSUME SchedAssumption, Inv, Next
  PROVE  Locks'
<1> USE DEF SchedAssumption, Inv, TypeOK, Label, Locks, Locked, Critical, CpuOk, RunOk,
            LeaveOk, OffOk, OneCpuPerStack
<1>1. ASSUME NEW c \in CPU, NEW p \in Proc, scheduler(c, p) PROVE Locks'
  BY <1>1, OffCpu DEF scheduler, acquire
<1>2. ASSUME NEW c \in CPU, NEW p \in Proc, sched(c, p) PROVE Locks'
  BY <1>2 DEF sched, At, Goto
<1>3. ASSUME NEW c \in CPU, scheduler_release(c) PROVE Locks'
  BY <1>3 DEF scheduler_release, release
<1>4. ASSUME NEW c \in CPU, NEW p \in Proc, yield(c, p) PROVE Locks'
  BY <1>4 DEF yield, At, Goto, acquire
<1>5. ASSUME NEW c \in CPU, NEW p \in Proc, back(c, p) PROVE Locks'
  BY <1>5 DEF back, At, Goto, release
<1>6. ASSUME NEW c \in CPU, NEW p \in Proc, client(c, p) PROVE Locks'
  BY <1>6 DEF client, At, Goto
<1>7. ASSUME NEW c \in CPU, NEW p \in Proc, lock(c, p) PROVE Locks'
  BY <1>7 DEF lock, At, Goto
<1>8. ASSUME NEW c \in CPU, NEW p \in Proc, test(c, p) PROVE Locks'
  BY <1>8 DEF test, At, Goto
<1>9. ASSUME NEW c \in CPU, NEW p \in Proc, sleep_acquire(c, p) PROVE Locks'
  BY <1>9 DEF sleep_acquire, At, Goto, acquire
<1>10. ASSUME NEW c \in CPU, NEW p \in Proc, sleep_release(c, p) PROVE Locks'
  BY <1>10 DEF sleep_release, At, Goto
<1>11. ASSUME NEW c \in CPU, NEW p \in Proc, sleep_set(c, p) PROVE Locks'
  BY <1>11 DEF sleep_set, At, Goto
<1>12. ASSUME NEW c \in CPU, interrupt(c) PROVE Locks'
  BY <1>12 DEF interrupt, HoldsNone
<1>13. ASSUME NEW c \in CPU, NEW p \in Proc, wakeup(c, p) PROVE Locks'
  BY <1>13, OffCpu DEF wakeup
<1>14. ASSUME NEW c \in CPU, interrupt_end(c) PROVE Locks'
  BY <1>14 DEF interrupt_end
<1>15. ASSUME NEW c \in CPU, NEW p \in Proc, exit(c, p) PROVE Locks'
  BY <1>15 DEF exit, At, Goto, acquire
<1>16. ASSUME NEW c \in CPU, NEW q \in Proc, NEW p \in Proc, freeproc(c, q, p) PROVE Locks'
  BY <1>16, OffCpu DEF freeproc, At
<1>17. ASSUME NEW c \in CPU, NEW q \in Proc, NEW p \in Proc, fork(c, q, p) PROVE Locks'
  BY <1>17, OffCpu DEF fork, At, Goto
<1> QED
  BY <1>1, <1>2, <1>3, <1>4, <1>5, <1>6, <1>7, <1>8, <1>9, <1>10, <1>11, <1>12, <1>13,
     <1>14, <1>15, <1>16, <1>17, Zenon
     DEF Next, Switch, Step, Handler

(* Every step keeps what the processes that wait rely on. *)
LEMMA WaitingStep ==
  ASSUME SchedAssumption, Inv, Next
  PROVE  Waiting'
<1> USE DEF SchedAssumption, Inv, TypeOK, Label, Locks, Locked, Critical, Waiting
<1>1. ASSUME NEW c \in CPU, NEW p \in Proc, scheduler(c, p) PROVE Waiting'
  BY <1>1 DEF scheduler, acquire
<1>2. ASSUME NEW c \in CPU, NEW p \in Proc, sched(c, p) PROVE Waiting'
  BY <1>2 DEF sched, At, Goto
<1>3. ASSUME NEW c \in CPU, scheduler_release(c) PROVE Waiting'
  BY <1>3 DEF scheduler_release, release
<1>4. ASSUME NEW c \in CPU, NEW p \in Proc, yield(c, p) PROVE Waiting'
  BY <1>4 DEF yield, At, Goto, acquire
<1>5. ASSUME NEW c \in CPU, NEW p \in Proc, back(c, p) PROVE Waiting'
  BY <1>5 DEF back, At, Goto, release, RunOk
<1>6. ASSUME NEW c \in CPU, NEW p \in Proc, client(c, p) PROVE Waiting'
  BY <1>6 DEF client, At, Goto
<1>7. ASSUME NEW c \in CPU, NEW p \in Proc, lock(c, p) PROVE Waiting'
  BY <1>7 DEF lock, At, Goto
<1>8. ASSUME NEW c \in CPU, NEW p \in Proc, test(c, p) PROVE Waiting'
  BY <1>8 DEF test, At, Goto
<1>9. ASSUME NEW c \in CPU, NEW p \in Proc, sleep_acquire(c, p) PROVE Waiting'
  BY <1>9 DEF sleep_acquire, At, Goto, acquire
<1>10. ASSUME NEW c \in CPU, NEW p \in Proc, sleep_release(c, p) PROVE Waiting'
  BY <1>10 DEF sleep_release, At, Goto
<1>11. ASSUME NEW c \in CPU, NEW p \in Proc, sleep_set(c, p) PROVE Waiting'
  BY <1>11 DEF sleep_set, At, Goto
<1>12. ASSUME NEW c \in CPU, interrupt(c) PROVE Waiting'
  <2>1. \A p \in Proc : pc[p] \notin {"sleep", "sleep_release"}
    BY <1>12 DEF interrupt, OffOk, RunOk, LeaveOk
  <2>2. \A p \in Proc : state[p] = "SLEEPING" \/ pc[p] = "sleep_set" => p # run[c]
    BY <1>12 DEF interrupt, HoldsNone, RunOk
  <2> QED
    BY <1>12, <2>1, <2>2 DEF interrupt
<1>13. ASSUME NEW c \in CPU, NEW p \in Proc, wakeup(c, p) PROVE Waiting'
  <2>1. pc[p] # "sleep_set"
    BY <1>13 DEF wakeup, OffOk, RunOk, LeaveOk
  <2> QED
    BY <1>13, <2>1 DEF wakeup
<1>14. ASSUME NEW c \in CPU, interrupt_end(c) PROVE Waiting'
  BY <1>14 DEF interrupt_end
<1>15. ASSUME NEW c \in CPU, NEW p \in Proc, exit(c, p) PROVE Waiting'
  BY <1>15 DEF exit, At, Goto, acquire
<1>16. ASSUME NEW c \in CPU, NEW q \in Proc, NEW p \in Proc, freeproc(c, q, p) PROVE Waiting'
  BY <1>16 DEF freeproc, At
<1>17. ASSUME NEW c \in CPU, NEW q \in Proc, NEW p \in Proc, fork(c, q, p) PROVE Waiting'
  BY <1>17 DEF fork, At, Goto
<1> QED
  BY <1>1, <1>2, <1>3, <1>4, <1>5, <1>6, <1>7, <1>8, <1>9, <1>10, <1>11, <1>12, <1>13,
     <1>14, <1>15, <1>16, <1>17, Zenon
     DEF Next, Switch, Step, Handler

(* Inv is an invariant of Sched, for any processes and CPUs. *)
THEOREM Invariant ==
  ASSUME SchedAssumption
  PROVE  Spec => []Inv
<1>1. Init => Inv
  BY InitInv
<1>2. Inv /\ [Next]_vars => Inv'
  <2>1. ASSUME Inv, Next PROVE Inv'
    BY <2>1, TypeStep, LocksStep, WaitingStep DEF Inv
  <2>2. ASSUME Inv, UNCHANGED vars PROVE Inv'
    BY <2>2
       DEF vars, Inv, TypeOK, Locks, CpuOk, RunOk, LeaveOk, OffOk, OneCpuPerStack, Waiting
  <2> QED
    BY <2>1, <2>2
<1> QED
  BY <1>1, <1>2, PTL DEF Spec

(* No two CPUs are ever on the kernel stack of one process (proc.c:444-508, *)
(* where p->lock is handed over across swtch()).                            *)
THEOREM StackHasOneCpu ==
  ASSUME SchedAssumption
  PROVE  Spec => []OneCpuPerStack
<1>1. Inv => OneCpuPerStack
  BY DEF Inv, Locks
<1> QED
  BY <1>1, Invariant, PTL

(* No wakeup is missed between the test of the condition, release(lk) and   *)
(* the SLEEPING state (proc.c:552-566).                                     *)
THEOREM WakeupNotMissed ==
  ASSUME SchedAssumption
  PROVE  Spec => []NoMissedWakeup
<1>1. Inv => NoMissedWakeup
  BY DEF Inv, Waiting, NoMissedWakeup
<1> QED
  BY <1>1, Invariant, PTL
=============================================================================
