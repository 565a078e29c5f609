----------------------------- MODULE ProcProofs -----------------------------
(***************************************************************************)
(* Two properties of Proc for any number of slots: no process sleeps in    *)
(* wait() over a dead child, and kill() kills whom it is asked to, unless  *)
(* it is asked to kill process 0.                                          *)
(***************************************************************************)
EXTENDS Proc, WellFoundedInduction, TLAPS

States == {"UNUSED", "USED", "SLEEPING", "RUNNABLE", "ZOMBIE"}
Holds == {"exit_wake", "exit_zombie", "wait_scan", "wait_sleep"}
Forks == {"fork_parent", "fork_run"}
Labels == {"user", "wait_wake"} \cup Forks \cup Holds

TypeOK ==
  /\ state \in [Slot -> States] /\ pid \in [Slot -> Nat] /\ killed \in [Slot -> BOOLEAN]
  /\ parent \in [Slot -> Slot \cup {None}] /\ chan \in [Slot -> Slot \cup {None}]
  /\ nextpid \in Nat /\ wait_lock \in Slot \cup {None} /\ reqs \in SUBSET Nat
  /\ pc \in [Slot -> Labels] /\ np \in [Slot -> Slot \cup {None}]

(* Who holds wait_lock. *)
LockHeld == \A s \in Slot : state[s] = "RUNNABLE" /\ pc[s] \in Holds <=> wait_lock = s

(* The slot that fork() fills belongs to it alone until it is RUNNABLE. *)
Forking(s) == state[s] = "RUNNABLE" /\ pc[s] \in Forks
Forked ==
  /\ \A s \in Slot : Forking(s) => np[s] \in Slot /\ state[np[s]] = "USED"
  /\ \A s, t \in Slot : Forking(s) /\ Forking(t) /\ np[s] = np[t] => s = t

(* A process that sleeps does so in wait(), on its own channel. *)
Asleep == \A s \in Slot : state[s] = "SLEEPING" => pc[s] = "wait_wake" /\ chan[s] = s
OwnChannel == \A s \in Slot : chan[s] \in {None, s}

(* A free slot is nobody's child, and so is one that fork() has just taken. *)
FreeSlots ==
  \A s \in Slot : /\ state[s] = "UNUSED" => parent[s] = None
                  /\ At(s, "fork_parent") => parent[np[s]] = None

(* Asleep, or about to be with wait_lock held: there are children, all of   *)
(* them alive, and none that has woken its parent already is still to die.  *)
Waits(s) == state[s] = "SLEEPING" \/ (state[s] = "RUNNABLE" /\ pc[s] = "wait_sleep")
Dying(c) == state[c] = "RUNNABLE" /\ pc[c] = "exit_zombie"
Waiting ==
  \A s \in Slot : Waits(s) =>
    /\ \E c \in Slot : parent[c] = s
    /\ \A c \in Slot : parent[c] = s => state[c] # "ZOMBIE" /\ ~Dying(c)

Inv == TypeOK /\ LockHeld /\ Forked /\ Asleep /\ OwnChannel /\ FreeSlots /\ Waiting

(* Only a slot in use has a pid, and is killed if its pid was given. *)
Asked ==
  /\ \A s \in Slot : state[s] = "UNUSED" => pid[s] = 0 /\ ~killed[s]
  /\ KilledOnlyIfAsked

-----------------------------------------------------------------------------
(* The scans of proc[] find a slot: there is a first one in a nonempty set. *)
LEMMA LeastIn ==
  ASSUME NEW S \in SUBSET Nat, S # {}
  PROVE  Least(S) \in S
<1> DEFINE R == OpToRel(<, Nat)
<1>1. IsWellFoundedOn(R, Nat)
  BY NatLessThanWellFounded, Zenon
<1>2. \A x, y \in Nat : <<y, x>> \in R <=> y < x
  BY Zenon DEF OpToRel
<1> HIDE DEF R
<1>3. PICK x \in S : \A y \in S : <<y, x>> \notin R
  BY <1>1, WFMin, Zenon
<1>4. x \in Nat /\ S \subseteq Nat
  BY Zenon
<1>5. \A y \in S : ~ (y < x)
  BY <1>2, <1>3, <1>4, Zenon
<1>6. \A y \in S : x <= y
  BY <1>4, <1>5
<1> QED
  BY <1>6, Zenon DEF Least

(* What the scans of allocproc(), wait() and kill() come to. *)
LEMMA Scans ==
  /\ Unused # {} => Least(Unused) \in Slot /\ state[Least(Unused)] = "UNUSED"
  /\ \A s \in Slot : Zombies(s) # {} =>
       LET z == Least(Zombies(s)) IN z \in Slot /\ state[z] = "ZOMBIE" /\ parent[z] = s
  /\ \A k \in KillPids : Matches(k) # {} => Least(Matches(k)) \in Slot /\ pid[Least(Matches(k))] = k
<1>1. Slot \subseteq Nat
  BY ProcAssumption DEF Slot
<1>2. Unused # {} => Least(Unused) \in Unused
  BY <1>1, LeastIn, Zenon DEF Unused
<1>3. \A s \in Slot : Zombies(s) # {} => Least(Zombies(s)) \in Zombies(s)
  BY <1>1, LeastIn, Zenon DEF Zombies, Children
<1>4. \A k \in KillPids : Matches(k) # {} => Least(Matches(k)) \in Matches(k)
  BY <1>1, LeastIn, Zenon DEF Matches
<1> QED
  BY <1>2, <1>3, <1>4, Zenon DEF Unused, Zombies, Children, Matches

(* kill() wakes the process it finds. *)
LEMMA Kills ==
  ASSUME NEW k \in KillPids, kill(k)
  PROVE  \E t \in Slot :
           state' = IF state[t] = "SLEEPING" THEN [state EXCEPT ![t] = "RUNNABLE"] ELSE state
  BY Scans, Zenon DEF kill

(* wait() goes on only with a child. *)
LEMMA HasChild == \A s \in Slot : Children(s) # {} => \E c \in Slot : parent[c] = s
  BY Zenon DEF Children

(* initproc is a slot, and no slot is None or 0. *)
LEMMA Slots == initproc \in Slot /\ None \notin Slot /\ Slot \subseteq Nat \ {0}
  BY ProcAssumption DEF Slot, initproc

(* procinit() and userinit() establish the invariants. *)
LEMMA InitInv == Init => Inv /\ Asked
<1> SUFFICES ASSUME Init PROVE Inv /\ Asked
  BY Zenon
<1> USE Slots DEF Init
<1>1. TypeOK
  BY Zenon DEF TypeOK, States, Labels, Holds, Forks
<1>2. LockHeld /\ Forked
  BY Zenon DEF LockHeld, Forked, Forking, Holds, Forks
<1>3. Asleep /\ OwnChannel /\ FreeSlots /\ Waiting
  BY Zenon DEF Asleep, OwnChannel, FreeSlots, Waiting, Waits, At
<1>4. Asked
  BY Zenon DEF Asked, KilledOnlyIfAsked
<1> QED
  BY <1>1, <1>2, <1>3, <1>4, Zenon DEF Inv

(* Every step keeps the types. *)
LEMMA TypeStep ==
  ASSUME Inv, Next
  PROVE  TypeOK'
<1> USE Slots, ProcAssumption DEF Inv, TypeOK, States, Labels, Holds, Forks
<1>1. ASSUME NEW s \in Slot, fork_alloc(s) PROVE TypeOK'
  BY <1>1, Scans DEF fork_alloc, At, Goto
<1>2. ASSUME NEW s \in Slot, fork_fail(s) PROVE TypeOK'
  BY <1>2, Scans DEF fork_fail, At, freeproc
<1>3. ASSUME NEW s \in Slot, fork_parent(s) PROVE TypeOK'
  BY <1>3, Zenon DEF fork_parent, At, Goto
<1>4. ASSUME NEW s \in Slot, fork_run(s) PROVE TypeOK'
  BY <1>4, Zenon DEF fork_run, At
<1>5. ASSUME NEW s \in Slot, exit_reparent(s) PROVE TypeOK'
  BY <1>5, Zenon DEF exit_reparent, At, Goto, Woken, Children
<1>6. ASSUME NEW s \in Slot, exit_wake(s) PROVE TypeOK'
  BY <1>6, Zenon DEF exit_wake, At, Goto, Woken
<1>7. ASSUME NEW s \in Slot, exit_zombie(s) PROVE TypeOK'
  BY <1>7, Zenon DEF exit_zombie, At
<1>8. ASSUME NEW s \in Slot, wait_acquire(s) PROVE TypeOK'
  BY <1>8, Zenon DEF wait_acquire, At, Goto
<1>9. ASSUME NEW s \in Slot, wait_reap(s) PROVE TypeOK'
  BY <1>9, Scans, Zenon DEF wait_reap, At, Goto, freeproc
<1>10. ASSUME NEW s \in Slot, wait_copyout_fails(s) PROVE TypeOK'
  BY <1>10, Zenon DEF wait_copyout_fails, At, Goto, table
<1>11. ASSUME NEW s \in Slot, wait_none(s) PROVE TypeOK'
  BY <1>11 DEF wait_none, At, Goto, table
<1>12. ASSUME NEW s \in Slot, wait_sleep(s) PROVE TypeOK'
  BY <1>12, Zenon DEF wait_sleep, At, Goto
<1>13. ASSUME NEW k \in KillPids, kill(k) PROVE TypeOK'
  BY <1>13, Scans DEF kill
<1> QED
  BY <1>1, <1>2, <1>3, <1>4, <1>5, <1>6, <1>7, <1>8, <1>9, <1>10, <1>11, <1>12, <1>13, Zenon
     DEF Next, fork, exit, wait

(* Every step keeps who holds wait_lock. *)
LEMMA LockStep ==
  ASSUME Inv, Next
  PROVE  LockHeld'
<1> USE Slots DEF Inv, TypeOK, States, Labels, Holds, Forks, LockHeld, Forked, Forking, Asleep
<1>1. ASSUME NEW s \in Slot, fork_alloc(s) PROVE LockHeld'
  BY <1>1, Scans DEF fork_alloc, At, Goto
<1>2. ASSUME NEW s \in Slot, fork_fail(s) PROVE LockHeld'
  BY <1>2, Scans DEF fork_fail, At, freeproc
<1>3. ASSUME NEW s \in Slot, fork_parent(s) PROVE LockHeld'
  BY <1>3 DEF fork_parent, At, Goto
<1>4. ASSUME NEW s \in Slot, fork_run(s) PROVE LockHeld'
  BY <1>4 DEF fork_run, At
<1>5. ASSUME NEW s \in Slot, exit_reparent(s) PROVE LockHeld'
  BY <1>5 DEF exit_reparent, At, Goto, Woken, Children
<1>6. ASSUME NEW s \in Slot, exit_wake(s) PROVE LockHeld'
  BY <1>6 DEF exit_wake, At, Goto, Woken
<1>7. ASSUME NEW s \in Slot, exit_zombie(s) PROVE LockHeld'
  BY <1>7 DEF exit_zombie, At
<1>8. ASSUME NEW s \in Slot, wait_acquire(s) PROVE LockHeld'
  BY <1>8 DEF wait_acquire, At, Goto
<1>9. ASSUME NEW s \in Slot, wait_reap(s) PROVE LockHeld'
  BY <1>9, Scans DEF wait_reap, At, Goto, freeproc
<1>10. ASSUME NEW s \in Slot, wait_copyout_fails(s) PROVE LockHeld'
  BY <1>10 DEF wait_copyout_fails, At, Goto, table
<1>11. ASSUME NEW s \in Slot, wait_none(s) PROVE LockHeld'
  BY <1>11 DEF wait_none, At, Goto, table
<1>12. ASSUME NEW s \in Slot, wait_sleep(s) PROVE LockHeld'
  BY <1>12 DEF wait_sleep, At, Goto
<1>13. ASSUME NEW k \in KillPids, kill(k) PROVE LockHeld'
  <2>1. PICK t \in Slot :
           state' = IF state[t] = "SLEEPING" THEN [state EXCEPT ![t] = "RUNNABLE"] ELSE state
    BY <1>13, Kills, Zenon
  <2>2. UNCHANGED <<parent, chan, wait_lock, pc, np>>
    BY <1>13, Zenon DEF kill
  <2>3. CASE state[t] # "SLEEPING"
    BY <2>1, <2>2, <2>3, Zenon
  <2>4. CASE state[t] = "SLEEPING"
    BY <2>1, <2>2, <2>4
  <2> QED
    BY <2>3, <2>4, Zenon
<1> QED
  BY <1>1, <1>2, <1>3, <1>4, <1>5, <1>6, <1>7, <1>8, <1>9, <1>10, <1>11, <1>12, <1>13, Zenon
     DEF Next, fork, exit, wait

(* Every step keeps what fork() relies on. *)
LEMMA ForkStep ==
  ASSUME Inv, Next
  PROVE  Forked'
<1> USE Slots DEF Inv, TypeOK, States, Labels, Holds, Forks, Forked, Forking, Asleep
<1>1. ASSUME NEW s \in Slot, fork_alloc(s) PROVE Forked'
  BY <1>1, Scans DEF fork_alloc, At, Goto
<1>2. ASSUME NEW s \in Slot, fork_fail(s) PROVE Forked'
  BY <1>2, Scans DEF fork_fail, At, freeproc
<1>3. ASSUME NEW s \in Slot, fork_parent(s) PROVE Forked'
  BY <1>3 DEF fork_parent, At, Goto
<1>4. ASSUME NEW s \in Slot, fork_run(s) PROVE Forked'
  BY <1>4 DEF fork_run, At
<1>5. ASSUME NEW s \in Slot, exit_reparent(s) PROVE Forked'
  BY <1>5 DEF exit_reparent, At, Goto, Woken, Children
<1>6. ASSUME NEW s \in Slot, exit_wake(s) PROVE Forked'
  BY <1>6 DEF exit_wake, At, Goto, Woken
<1>7. ASSUME NEW s \in Slot, exit_zombie(s) PROVE Forked'
  BY <1>7 DEF exit_zombie, At
<1>8. ASSUME NEW s \in Slot, wait_acquire(s) PROVE Forked'
  BY <1>8 DEF wait_acquire, At, Goto
<1>9. ASSUME NEW s \in Slot, wait_reap(s) PROVE Forked'
  BY <1>9, Scans DEF wait_reap, At, Goto, freeproc
<1>10. ASSUME NEW s \in Slot, wait_copyout_fails(s) PROVE Forked'
  BY <1>10 DEF wait_copyout_fails, At, Goto, table
<1>11. ASSUME NEW s \in Slot, wait_none(s) PROVE Forked'
  BY <1>11 DEF wait_none, At, Goto, table
<1>12. ASSUME NEW s \in Slot, wait_sleep(s) PROVE Forked'
  BY <1>12 DEF wait_sleep, At, Goto
<1>13. ASSUME NEW k \in KillPids, kill(k) PROVE Forked'
  BY <1>13, Scans DEF kill
<1> QED
  BY <1>1, <1>2, <1>3, <1>4, <1>5, <1>6, <1>7, <1>8, <1>9, <1>10, <1>11, <1>12, <1>13, Zenon
     DEF Next, fork, exit, wait

(* Every step keeps where sleepers sleep. *)
LEMMA SleepStep ==
  ASSUME Inv, Next
  PROVE  (Asleep /\ OwnChannel /\ FreeSlots)'
<1> USE Slots DEF Inv, TypeOK, States, Labels, Holds, Forks, Asleep, OwnChannel, FreeSlots, Forked, Forking, At
<1>1. ASSUME NEW s \in Slot, fork_alloc(s) PROVE (Asleep /\ OwnChannel /\ FreeSlots)'
  <2>1. PICK n \in Slot : /\ state[n] = "UNUSED"
                         /\ state' = [state EXCEPT ![n] = "USED"] /\ np' = [np EXCEPT ![s] = n]
    BY <1>1, Scans, Zenon DEF fork_alloc
  <2>2. UNCHANGED <<parent, chan>> /\ pc' = [pc EXCEPT ![s] = "fork_parent"] /\ At(s, "user")
    BY <1>1, Zenon DEF fork_alloc, Goto
  <2>3. Asleep' /\ OwnChannel'
    BY <2>1, <2>2
  <2>4. FreeSlots'
    BY <2>1, <2>2
  <2> QED
    BY <2>3, <2>4, Zenon
<1>2. ASSUME NEW s \in Slot, fork_fail(s) PROVE (Asleep /\ OwnChannel /\ FreeSlots)'
  BY <1>2, Scans DEF fork_fail, freeproc
<1>3. ASSUME NEW s \in Slot, fork_parent(s) PROVE (Asleep /\ OwnChannel /\ FreeSlots)'
  BY <1>3 DEF fork_parent, Goto
<1>4. ASSUME NEW s \in Slot, fork_run(s) PROVE (Asleep /\ OwnChannel /\ FreeSlots)'
  BY <1>4 DEF fork_run
<1>5. ASSUME NEW s \in Slot, exit_reparent(s) PROVE (Asleep /\ OwnChannel /\ FreeSlots)'
  BY <1>5 DEF exit_reparent, Goto, Woken, Children
<1>6. ASSUME NEW s \in Slot, exit_wake(s) PROVE (Asleep /\ OwnChannel /\ FreeSlots)'
  BY <1>6 DEF exit_wake, Goto, Woken
<1>7. ASSUME NEW s \in Slot, exit_zombie(s) PROVE (Asleep /\ OwnChannel /\ FreeSlots)'
  BY <1>7 DEF exit_zombie
<1>8. ASSUME NEW s \in Slot, wait_acquire(s) PROVE (Asleep /\ OwnChannel /\ FreeSlots)'
  BY <1>8 DEF wait_acquire, Goto
<1>9. ASSUME NEW s \in Slot, wait_reap(s) PROVE (Asleep /\ OwnChannel /\ FreeSlots)'
  BY <1>9, Scans DEF wait_reap, Goto, freeproc
<1>10. ASSUME NEW s \in Slot, wait_copyout_fails(s) PROVE (Asleep /\ OwnChannel /\ FreeSlots)'
  BY <1>10 DEF wait_copyout_fails, Goto, table
<1>11. ASSUME NEW s \in Slot, wait_none(s) PROVE (Asleep /\ OwnChannel /\ FreeSlots)'
  BY <1>11 DEF wait_none, Goto, table
<1>12. ASSUME NEW s \in Slot, wait_sleep(s) PROVE (Asleep /\ OwnChannel /\ FreeSlots)'
  BY <1>12 DEF wait_sleep, Goto
<1>13. ASSUME NEW k \in KillPids, kill(k) PROVE (Asleep /\ OwnChannel /\ FreeSlots)'
  BY <1>13, Scans DEF kill
<1> QED
  BY <1>1, <1>2, <1>3, <1>4, <1>5, <1>6, <1>7, <1>8, <1>9, <1>10, <1>11, <1>12, <1>13, Zenon
     DEF Next, fork, exit, wait

(* Every step keeps what a process that waits relies on. *)
LEMMA WaitStep ==
  ASSUME Inv, Next
  PROVE  Waiting'
<1> USE Slots DEF Inv, TypeOK, Holds, Forks, LockHeld, Forked, Forking, Asleep, OwnChannel, FreeSlots, Waiting, Waits, Dying, At
<1>1. ASSUME NEW s \in Slot, fork_alloc(s) PROVE Waiting'
  BY <1>1, Scans, SMTT(30) DEF fork_alloc, Goto
<1>2. ASSUME NEW s \in Slot, fork_fail(s) PROVE Waiting'
  BY <1>2, Scans DEF fork_fail, freeproc
<1>3. ASSUME NEW s \in Slot, fork_parent(s) PROVE Waiting'
  BY <1>3 DEF fork_parent, Goto
<1>4. ASSUME NEW s \in Slot, fork_run(s) PROVE Waiting'
  BY <1>4 DEF fork_run
<1>5. ASSUME NEW s \in Slot, exit_reparent(s) PROVE Waiting'
  BY <1>5 DEF exit_reparent, Goto, Woken, Children
<1>6. ASSUME NEW s \in Slot, exit_wake(s) PROVE Waiting'
  BY <1>6 DEF exit_wake, Goto, Woken
<1>7. ASSUME NEW s \in Slot, exit_zombie(s) PROVE Waiting'
  BY <1>7 DEF exit_zombie
<1>8. ASSUME NEW s \in Slot, wait_acquire(s) PROVE Waiting'
  BY <1>8 DEF wait_acquire, Goto
<1>9. ASSUME NEW s \in Slot, wait_reap(s) PROVE Waiting'
  <2> DEFINE z == Least(Zombies(s))
  <2>1. z \in Slot /\ state[z] = "ZOMBIE" /\ parent[z] = s /\ freeproc(z)
    BY <1>9, Scans, Zenon DEF wait_reap
  <2> HIDE DEF z
  <2>2. /\ state' = [state EXCEPT ![z] = "UNUSED"] /\ parent' = [parent EXCEPT ![z] = None]
        /\ pc' = [pc EXCEPT ![s] = "user"] /\ state[s] = "RUNNABLE"
    BY <1>9, <2>1, Zenon DEF wait_reap, Goto, freeproc
  <2>3. ASSUME NEW q \in Slot, Waits(q)' PROVE q # s /\ q # z /\ Waits(q)
    BY <2>1, <2>2, <2>3
  <2> QED
    BY <2>1, <2>2, <2>3
<1>10. ASSUME NEW s \in Slot, wait_copyout_fails(s) PROVE Waiting'
  BY <1>10 DEF wait_copyout_fails, Goto, table
<1>11. ASSUME NEW s \in Slot, wait_none(s) PROVE Waiting'
  <2>1. UNCHANGED <<state, parent>>
    BY <1>11, Zenon DEF wait_none, table
  <2>2. CASE Children(s) = {} \/ killed[s]
    <3>1. pc' = [pc EXCEPT ![s] = "user"]
      BY <1>11, <2>2, Zenon DEF wait_none, Goto
    <3> QED
      BY <2>1, <3>1
  <2>3. CASE ~(Children(s) = {} \/ killed[s])
    <3>1. pc' = [pc EXCEPT ![s] = "wait_sleep"] /\ wait_lock = s
      BY <1>11, <2>3, Zenon DEF wait_none, Goto
    <3>2. \E c \in Slot : parent[c] = s
      BY <2>3, HasChild, Zenon
    <3>3. \A c \in Slot : parent[c] = s => state[c] # "ZOMBIE"
      BY <1>11 DEF wait_none, Zombies, Children
    <3>4. \A c \in Slot : ~Dying(c)
      BY <1>11, <3>1, Zenon DEF wait_none
    <3> QED
      BY <2>1, <3>1, <3>2, <3>3, <3>4
  <2> QED
    BY <2>2, <2>3, Zenon
<1>12. ASSUME NEW s \in Slot, wait_sleep(s) PROVE Waiting'
  BY <1>12 DEF wait_sleep, Goto
<1>13. ASSUME NEW k \in KillPids, kill(k) PROVE Waiting'
  <2>1. PICK t \in Slot :
           state' = IF state[t] = "SLEEPING" THEN [state EXCEPT ![t] = "RUNNABLE"] ELSE state
    BY <1>13, Kills, Zenon
  <2>2. UNCHANGED <<parent, chan, wait_lock, pc, np>>
    BY <1>13, Zenon DEF kill
  <2>3. CASE state[t] # "SLEEPING"
    BY <2>1, <2>2, <2>3
  <2>4. CASE state[t] = "SLEEPING"
    BY <2>1, <2>2, <2>4
  <2> QED
    BY <2>3, <2>4, Zenon
<1> QED
  BY <1>1, <1>2, <1>3, <1>4, <1>5, <1>6, <1>7, <1>8, <1>9, <1>10, <1>11, <1>12, <1>13, Zenon
     DEF Next, fork, exit, wait

-----------------------------------------------------------------------------
(* Every step keeps who is killed, and which slots have a pid. *)
LEMMA AskedStep ==
  ASSUME Inv, Asked, 0 \notin KillPids, Next
  PROVE  Asked'
<1> USE Slots, ProcAssumption DEF Inv, TypeOK, States, Asked, KilledOnlyIfAsked, Forked, Forking, Forks
<1>1. ASSUME NEW s \in Slot, fork_alloc(s) PROVE Asked'
  BY <1>1, Scans, SMTT(30) DEF fork_alloc, At, Goto
<1>2. ASSUME NEW s \in Slot, fork_fail(s) PROVE Asked'
  BY <1>2, Scans DEF fork_fail, At, freeproc
<1>3. ASSUME NEW s \in Slot, fork_parent(s) PROVE Asked'
  BY <1>3, Zenon DEF fork_parent, At, Goto
<1>4. ASSUME NEW s \in Slot, fork_run(s) PROVE Asked'
  BY <1>4, Zenon DEF fork_run, At
<1>5. ASSUME NEW s \in Slot, exit_reparent(s) PROVE Asked'
  BY <1>5, Zenon DEF exit_reparent, At, Goto, Woken, Children
<1>6. ASSUME NEW s \in Slot, exit_wake(s) PROVE Asked'
  BY <1>6, Zenon DEF exit_wake, At, Goto, Woken
<1>7. ASSUME NEW s \in Slot, exit_zombie(s) PROVE Asked'
  BY <1>7, Zenon DEF exit_zombie, At
<1>8. ASSUME NEW s \in Slot, wait_acquire(s) PROVE Asked'
  BY <1>8, Zenon DEF wait_acquire, At, Goto
<1>9. ASSUME NEW s \in Slot, wait_reap(s) PROVE Asked'
  BY <1>9, Scans DEF wait_reap, At, Goto, freeproc
<1>10. ASSUME NEW s \in Slot, wait_copyout_fails(s) PROVE Asked'
  BY <1>10, Zenon DEF wait_copyout_fails, At, Goto, table
<1>11. ASSUME NEW s \in Slot, wait_none(s) PROVE Asked'
  BY <1>11, Zenon DEF wait_none, At, Goto, table
<1>12. ASSUME NEW s \in Slot, wait_sleep(s) PROVE Asked'
  BY <1>12, Zenon DEF wait_sleep, At, Goto
<1>13. ASSUME NEW k \in KillPids, kill(k) PROVE Asked'
  BY <1>13, Scans DEF kill
<1> QED
  BY <1>1, <1>2, <1>3, <1>4, <1>5, <1>6, <1>7, <1>8, <1>9, <1>10, <1>11, <1>12, <1>13, Zenon
     DEF Next, fork, exit, wait
-----------------------------------------------------------------------------
(* The invariants hold throughout every behaviour. *)
LEMMA Invariant == Spec => []Inv
<1>1. Inv /\ UNCHANGED vars => Inv'
  BY
     DEF vars, Inv, TypeOK, LockHeld, Forked, Forking, Asleep, OwnChannel, FreeSlots, At,
         Waiting, Waits, Dying
<1>2. Inv /\ Next => Inv'
  BY TypeStep, LockStep, ForkStep, SleepStep, WaitStep, Zenon DEF Inv
<1> QED
  BY <1>1, <1>2, InitInv, PTL DEF Spec

(* No process sleeps in wait() over a dead child, however many processes    *)
(* there are: exit() wakes its parent and becomes a zombie under wait_lock, *)
(* wait() looks for zombies and goes to sleep under it (proc.c:366-381,     *)
(* 397-433), and reparent() wakes init for the zombies it inherits.         *)
THEOREM ExitNotMissed == Spec => []NoMissedExit
<1>1. Inv => NoMissedExit
  BY Zenon DEF Inv, Waiting, Waits, NoMissedExit, Zombies, Children
<1> QED
  BY <1>1, Invariant, PTL

(* kill() marks the process it was asked to and no other, in whatever order *)
(* slots are freed and reused, as long as nobody asks for pid 0, which is   *)
(* the pid of every free slot (proc.c:155-171, 594-613).                    *)
THEOREM KilledWereAsked ==
  ASSUME 0 \notin KillPids
  PROVE  Spec => []KilledOnlyIfAsked
<1>1. Asked /\ UNCHANGED vars => Asked'
  BY Zenon DEF vars, Asked, KilledOnlyIfAsked
<1>2. Inv /\ Asked /\ Next => Asked'
  BY AskedStep, Zenon
<1>3. Asked => KilledOnlyIfAsked
  BY Zenon DEF Asked
<1> QED
  BY <1>1, <1>2, <1>3, InitInv, Invariant, PTL DEF Spec
=============================================================================
