-------------------------------- MODULE Pipe --------------------------------
(***************************************************************************)
(* kernel/pipe.c.  pi->lock is a variable: pipewrite() and piperead() hold *)
(* it from byte to byte, and only kill(), which does not take it, comes in *)
(* between.  nread and nwrite are unsigned and wrap at Wrap (2^32 in C).   *)
(***************************************************************************)
EXTENDS Naturals, Sequences

CONSTANTS
  Writers, Readers,   \* processes that hold the write end, the read end
  Byte,
  PIPESIZE,
  Wrap,               \* the range of a uint: a multiple of PIPESIZE
  Lengths,            \* bound: the n a read() or write() is called with
  None

ASSUME PipeAssumption ==
  /\ Writers \cap Readers = {} /\ None \notin Writers \cup Readers
  /\ PIPESIZE \in Nat \ {0} /\ Wrap \in Nat /\ Wrap > PIPESIZE /\ Wrap % PIPESIZE = 0
  /\ Lengths \subseteq Nat

Proc == Writers \cup Readers

VARIABLES
  data, nread, nwrite, readopen, writeopen,   \* struct pipe
  lock,                                       \* pi->lock: its holder or None
  pc, i, n, killed,                           \* per process
  freed                                       \* times kfree(pi) was called

pipe == <<data, nread, nwrite, readopen, writeopen>>
vars == <<data, nread, nwrite, readopen, writeopen, lock, pc, i, n, killed, freed>>

(* pipealloc(); kalloc() has filled the page with one junk byte. *)
Init ==
  /\ data = [k \in 0 .. PIPESIZE - 1 |-> CHOOSE x \in Byte : TRUE]
  /\ nread = 0 /\ nwrite = 0
  /\ readopen = TRUE /\ writeopen = TRUE
  /\ lock = None
  /\ pc = [p \in Proc |-> "user"] /\ i = [p \in Proc |-> 0] /\ n = [p \in Proc |-> 0]
  /\ killed = [p \in Proc |-> FALSE]
  /\ freed = 0

-----------------------------------------------------------------------------
Goto(p, l) == pc' = [pc EXCEPT ![p] = l]

(* wakeup(&pi->nread) when S = Readers, wakeup(&pi->nwrite) when Writers. *)
wakeup(f, S) == [p \in Proc |-> IF p \in S /\ f[p] = "asleep" THEN "enter" ELSE f[p]]

(* return from the call: release(&pi->lock), and what the pc function f says. *)
Return(p, f) ==
  /\ lock' = None
  /\ pc' = [f EXCEPT ![p] = "user"]
  /\ i' = [i EXCEPT ![p] = 0] /\ n' = [n EXCEPT ![p] = 0]

Full == nwrite = (nread + PIPESIZE) % Wrap
Empty == nread = nwrite

(* read(fd, addr, k) or write(fd, addr, k); a killed process goes no        *)
(* further than exit(), which closes its ends.                              *)
call(p, k) ==
  /\ pc[p] = "user" /\ ~killed[p]
  /\ IF p \in Writers THEN writeopen ELSE readopen
  /\ n' = [n EXCEPT ![p] = k]
  /\ Goto(p, "enter")
  /\ UNCHANGED <<pipe, lock, i, killed, freed>>

(* acquire(&pi->lock), on entry or at the end of sleep(). *)
acquire(p) ==
  /\ pc[p] = "enter" /\ lock = None
  /\ lock' = p
  /\ Goto(p, IF p \in Writers THEN "write" ELSE "wait")
  /\ UNCHANGED <<pipe, i, n, killed, freed>>

(* sleep(&pi->nwrite, &pi->lock) or sleep(&pi->nread, &pi->lock). *)
sleep(p) ==
  /\ pc[p] = "sleep"
  /\ lock' = None
  /\ Goto(p, "asleep")
  /\ UNCHANGED <<pipe, i, n, killed, freed>>

-----------------------------------------------------------------------------
(* pipewrite(), at the head of its loop *)

write_end(p) ==     \* i == n, or copyin() fails
  /\ pc[p] = "write"
  /\ i[p] = n[p] \/ (readopen /\ ~killed[p] /\ ~Full)
  /\ Return(p, wakeup(pc, Readers))
  /\ UNCHANGED <<pipe, killed, freed>>

write_fail(p) ==    \* return -1: no wakeup
  /\ pc[p] = "write" /\ i[p] < n[p]
  /\ ~readopen \/ killed[p]
  /\ Return(p, pc)
  /\ UNCHANGED <<pipe, killed, freed>>

write_full(p) ==
  /\ pc[p] = "write" /\ i[p] < n[p] /\ readopen /\ ~killed[p] /\ Full
  /\ pc' = [wakeup(pc, Readers) EXCEPT ![p] = "sleep"]
  /\ UNCHANGED <<pipe, lock, i, n, killed, freed>>

(* Faulty: advances nwrite before it stores. *)
write_byte_swapped(p, x) ==
  /\ pc[p] = "write" /\ i[p] < n[p] /\ readopen /\ ~killed[p] /\ ~Full
  /\ nwrite' = (nwrite + 1) % Wrap
  /\ data' = [data EXCEPT ![nwrite' % PIPESIZE] = x]
  /\ i' = [i EXCEPT ![p] = @ + 1]
  /\ UNCHANGED <<nread, readopen, writeopen, lock, pc, n, killed, freed>>

write_byte(p, x) ==
  /\ pc[p] = "write" /\ i[p] < n[p] /\ readopen /\ ~killed[p] /\ ~Full
  /\ data' = [data EXCEPT ![nwrite % PIPESIZE] = x]
  /\ nwrite' = (nwrite + 1) % Wrap
  /\ i' = [i EXCEPT ![p] = @ + 1]
  /\ UNCHANGED <<nread, readopen, writeopen, lock, pc, n, killed, freed>>

-----------------------------------------------------------------------------
(* piperead() *)

read_wait(p) ==     \* while(pi->nread == pi->nwrite && pi->writeopen)
  /\ pc[p] = "wait"
  /\ \/ (~Empty \/ ~writeopen) /\ Goto(p, "copy") /\ UNCHANGED <<lock, i, n>>
     \/ Empty /\ writeopen /\ killed[p] /\ Return(p, pc)
     \/ Empty /\ writeopen /\ ~killed[p] /\ Goto(p, "sleep") /\ UNCHANGED <<lock, i, n>>
  /\ UNCHANGED <<pipe, killed, freed>>

read_byte(p) ==
  /\ pc[p] = "copy" /\ i[p] < n[p] /\ ~Empty
  /\ nread' = (nread + 1) % Wrap
  /\ \/ i' = [i EXCEPT ![p] = @ + 1] /\ UNCHANGED <<lock, pc, n>>
     \/ Return(p, wakeup(pc, Writers))      \* copyout() fails: the byte is gone
  /\ UNCHANGED <<data, nwrite, readopen, writeopen, killed, freed>>

read_end(p) ==
  /\ pc[p] = "copy" /\ (i[p] = n[p] \/ Empty)
  /\ Return(p, wakeup(pc, Writers))
  /\ UNCHANGED <<pipe, killed, freed>>

-----------------------------------------------------------------------------
(* pipeclose(), from the last fileclose() of an end: no process that holds  *)
(* the end is inside a call on it.                                          *)
AllOut(S) == \A p \in S : pc[p] = "user"

(* Faulty: wakes no one. *)
pipeclose_silent(writable) ==
  /\ lock = None
  /\ IF writable THEN writeopen /\ AllOut(Writers) ELSE readopen /\ AllOut(Readers)
  /\ writeopen' = (writeopen /\ ~writable) /\ readopen' = (readopen /\ writable)
  /\ freed' = IF ~readopen' /\ ~writeopen' THEN freed + 1 ELSE freed
  /\ UNCHANGED <<data, nread, nwrite, lock, pc, i, n, killed>>

pipeclose(writable) ==
  /\ lock = None
  /\ IF writable
     THEN /\ writeopen /\ AllOut(Writers)
          /\ writeopen' = FALSE /\ pc' = wakeup(pc, Readers) /\ UNCHANGED readopen
     ELSE /\ readopen /\ AllOut(Readers)
          /\ readopen' = FALSE /\ pc' = wakeup(pc, Writers) /\ UNCHANGED writeopen
  /\ freed' = IF ~readopen' /\ ~writeopen' THEN freed + 1 ELSE freed
  /\ UNCHANGED <<data, nread, nwrite, lock, i, n, killed>>

(* kill(): a sleeper becomes runnable and takes pi->lock again. *)
kill(p) ==
  /\ ~killed[p]
  /\ killed' = [killed EXCEPT ![p] = TRUE]
  /\ pc' = IF pc[p] = "asleep" THEN [pc EXCEPT ![p] = "enter"] ELSE pc
  /\ UNCHANGED <<pipe, lock, i, n, freed>>

-----------------------------------------------------------------------------
Holding(p) ==
  \/ write_end(p) \/ write_fail(p) \/ write_full(p) \/ (\E x \in Byte : write_byte(p, x))
  \/ read_wait(p) \/ read_byte(p) \/ read_end(p) \/ sleep(p)

Next ==
  \/ \E p \in Proc : acquire(p) \/ Holding(p) \/ kill(p) \/ \E k \in Lengths : call(p, k)
  \/ \E w \in BOOLEAN : pipeclose(w)

Spec == Init /\ [][Next]_vars

(* The holder of the lock goes on, and a process waiting for it gets it. *)
Fairness == \A p \in Proc : WF_vars(Holding(p)) /\ SF_vars(acquire(p))

FairSpec == Spec /\ Fairness

-----------------------------------------------------------------------------
(* Properties *)

Count == (nwrite + Wrap - nread) % Wrap

Queue == [k \in 1 .. Count |-> data[(nread + k - 1) % PIPESIZE]]

Fifo == INSTANCE Channel WITH queue <- Queue, Capacity <- PIPESIZE

(* A pipe is a FIFO: bytes come out once, unchanged and in the order in     *)
(* which they went in, whatever the interleaving of readers and writers.    *)
ImplementsFifo == Fifo!Spec

InCall(p) == pc[p] # "user"

(* Once the other end is closed every read() and write() returns, whether   *)
(* pipeclose() found it asleep, about to sleep, or waiting for the lock.    *)
CallsReturn ==
  /\ \A p \in Writers : (InCall(p) /\ ~readopen) ~> ~InCall(p)
  /\ \A p \in Readers : (InCall(p) /\ ~writeopen) ~> ~InCall(p)
=============================================================================
