------------------------------- MODULE TxDisk -------------------------------
(***************************************************************************)
(* What the logging layer promises to the file system: a disk on which the *)
(* block writes of a group of system calls become durable all together, at *)
(* a moment when no system call is in progress, or not at all.             *)
(***************************************************************************)
CONSTANTS Proc, Block, Val, InitVal

VARIABLES
  durable,   \* what a reboot recovers, per block
  pending,   \* what system calls read, per block
  active     \* processes between begin_op() and end_op()

vars == <<durable, pending, active>>

Init ==
  /\ durable = [b \in Block |-> InitVal]
  /\ pending = durable
  /\ active = {}

Begin(p) ==
  /\ p \notin active
  /\ active' = active \cup {p}
  /\ UNCHANGED <<durable, pending>>

Write(p, b, v) ==
  /\ p \in active
  /\ pending' = [pending EXCEPT ![b] = v]
  /\ UNCHANGED <<durable, active>>

End(p) ==
  /\ p \in active
  /\ active' = active \ {p}
  /\ UNCHANGED <<durable, pending>>

(* Group commit: only between system calls, and of everything written. *)
Commit ==
  /\ active = {}
  /\ durable' = pending
  /\ UNCHANGED <<pending, active>>

(* Power is lost: exactly the last commit survives. *)
Crash ==
  /\ pending' = durable
  /\ active' = {}
  /\ UNCHANGED durable

Next ==
  \/ \E p \in Proc : Begin(p) \/ End(p)
  \/ \E p \in Proc, b \in Block, v \in Val : Write(p, b, v)
  \/ Commit
  \/ Crash

Spec == Init /\ [][Next]_vars
=============================================================================
