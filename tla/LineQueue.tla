------------------------------ MODULE LineQueue ------------------------------
(* What the console input driver promises.  Keys wait in a line that can be *)
(* edited until it is published; published keys are read once, in order.    *)
(* A line is published when it is finished or the queue is full.  In raw    *)
(* mode every key is published at once and nothing is edited.               *)
EXTENDS Naturals, Sequences

CONSTANTS Key, Final, Capacity

VARIABLES
  avail,   \* published, not yet read
  line,    \* typed, still editable
  raw

vars == <<avail, line, raw>>

Init == avail = <<>> /\ line = <<>> /\ raw = FALSE

Typed == Len(avail) + Len(line)
Finishes(k) == raw \/ k \in Final \/ Typed + 1 = Capacity

Type(k) ==
  /\ Typed < Capacity
  /\ IF Finishes(k) THEN avail' = avail \o Append(line, k) /\ line' = <<>>
     ELSE line' = Append(line, k) /\ UNCHANGED avail
  /\ UNCHANGED raw
Erase ==
  /\ ~raw /\ line # <<>>
  /\ \E k \in 0 .. Len(line) - 1 : line' = SubSeq(line, 1, k)
  /\ UNCHANGED <<avail, raw>>
Read == avail # <<>> /\ avail' = Tail(avail) /\ UNCHANGED <<line, raw>>
Switch == raw' = ~raw /\ UNCHANGED <<avail, line>>

Next == (\E k \in Key : Type(k)) \/ Erase \/ Read \/ Switch

Spec == Init /\ [][Next]_vars
=============================================================================
