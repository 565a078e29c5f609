------------------------------- MODULE Channel -------------------------------
(* What a pipe, and the UART's transmit ring, promise: a bounded FIFO of    *)
(* bytes between two ends.                                                  *)
EXTENDS Naturals, Sequences

CONSTANTS Byte, Capacity

VARIABLES queue, readopen, writeopen

vars == <<queue, readopen, writeopen>>

Init == queue = <<>> /\ readopen = TRUE /\ writeopen = TRUE

Send(x) ==
  /\ readopen /\ writeopen /\ Len(queue) < Capacity
  /\ queue' = Append(queue, x)
  /\ UNCHANGED <<readopen, writeopen>>

Receive ==
  /\ readopen /\ queue # <<>>
  /\ queue' = Tail(queue)
  /\ UNCHANGED <<readopen, writeopen>>

CloseRead == readopen' = FALSE /\ UNCHANGED <<queue, writeopen>>
CloseWrite == writeopen' = FALSE /\ UNCHANGED <<queue, readopen>>

Next == (\E x \in Byte : Send(x)) \/ Receive \/ CloseRead \/ CloseWrite

Spec == Init /\ [][Next]_vars
=============================================================================
