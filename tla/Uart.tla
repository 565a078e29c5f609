-------------------------------- MODULE Uart --------------------------------
(***************************************************************************)
(* kernel/uart.c: console output.  write() puts characters in a ring that  *)
(* uartstart() moves to the UART, one each time the UART is idle; printf() *)
(* and the echo of input write to the UART directly, without uart_tx_lock. *)
(* The UART (external) sends what its FIFO holds and asks for an interrupt *)
(* when the FIFO runs empty; reading ISR or writing THR withdraws it.      *)
(*                                                                         *)
(* LSR is read and THR written in separate steps: between the two another  *)
(* CPU may write THR as well.  The ring counters are uint64 in C.          *)
(***************************************************************************)
EXTENDS Naturals, Sequences, FiniteSets

CONSTANTS Writer,             \* processes that write() to the console
          Sync,               \* CPUs that print or echo with uartputc_sync()
          Char, Echo,         \* what write() sends; what uartputc_sync() sends
          UART_TX_BUF_SIZE,
          FIFO,               \* depth of the UART's transmit FIFO
          Wrap,               \* range of the ring counters
          MaxSync,            \* characters printed with uartputc_sync()
          None

UartAssumption ==
  /\ UART_TX_BUF_SIZE \in Nat \ {0} /\ Wrap \in Nat
  /\ Wrap > UART_TX_BUF_SIZE /\ Wrap % UART_TX_BUF_SIZE = 0
  /\ Echo \notin Char /\ None \notin Char /\ None \notin Writer

VARIABLES
  uart_tx_buf, uart_tx_w, uart_tx_r,
  uart_tx_lock,     \* who holds it: a writer, "intr", or None
  hand,             \* the character uartstart() has taken and not yet written
  fifo, irq,        \* the UART
  pc, c,            \* per writer and CPU; the character to be written
  left              \* how many characters may still be printed

vars == <<uart_tx_buf, uart_tx_w, uart_tx_r, uart_tx_lock, hand, fifo, irq, pc, c, left>>
ring == <<uart_tx_buf, uart_tx_w, uart_tx_r>>
uart == <<fifo, irq>>

Init ==
  /\ uart_tx_buf = [k \in 0 .. UART_TX_BUF_SIZE - 1 |-> None]
  /\ uart_tx_w = 0 /\ uart_tx_r = 0 /\ uart_tx_lock = None /\ hand = None
  /\ fifo = <<>> /\ irq = FALSE
  /\ pc = [p \in Writer \cup Sync |-> "idle"] /\ c = [p \in Writer |-> None]
  /\ left = MaxSync

(* Faulty: off by one. *)
Full_late == uart_tx_w = (uart_tx_r + UART_TX_BUF_SIZE + 1) % Wrap

Full == uart_tx_w = (uart_tx_r + UART_TX_BUF_SIZE) % Wrap

Idle == fifo = <<>>                                      \* LSR_TX_IDLE

-----------------------------------------------------------------------------
(* uartputc(), which may sleep *)

call(p, x) ==
  /\ pc[p] = "idle"
  /\ pc' = [pc EXCEPT ![p] = "putc"] /\ c' = [c EXCEPT ![p] = x]
  /\ UNCHANGED <<ring, uart_tx_lock, hand, uart, left>>

putc_sleep(p) ==
  /\ pc[p] = "putc" /\ uart_tx_lock = None /\ Full
  /\ pc' = [pc EXCEPT ![p] = "asleep"]
  /\ UNCHANGED <<ring, uart_tx_lock, hand, uart, c, left>>

(* Faulty: leaves it to the next interrupt to start the UART. *)
putc_store_only(p) ==
  /\ pc[p] = "putc" /\ uart_tx_lock = None /\ ~Full
  /\ uart_tx_buf' = [uart_tx_buf EXCEPT ![uart_tx_w % UART_TX_BUF_SIZE] = c[p]]
  /\ uart_tx_w' = (uart_tx_w + 1) % Wrap
  /\ pc' = [pc EXCEPT ![p] = "idle"] /\ c' = [c EXCEPT ![p] = None]
  /\ UNCHANGED <<uart_tx_r, uart_tx_lock, hand, uart, left>>

putc_store(p) ==
  /\ pc[p] = "putc" /\ uart_tx_lock = None /\ ~Full
  /\ uart_tx_lock' = p
  /\ uart_tx_buf' = [uart_tx_buf EXCEPT ![uart_tx_w % UART_TX_BUF_SIZE] = c[p]]
  /\ uart_tx_w' = (uart_tx_w + 1) % Wrap
  /\ pc' = [pc EXCEPT ![p] = "start"]
  /\ UNCHANGED <<uart_tx_r, hand, uart, c, left>>

uartputc(p) == putc_sleep(p) \/ putc_store(p)

-----------------------------------------------------------------------------
(* uartstart(), by whoever holds uart_tx_lock, and then release() *)

Release ==
  /\ uart_tx_lock' = None
  /\ pc' = [p \in DOMAIN pc |-> IF p = uart_tx_lock THEN "idle" ELSE pc[p]]
  /\ c' = [p \in Writer |-> IF p = uart_tx_lock THEN None ELSE c[p]]

start_empty ==
  /\ uart_tx_lock # None /\ hand = None /\ uart_tx_w = uart_tx_r
  /\ irq' = FALSE                                        \* ReadReg(ISR)
  /\ Release
  /\ UNCHANGED <<ring, hand, fifo, left>>

start_busy ==
  /\ uart_tx_lock # None /\ hand = None /\ uart_tx_w # uart_tx_r /\ ~Idle
  /\ Release
  /\ UNCHANGED <<ring, hand, uart, left>>

start_take ==
  /\ uart_tx_lock # None /\ hand = None /\ uart_tx_w # uart_tx_r /\ Idle
  /\ hand' = uart_tx_buf[uart_tx_r % UART_TX_BUF_SIZE]
  /\ uart_tx_r' = (uart_tx_r + 1) % Wrap
  /\ pc' = [p \in DOMAIN pc |-> IF pc[p] = "asleep" THEN "putc" ELSE pc[p]]
  /\ UNCHANGED <<uart_tx_buf, uart_tx_w, uart_tx_lock, uart, c, left>>

start_thr ==
  /\ hand # None
  /\ fifo' = Append(fifo, hand) /\ irq' = FALSE
  /\ hand' = None
  /\ UNCHANGED <<ring, uart_tx_lock, pc, c, left>>

uartstart == start_empty \/ start_busy \/ start_take \/ start_thr

(* uartintr(), for output or because input has arrived; what it does with   *)
(* input is in Console.                                                     *)
uartintr ==
  /\ uart_tx_lock = None
  /\ uart_tx_lock' = "intr"
  /\ UNCHANGED <<ring, hand, uart, pc, c, left>>

-----------------------------------------------------------------------------
(* uartputc_sync() *)

sync_idle(s) ==
  /\ pc[s] = "idle" /\ left > 0 /\ Idle
  /\ pc' = [pc EXCEPT ![s] = "thr"] /\ left' = left - 1
  /\ UNCHANGED <<ring, uart_tx_lock, hand, uart, c>>

sync_thr(s) ==
  /\ pc[s] = "thr"
  /\ fifo' = Append(fifo, Echo) /\ irq' = FALSE
  /\ pc' = [pc EXCEPT ![s] = "idle"]
  /\ UNCHANGED <<ring, uart_tx_lock, hand, c, left>>

uartputc_sync(s) == sync_idle(s) \/ sync_thr(s)

(* The UART sends a character; empty, it asks for an interrupt. *)
send ==
  /\ fifo # <<>>
  /\ fifo' = Tail(fifo) /\ irq' = (irq \/ Len(fifo) = 1)
  /\ UNCHANGED <<ring, uart_tx_lock, hand, pc, c, left>>

-----------------------------------------------------------------------------
Next ==
  \/ \E p \in Writer : (\E x \in Char : call(p, x)) \/ uartputc(p)
  \/ uartstart \/ uartintr
  \/ \E s \in Sync : uartputc_sync(s)
  \/ send

Spec == Init /\ [][Next]_vars

-----------------------------------------------------------------------------
(* Properties *)

(* What write() has put in and the wire has not seen yet, oldest first. *)
Buffered ==
  [k \in 1 .. (uart_tx_w + Wrap - uart_tx_r) % Wrap |->
     uart_tx_buf[((uart_tx_r + k - 1) % Wrap) % UART_TX_BUF_SIZE]]
InHand == IF hand = None THEN <<>> ELSE <<hand>>
IsChar(x) == x \in Char

Wire == INSTANCE Channel WITH
  Byte <- Char, Capacity <- UART_TX_BUF_SIZE + FIFO,
  queue <- SelectSeq(fifo, IsChar) \o InHand \o Buffered,
  readopen <- TRUE, writeopen <- TRUE

(* Every character write() hands to uartputc() is sent once and in order,   *)
(* whatever printf() and the echo send in between.  uartputc_sync() does    *)
(* not take uart_tx_lock: every CPU may see LSR_TX_IDLE before any of them  *)
(* writes THR, and the FIFO has room for all of them.                       *)
WireStep == [Wire!Next]_(Wire!vars) /\ Len(fifo') <= FIFO

(* A character waits in the ring; uartstart() has taken one out. *)
Waiting == uart_tx_w # uart_tx_r
Taken == hand # None
=============================================================================
