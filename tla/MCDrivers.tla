----------------------------- MODULE MCDrivers -----------------------------
(* The two drivers whose processes wait for a device, one in each behaviour: *)
(* part says which one runs and v1 .. v22 are its variables.                *)
EXTENDS Integers, Sequences

CONSTANTS p1, p2, p3, n1, n2, n3, w0, s1, s2, c1, c2, echo, None

VARIABLES part, v1, v2, v3, v4, v5, v6, v7, v8, v9, v10, v11, v12, v13, v14,
          v15, v16, v17, v18, v19, v20, v21, v22
From11 == <<v11, v12, v13, v14, v15, v16, v17, v18, v19, v20, v21, v22>>
vars == <<part, v1, v2, v3, v4, v5, v6, v7, v8, v9, v10, From11>>

(* Descriptors for one request, and one left over. *)
Disk == INSTANCE VirtioDisk WITH Proc <- {p1, p2, p3}, Block <- {n1, n2, n3}, Val <- {w0},
          InitVal <- w0, NUM <- 4, Wrap <- 4, free <- v1, next <- v2, addr <- v3, op <- v4,
          info <- v5, status <- v6, avail <- v7, avail_idx <- v8, used <- v9, dev_idx <- v10,
          used_idx <- v11, busy <- v12, intr <- v13, irq <- v14, fetched <- v15,
          inflight <- v16, disk <- v17, data <- v18, pc <- v19, req <- v20, head <- v21,
          panicked <- v22

Tty == INSTANCE Uart WITH Writer <- {p1, p2}, Sync <- {s1, s2}, Char <- {c1, c2}, Echo <- echo,
         UART_TX_BUF_SIZE <- 2, FIFO <- 3, Wrap <- 4, MaxSync <- 2, uart_tx_buf <- v1,
         uart_tx_w <- v2, uart_tx_r <- v3, uart_tx_lock <- v4, hand <- v5, fifo <- v6,
         irq <- v7, pc <- v8, c <- v9, left <- v10

ASSUME DriverAssumptions == Disk!VirtioDiskAssumption /\ Tty!UartAssumption

-----------------------------------------------------------------------------
Init ==
  \/ part = "disk" /\ Disk!Init
  \/ part = "uart" /\ Tty!Init /\ v11 = 0 /\ v12 = 0 /\ v13 = 0 /\ v14 = 0 /\ v15 = 0 /\ v16 = 0
       /\ v17 = 0 /\ v18 = 0 /\ v19 = 0 /\ v20 = 0 /\ v21 = 0 /\ v22 = 0

OnDisk(A) == part = "disk" /\ A /\ UNCHANGED part
OnUart(A) == part = "uart" /\ A /\ UNCHANGED <<part, From11>>

Next == OnDisk(Disk!Next) \/ OnUart(Tty!Next)

(* The disk goes on with requests, its interrupt reaches the kernel, and a  *)
(* process that spins on vdisk_lock gets it in the end.  Nothing says that  *)
(* a process that is woken for descriptors finds three: another may be      *)
(* faster each time.  The UART sends, the holder of its lock goes on, and   *)
(* an interrupt that is requested is taken; writers need not be scheduled.  *)
Device == Disk!fetch \/ \E h \in Disk!Desc : Disk!complete(h)

Fairness ==
  /\ WF_vars(OnDisk(Device)) /\ WF_vars(OnDisk(Disk!virtio_disk_intr))
  /\ \A p \in {p1, p2, p3} : SF_vars(OnDisk(Disk!virtio_disk_rw(p)))
  /\ WF_vars(OnUart(Tty!send)) /\ WF_vars(OnUart(Tty!uartstart))
  /\ SF_vars(OnUart(v7 /\ Tty!uartintr))

Spec == Init /\ [][Next]_vars /\ Fairness

-----------------------------------------------------------------------------
(* While anyone is in virtio_disk_rw(), some request finishes: processes    *)
(* that wake each other with the descriptors alloc3_desc() gives back never *)
(* block the disk (kernel/virtio_disk.c:199-233).                           *)
DiskProgresses ==
  (part = "disk" /\ Disk!InUse) ~> (part = "disk" /\ Disk!Finished)

(* Every character write() hands to uartputc() is sent once and in order,   *)
(* whatever printf() and the echo send in between, and the FIFO is never    *)
(* given more than it holds (kernel/uart.c:80-191).                         *)
ImplementsWire ==
  /\ part = "uart" => Tty!Wire!Init
  /\ [][part = "uart" => Tty!WireStep]_vars

(* Every character in the ring reaches the UART, even if no one calls       *)
(* uartputc() again, and a writer that sleeps is woken                      *)
(* (kernel/uart.c:86-102, 129-158).                                         *)
Drains ==
  /\ (part = "uart" /\ Tty!Waiting) ~> (part = "uart" /\ Tty!Taken)
  /\ (part = "uart" /\ v8[p1] = "asleep") ~> (part = "uart" /\ v8[p1] # "asleep")
=============================================================================
