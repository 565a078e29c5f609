------------------------------- MODULE Console -------------------------------
(***************************************************************************)
(* kernel/console.c: console input, cooked and raw.  consoleintr() is one  *)
(* critical section of cons.lock and one step; consoleread() holds the     *)
(* lock from byte to byte and gives it up in sleep(), so the lock is a     *)
(* variable.  r, w and e are unsigned and wrap at Wrap (2^32 in C).        *)
(***************************************************************************)
EXTENDS Naturals, Sequences, FiniteSets

CONSTANTS
  Reader,                  \* processes that read the console
  Plain, NL, CR, CtrlD, CtrlU, CtrlP, BS,   \* keys; BS is ^H and DEL
  Keys,                    \* the keys that are typed
  Modes,                   \* the arguments ttyraw() is called with
  INPUT_BUF_SIZE, Wrap,
  MaxN,                    \* bound: the largest n of a read()
  None

ConsoleAssumption ==
  /\ INPUT_BUF_SIZE \in Nat \ {0} /\ Wrap % INPUT_BUF_SIZE = 0
  /\ Wrap \in Nat /\ INPUT_BUF_SIZE < Wrap
  /\ Keys \subseteq Plain \cup {NL, CR, CtrlD, CtrlU, CtrlP, BS}
  /\ None \notin Reader

VARIABLES
  buf, r, w, e, rawmode,    \* cons
  lock,                     \* cons.lock: the reader that holds it, or None
  pc, n, target, killed     \* per reader

cons == <<buf, r, w, e, rawmode>>
rest == <<lock, pc, n, target, killed>>
vars == <<buf, r, w, e, rawmode, lock, pc, n, target, killed>>

Init ==
  /\ buf = [j \in 0 .. INPUT_BUF_SIZE - 1 |-> NL]
  /\ r = 0 /\ w = 0 /\ e = 0 /\ rawmode = FALSE
  /\ lock = None
  /\ pc = [p \in Reader |-> "user"] /\ n = [p \in Reader |-> 0] /\ target = [p \in Reader |-> 0]
  /\ killed = [p \in Reader |-> FALSE]

Plus(a, d) == (a + d) % Wrap
Minus(a, d) == (a + Wrap - d) % Wrap     \* unsigned a - d
At(a) == buf[a % INPUT_BUF_SIZE]

(* wakeup(&cons.r) *)
wakeup == [p \in Reader |-> IF pc[p] = "asleep" THEN "enter" ELSE pc[p]]

-----------------------------------------------------------------------------
(* consoleintr(c), case by case *)

Store(c) ==
  /\ buf' = [buf EXCEPT ![e % INPUT_BUF_SIZE] = c]
  /\ e' = Plus(e, 1)

(* Faulty: no wakeup(&cons.r). *)
PublishAll_silent == w' = Plus(e, 1) /\ UNCHANGED pc

PublishAll == w' = Plus(e, 1) /\ pc' = wakeup

intr_ctrl_p ==      \* procdump()
  /\ CtrlP \in Keys /\ lock = None
  /\ UNCHANGED vars

(* Kill line: back to w, or to a newline. *)
intr_ctrl_u ==
  /\ CtrlU \in Keys /\ lock = None
  /\ LET len == Minus(e, w)
         stops == {k \in 0 .. len : k = len \/ At(Minus(e, k + 1)) = NL}
     IN e' = Minus(e, CHOOSE k \in stops : \A j \in stops : k <= j)
  /\ UNCHANGED <<buf, r, w, rawmode, rest>>

(* Faulty: edits what was published. *)
intr_backspace_past_w ==
  /\ BS \in Keys /\ lock = None /\ ~rawmode
  /\ e' = IF e # r THEN Minus(e, 1) ELSE e
  /\ UNCHANGED <<buf, r, w, rawmode, rest>>

(* In raw mode the key is stored, whether there is room for it or not. *)
intr_backspace ==
  /\ BS \in Keys /\ lock = None
  /\ IF ~rawmode
     THEN /\ e' = IF e # w THEN Minus(e, 1) ELSE e
          /\ UNCHANGED <<buf, r, w, rawmode, rest>>
     ELSE /\ Store(BS) /\ PublishAll
          /\ UNCHANGED <<r, rawmode, lock, n, target, killed>>

Room == Minus(e, r) < INPUT_BUF_SIZE

intr_key(k) ==
  /\ lock = None /\ Room
  /\ LET c == IF k = CR THEN NL ELSE k IN
     /\ Store(c)
     /\ IF rawmode \/ c \in {NL, CtrlD} \/ Minus(e, r) + 1 = INPUT_BUF_SIZE
        THEN PublishAll
        ELSE UNCHANGED <<w, pc>>
  /\ UNCHANGED <<r, rawmode, lock, n, target, killed>>

consoleintr ==
  \/ intr_ctrl_p \/ intr_ctrl_u \/ intr_backspace
  \/ \E k \in Keys \cap (Plain \cup {NL, CR, CtrlD}) : intr_key(k)

(* console_set_rawmode(), from sys_ttyraw() *)
console_set_rawmode(on) ==
  /\ lock = None /\ rawmode # on
  /\ rawmode' = on
  /\ UNCHANGED <<buf, r, w, e, rest>>

-----------------------------------------------------------------------------
(* consoleread() *)

read(p, k) ==
  /\ pc[p] = "user" /\ ~killed[p]
  /\ n' = [n EXCEPT ![p] = k] /\ target' = [target EXCEPT ![p] = k]
  /\ pc' = [pc EXCEPT ![p] = "enter"]
  /\ UNCHANGED <<cons, lock, killed>>

acquire(p) ==
  /\ pc[p] = "enter" /\ lock = None
  /\ lock' = p
  /\ pc' = [pc EXCEPT ![p] = "loop"]
  /\ UNCHANGED <<cons, n, target, killed>>

Return(p) ==
  /\ lock' = None
  /\ pc' = [pc EXCEPT ![p] = "user"]
  /\ n' = [n EXCEPT ![p] = 0] /\ target' = [target EXCEPT ![p] = 0]

(* n == 0, or nothing to read and the process is killed. *)
read_end(p) ==
  /\ pc[p] = "loop"
  /\ n[p] = 0 \/ (r = w /\ killed[p])
  /\ Return(p)
  /\ UNCHANGED <<cons, killed>>

read_wait(p) ==
  /\ pc[p] = "loop" /\ n[p] > 0 /\ r = w /\ ~killed[p]
  /\ pc' = [pc EXCEPT ![p] = "sleep"]
  /\ UNCHANGED <<cons, lock, n, target, killed>>

sleep(p) ==
  /\ pc[p] = "sleep"
  /\ lock' = None
  /\ pc' = [pc EXCEPT ![p] = "asleep"]
  /\ UNCHANGED <<cons, n, target, killed>>

(* ^D ends the read; it stays in the buffer if bytes were read before it. *)
read_eof(p) ==
  /\ pc[p] = "loop" /\ n[p] > 0 /\ r # w /\ At(r) = CtrlD
  /\ r' = IF n[p] < target[p] THEN r ELSE Plus(r, 1)
  /\ Return(p)
  /\ UNCHANGED <<buf, w, e, rawmode, killed>>

read_byte(p) ==
  /\ pc[p] = "loop" /\ n[p] > 0 /\ r # w /\ At(r) # CtrlD
  /\ r' = Plus(r, 1)
  /\ \/ At(r) # NL /\ n' = [n EXCEPT ![p] = @ - 1] /\ UNCHANGED <<lock, pc, target>>
     \/ Return(p)          \* a whole line, or copyout() failed
  /\ UNCHANGED <<buf, w, e, rawmode, killed>>

kill(p) ==
  /\ ~killed[p]
  /\ killed' = [killed EXCEPT ![p] = TRUE]
  /\ pc' = IF pc[p] = "asleep" THEN [pc EXCEPT ![p] = "enter"] ELSE pc
  /\ UNCHANGED <<cons, lock, n, target>>

consoleread(p) ==
  \/ acquire(p) \/ read_end(p) \/ read_wait(p) \/ sleep(p) \/ read_eof(p) \/ read_byte(p)
  \/ \E k \in 0 .. MaxN : read(p, k)

Next ==
  \/ consoleintr
  \/ \E on \in Modes : console_set_rawmode(on)
  \/ \E p \in Reader : consoleread(p) \/ kill(p)

Spec == Init /\ [][Next]_vars

-----------------------------------------------------------------------------
(* Properties *)

(* The indices stay in the order r, w, e around the ring, at most           *)
(* INPUT_BUF_SIZE apart, as "cons.e = 8 (== cons.r + INPUT_BUF_SIZE)"       *)
(* (docs/xv6_console-2.md:44) has it: no unread key is overwritten.         *)
RingNotOverrun == Minus(w, r) <= Minus(e, r) /\ Minus(e, r) <= INPUT_BUF_SIZE

Span(a, len) == [j \in 1 .. len |-> At(Plus(a, j - 1))]

LQ == INSTANCE LineQueue WITH avail <- Span(r, Minus(w, r)), line <- Span(w, Minus(e, w)),
                              raw <- rawmode, Key <- Plain \cup {NL, CtrlD, BS},
                              Final <- {NL, CtrlD}, Capacity <- INPUT_BUF_SIZE

(* Two steps of raw mode that LQ refuses and the code takes: ^U still      *)
(* erases a line that was typed before the switch, and ^H and DEL are      *)
(* stored in a full buffer.                                                *)
RawGaps == rawmode /\ (intr_ctrl_u \/ (intr_backspace /\ ~Room))

(* Every other step is one of LQ: keys are read once, unchanged and in the *)
(* order they were typed, a line is handed out when it is finished and no  *)
(* earlier, and editing only touches what was not yet handed out.          *)
LineStep == UNCHANGED cons \/ RawGaps \/ [LQ!Next]_(LQ!vars)

(* Nobody sleeps over input: with cons.lock free, a sleeping reader has     *)
(* nothing published to read.                                               *)
SleepersHaveReason == lock = None => \A p \in Reader : pc[p] = "asleep" => r = w

-----------------------------------------------------------------------------
(* The state without the slots of buf that were read or erased. *)
View == <<Span(r, Minus(e, r)), r, w, e, rawmode, rest>>
=============================================================================
