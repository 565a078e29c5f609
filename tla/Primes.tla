------------------------------- MODULE Primes -------------------------------
(***************************************************************************)
(* user/primes.c: the sieve as a chain of processes.  Stage s reads from   *)
(* pipe s - 1 and writes to pipe s; pipe 0 comes from the generator, which *)
(* is also the collector at the end of the report pipe.  Pipes carry whole *)
(* ints: PIPESIZE is a multiple of sizeof(int) and every access is of one  *)
(* int, so none is ever split.                                             *)
(***************************************************************************)
EXTENDS Integers, FiniteSets, Sequences

CONSTANTS
  N,          \* the generator sends 2 .. N (280)
  PIPEINTS,   \* ints a pipe holds (PIPESIZE / sizeof(int))
  BUF         \* entries of the collector's buf (64)

IsPrime(n) == n > 1 /\ \A d \in 2 .. n - 1 : n % d # 0
PrimesTo(n) == {k \in 2 .. n : IsPrime(k)}

(* The generator reads no report before it has sent everything, so the     *)
(* report pipe has to hold every prime.                                    *)
PrimesAssumption ==
  /\ N \in Nat /\ PIPEINTS \in Nat /\ BUF \in Nat
  /\ Cardinality(PrimesTo(N)) <= PIPEINTS
  /\ Cardinality(PrimesTo(N)) <= BUF

Stage == 1 .. Cardinality(PrimesTo(N)) + 1
Root == 0

VARIABLES
  pc,       \* where each process is; "none" before its fork
  chan,     \* contents of the pipes, by number
  report,   \* contents of the report pipe
  writers,  \* processes that hold the write end of each pipe
  rwriters, \* processes that hold the write end of the report pipe
  p,        \* the prime of each stage, 0 until it is read
  x,        \* the int a process holds
  buf       \* what the collector has read

vars == <<pc, chan, report, writers, rwriters, p, x, buf>>

(* main() at its calls of pipe(). *)
Init ==
  /\ pc = [s \in {Root} \cup Stage |-> IF s = Root THEN "fork" ELSE "none"]
  /\ chan = [s \in {Root} \cup Stage |-> <<>>]
  /\ report = <<>>
  /\ writers = [s \in {Root} \cup Stage |-> {}]
  /\ rwriters = {}
  /\ p = [s \in Stage |-> 0]
  /\ x = [s \in {Root} \cup Stage |-> 2]
  /\ buf = <<>>

Goto(s, l) == pc' = [pc EXCEPT ![s] = l]
HasRoom(q) == Len(q) < PIPEINTS

(* write_int() to pipe s: write() fails when the fork of its reader, which *)
(* reads to the end, has failed, and nobody looks.                         *)
write_int(s, n) ==
  IF pc[s + 1] = "none" THEN UNCHANGED chan
  ELSE HasRoom(chan[s]) /\ chan' = [chan EXCEPT ![s] = Append(@, n)]

(* The child of a fork closes the write end it will read from. *)
close_inherited(s) ==
  /\ pc[s] = "close"
  /\ writers' = [writers EXCEPT ![s - 1] = @ \ {s}]
  /\ Goto(s, "first")
  /\ UNCHANGED <<chan, report, rwriters, p, x, buf>>

(* primes(): the first int is the stage's prime; without one the stage is  *)
(* the end of the chain.                                                   *)
first(s) ==
  /\ pc[s] = "first"
  /\ \/ /\ chan[s - 1] # <<>>
        /\ p' = [p EXCEPT ![s] = Head(chan[s - 1])]
        /\ chan' = [chan EXCEPT ![s - 1] = Tail(@)]
        /\ Goto(s, "report")
        /\ UNCHANGED rwriters
     \/ /\ chan[s - 1] = <<>> /\ writers[s - 1] = {}
        /\ rwriters' = rwriters \ {s}
        /\ Goto(s, "exit")
        /\ UNCHANGED <<p, chan>>
  /\ UNCHANGED <<report, writers, x, buf>>

report_prime(s) ==
  /\ pc[s] = "report" /\ HasRoom(report)
  /\ report' = Append(report, p[s])
  /\ Goto(s, "fork")
  /\ UNCHANGED <<chan, writers, rwriters, p, x, buf>>

(* pipe(right) and fork(): both processes hold its write end.  Without a   *)
(* child pid is -1, and the parent goes on as if it had one.  Without a    *)
(* pipe both use what happens to be in right[].  In main(), which makes    *)
(* the report pipe too, the parent closes its write end at once.           *)
fork(s) ==
  /\ pc[s] = "fork"
  /\ LET next == IF s = Root THEN "generate" ELSE "filter"
     IN  \/ /\ writers' = [writers EXCEPT ![s] = {s, s + 1}]
            /\ rwriters' = rwriters \cup {s + 1}
            /\ pc' = [pc EXCEPT ![s] = next, ![s + 1] = "close"]
         \/ /\ writers' = [writers EXCEPT ![s] = {s}]
            /\ Goto(s, next)
            /\ UNCHANGED rwriters
         \/ /\ Goto(s, "undefined")
            /\ UNCHANGED <<writers, rwriters>>
  /\ UNCHANGED <<chan, report, p, x, buf>>

(* Faulty: leaves the write end of the right pipe open until exit. *)
filter_open(s) ==
  \/ /\ pc[s] = "filter" /\ chan[s - 1] # <<>>
     /\ x' = [x EXCEPT ![s] = Head(chan[s - 1])]
     /\ chan' = [chan EXCEPT ![s - 1] = Tail(@)]
     /\ Goto(s, IF Head(chan[s - 1]) % p[s] # 0 THEN "write" ELSE "filter")
     /\ UNCHANGED <<report, writers, rwriters, p, buf>>
  \/ /\ pc[s] = "filter" /\ chan[s - 1] = <<>> /\ writers[s - 1] = {}
     /\ Goto(s, "close_report")
     /\ UNCHANGED <<chan, writers, report, rwriters, p, x, buf>>

(* filter_for_p(): an int is read and, unless p divides it, written on; at *)
(* the end of the input both ends are closed.                              *)
filter_for_p(s) ==
  \/ /\ pc[s] = "filter" /\ chan[s - 1] # <<>>
     /\ x' = [x EXCEPT ![s] = Head(chan[s - 1])]
     /\ chan' = [chan EXCEPT ![s - 1] = Tail(@)]
     /\ Goto(s, IF Head(chan[s - 1]) % p[s] # 0 THEN "write" ELSE "filter")
     /\ UNCHANGED <<report, writers, rwriters, p, buf>>
  \/ /\ pc[s] = "filter" /\ chan[s - 1] = <<>> /\ writers[s - 1] = {}
     /\ writers' = [writers EXCEPT ![s] = @ \ {s}]
     /\ Goto(s, "close_report")
     /\ UNCHANGED <<chan, report, rwriters, p, x, buf>>

filter_write(s) ==
  /\ pc[s] = "write"
  /\ write_int(s, x[s])
  /\ Goto(s, "filter")
  /\ UNCHANGED <<report, writers, rwriters, p, x, buf>>

close_report(s) ==
  /\ pc[s] = "close_report"
  /\ rwriters' = rwriters \ {s}
  /\ Goto(s, "wait")
  /\ UNCHANGED <<chan, report, writers, p, x, buf>>

(* wait() returns at once when there is no child. *)
wait(s) ==
  /\ pc[s] = "wait" /\ pc[s + 1] \in {"exit", "none"}
  /\ Goto(s, "exit")
  /\ UNCHANGED <<chan, report, writers, rwriters, p, x, buf>>

(* main(): the generator, then the collector. *)
generate ==
  /\ pc[Root] = "generate"
  /\ IF x[Root] <= N
     THEN /\ write_int(Root, x[Root])
          /\ x' = [x EXCEPT ![Root] = @ + 1]
          /\ UNCHANGED <<pc, writers>>
     ELSE /\ writers' = [writers EXCEPT ![Root] = @ \ {Root}]
          /\ Goto(Root, "collect")
          /\ UNCHANGED <<chan, x>>
  /\ UNCHANGED <<report, rwriters, p, buf>>

collect ==
  /\ pc[Root] = "collect"
  /\ \/ /\ report # <<>>
        /\ report' = Tail(report)
        /\ buf' = IF Len(buf) < BUF THEN Append(buf, Head(report)) ELSE buf
        /\ UNCHANGED pc
     \/ /\ report = <<>> /\ rwriters = {}
        /\ Goto(Root, "wait")
        /\ UNCHANGED <<report, buf>>
  /\ UNCHANGED <<chan, writers, rwriters, p, x>>

StageStep(s) ==
  \/ close_inherited(s) \/ first(s) \/ report_prime(s) \/ fork(s) \/ filter_for_p(s)
  \/ filter_write(s) \/ close_report(s) \/ (s + 1 \in Stage /\ wait(s))

RootStep == fork(Root) \/ generate \/ collect \/ wait(Root)

Next == RootStep \/ \E s \in Stage : StageStep(s)

(* The scheduler runs every process that can run. *)
Fairness == WF_vars(RootStep) /\ \A s \in Stage : WF_vars(StageStep(s))

Spec == Init /\ [][Next]_vars /\ Fairness

-----------------------------------------------------------------------------
(* A pipe() failed. *)
Undefined == \E s \in {Root} \cup Stage : pc[s] = "undefined"

(* Every process is gone and the collector has the smallest primes, in     *)
(* order, one from each stage; all of them when no fork failed.            *)
Sieved ==
  LET stages == {s \in Stage : pc[s] = "exit"}
      primes == PrimesTo(N)
  IN  /\ \A s \in {Root} \cup Stage : pc[s] \in {"exit", "none"}
      /\ Len(buf) = IF stages = Stage THEN Cardinality(primes) ELSE Cardinality(stages)
      /\ \A i \in 1 .. Len(buf) :
           buf[i] \in primes /\ Cardinality({q \in primes : q < buf[i]}) = i - 1
=============================================================================
