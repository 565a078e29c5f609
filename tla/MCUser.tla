------------------------------- MODULE MCUser -------------------------------
(* The user programs on small inputs, one in each behaviour: part says which *)
(* one runs, and v1 .. v8 are its variables.                                *)
EXTENDS Integers, Sequences

VARIABLES part, v1, v2, v3, v4, v5, v6, v7, v8
vars == <<part, v1, v2, v3, v4, v5, v6, v7, v8>>

Texts(chars, n) == UNION {[1 .. k -> chars] : k \in 0 .. n}

(* Every pattern of up to three characters on every short line, and every   *)
(* cutting of longer inputs.                                                *)
Jobs ==
  {[prog |-> "grep", pattern |-> re, input |-> Append(t, "\n")] :
     re \in Texts({"a", ".", "*", "^", "$"}, 3), t \in Texts({"a", "$"}, 2)}
  \cup {[prog |-> "grep", pattern |-> <<"a">>, input |-> t] : t \in Texts({"a", "b", "\n"}, 5)}
  \cup {[prog |-> "xargs", pattern |-> <<<<"c">>>>, input |-> t] : t \in Texts({"a", " ", "\n"}, 6)}

F == INSTANCE Filters WITH GREPBUF <- 4, XARGSBUF <- 6, MAXARG <- 4,
       job <- v1, input <- v2, buf <- v3, out <- v4, done <- v5, unforked <- v6

G == INSTANCE ShParse WITH MAXARGS <- 3, line <- v1,
       InLines <- Texts({"a", " ", "|", "&", ";", "(", ")", ">", "<"}, 5)
                    \cup Texts({"a", "|", "&", ";", ">"}, 6)

L == INSTANCE ShLine WITH Keys <- {"d", " "}, CD <- <<"d", " ">>, MAX_HISTORY <- 2, max <- 4,
       MaxLines <- 3, MaxGiven <- 2, DIRSIZ <- 2, Entries <- <<<<".">>, <<".", ".">>, <<"d", "d">>>>,
       buf <- v1, screen <- v2, history <- v3, history_count <- v4, history_index <- v5,
       ran <- v6, typed <- v7, shown <- v8

(* The commands as the parser returns them. *)
R == INSTANCE ShRun WITH NPROC <- 5, NOFILE <- 6,
       Commands <- UNION {G!parsecmd(l) :
         l \in {<<"a", "|", "a", ">", "a">>, <<"a", "|", "a", "|", "a">>,
                <<"(", "a", ";", "a", ")", "|", "a">>, <<"a", "|", "a", "&">>,
                <<"a", "|", "(", "a", "&", ")">>, <<"(", "a", "&", ")", "|", "a">>,
                <<"a", "&", ";", "<", "a", "a">>}},
       todo <- v1, ofile <- v2, pfd <- v3, parent <- v4, status <- v5, want <- v6, npipe <- v7

P == INSTANCE Primes WITH N <- 13, PIPEINTS <- 6, BUF <- 6,
       pc <- v1, chan <- v2, report <- v3, writers <- v4, rwriters <- v5, p <- v6, x <- v7, buf <- v8

U == INSTANCE Umalloc WITH NU <- 4, HEAP <- 13, Sizes <- {2, 3, 5},
       ptr <- v1, size <- v2, freep <- v3, brk <- v4, live <- v5

ASSUME UserAssumptions ==
  /\ F!FiltersAssumption /\ G!ShParseAssumption /\ L!ShLineAssumption
  /\ R!ShRunAssumption /\ P!PrimesAssumption /\ U!UmallocAssumption

Init ==
  \/ part = "filters" /\ F!Init /\ v7 = 0 /\ v8 = 0
  \/ part = "parser" /\ G!Init /\ v2 = 0 /\ v3 = 0 /\ v4 = 0 /\ v5 = 0 /\ v6 = 0 /\ v7 = 0 /\ v8 = 0
  \/ part = "editor" /\ L!Init
  \/ part = "runcmd" /\ R!Init /\ v8 = 0
  \/ part = "primes" /\ P!Init
  \/ part = "malloc" /\ U!Init /\ v6 = 0 /\ v7 = 0 /\ v8 = 0

Syscall(p) == part = "runcmd" /\ R!Syscall(p) /\ UNCHANGED <<part, v8>>
RootStep == part = "primes" /\ P!RootStep /\ UNCHANGED part
StageStep(s) == part = "primes" /\ P!StageStep(s) /\ UNCHANGED part

Next ==
  \/ part = "filters" /\ F!Next /\ UNCHANGED <<part, v7, v8>>
  \/ part = "editor" /\ L!Next /\ UNCHANGED part
  \/ \E p \in R!Pid : Syscall(p)
  \/ RootStep \/ \E s \in P!Stage : StageStep(s)
  \/ part = "malloc" /\ U!Next /\ UNCHANGED <<part, v6, v7, v8>>

(* The fairness of ShRun and Primes, each where it runs. *)
Fairness ==
  /\ \A p \in R!Pid : WF_vars(Syscall(p))
  /\ WF_vars(RootStep) /\ \A s \in P!Stage : WF_vars(StageStep(s))

Spec == Init /\ [][Next]_vars /\ Fairness

-----------------------------------------------------------------------------
(* grep writes, and xargs executes, exactly what the lines of the input     *)
(* call for, but for lines whose fork() failed, however reads cut it        *)
(* (user/grep.c:18, user/xargs.c:53).                                       *)
FilteredExactly == part = "filters" => F!FilteredExactly

(* parsecmd() accepts exactly the lines of the shell's grammar and returns  *)
(* the one tree it has for them (user/sh.c:447-675).                        *)
ParsedByGrammar == part = "parser" => G!ParsedByGrammar

(* The line editor shows the line that ENTER will run, and recall shows the *)
(* last MAX_HISTORY lines given before (user/sh.c:85-177).                  *)
ShowsTyped == part = "editor" => L!ShowsTyped

(* A program that runcmd() starts has the ends of pipes and the files its   *)
(* place in the command gives it, and no other descriptor of a pipe         *)
(* (user/sh.c:262-297).                                                     *)
WiredAsWritten == part = "runcmd" => R!WiredAsWritten

(* Every command comes to an end, whichever fork, open or exec failed: no   *)
(* process keeps the write end of a pipe that another one reads to its end, *)
(* and the shell's wait() returns (user/sh.c:280-302, 349-351).             *)
CommandEnds == part = "runcmd" ~> (part = "runcmd" /\ R!Ended)

(* The sieve ends with every process of the chain gone and exactly the      *)
(* primes in the collector's buffer, in order: every stage sees the end of  *)
(* its input although the numbers do not fit one pipe.  When a fork() fails *)
(* it still ends, with the smallest primes, one for each stage there is.    *)
(* Only when a pipe() fails nothing is promised: the descriptors of the     *)
(* pipe are used all the same, uninitialized (user/primes.c:94-175).        *)
SieveEnds == part = "primes" ~> (part = "primes" /\ (P!Sieved \/ P!Undefined))

(* malloc() and free() keep every unit of the heap in exactly one block,    *)
(* and free blocks that touch are joined (user/umalloc.c:24-90).            *)
HeapTiled == part = "malloc" => U!HeapTiled
=============================================================================
