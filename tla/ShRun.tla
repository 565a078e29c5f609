-------------------------------- MODULE ShRun --------------------------------
(***************************************************************************)
(* runcmd() of user/sh.c: the processes that run one command line.  Each   *)
(* call of runcmd() is a sequence of system calls, taken one at a time and *)
(* interleaved with those of every other process; a program that was       *)
(* executed reads its standard input to the end and exits.  What the       *)
(* kernel does in these calls is modelled here as far as the shell sees it *)
(* (lowest free descriptor, inherited descriptors, EOF without a writer,   *)
(* orphans).                                                               *)
(***************************************************************************)
EXTENDS Integers, FiniteSets, Sequences, SequencesExt

CONSTANTS
  Commands,   \* trees that parsecmd() returns
  NPROC,      \* processes a command can have
  NOFILE

ShRunAssumption ==
  /\ NPROC \in Nat
  /\ NOFILE \in Nat /\ NOFILE > 4

VARIABLES
  todo,     \* the system calls a process has still to make
  ofile,    \* its descriptors: "none", "tty", "file" or an end of a pipe
  pfd,      \* its local p[2]
  parent,   \* of a process that exists, -1 for init
  status,   \* "unused", "running", "zombie" or "gone"
  want,     \* history variable: what descriptors 0 and 1 are meant to be
  npipe     \* pipes made so far

vars == <<todo, ofile, pfd, parent, status, want, npipe>>

(* 0 is the shell, the others its descendants. *)
Pid == 0 .. NPROC
Fds == 0 .. NOFILE - 1
End(kind, k) == [kind |-> kind, pipe |-> k]
Plain(kind) == End(kind, 0)

(* p[0] and p[1] in a call's arguments. *)
R == -1
W == -2

Call(op, fd, arg, child) == [op |-> op, fd |-> fd, arg |-> arg, child |-> child]
Close(fd) == Call("close", fd, 0, <<>>)
Fork(steps) == Call("fork", 0, 0, steps)
Simple(op) == Call(op, 0, 0, <<>>)

(* Faulty: duplicates the end before the descriptor is free. *)
PipeEnd_order(fd, e) == <<Call("dup", fd, e, <<>>), Close(fd), Close(R), Close(W)>>

(* A child of a pipe puts its end e in the place of fd. *)
PipeEnd(fd, e) == <<Close(fd), Call("dup", fd, e, <<>>), Close(R), Close(W)>>

(* Faulty: the parent keeps the write end while it waits. *)
Parent_keeps == <<Close(R), Simple("wait"), Simple("wait"), Close(W)>>

(* The parent of a pipe's two children. *)
Parent == <<Close(R), Close(W), Simple("wait"), Simple("wait")>>

(* runcmd(cmd), which never returns. *)
RECURSIVE runcmd(_)
runcmd(cmd) ==
  CASE cmd.type = "EXEC" ->
         IF cmd.argv = <<>> THEN <<Simple("exit")>> ELSE <<Simple("exec"), Simple("exit")>>
    [] cmd.type = "REDIR" ->
         LET fd == IF cmd.mode = "<" THEN 0 ELSE 1
         IN  <<Close(fd), Call("open", fd, 0, <<>>)>> \o runcmd(cmd.cmd)
    [] cmd.type = "LIST" -> <<Fork(runcmd(cmd.left)), Simple("wait")>> \o runcmd(cmd.right)
    [] cmd.type = "PIPE" ->
         <<Simple("pipe"), Fork(PipeEnd(1, W) \o runcmd(cmd.left)),
           Fork(PipeEnd(0, R) \o runcmd(cmd.right))>> \o Parent \o <<Simple("exit")>>
    [] cmd.type = "BACK" -> <<Fork(runcmd(cmd.cmd)), Simple("exit")>>

(* main(): a child runs the command, the shell waits for it. *)
Init ==
  /\ \E cmd \in Commands :
       todo = [p \in Pid |-> IF p = 0 THEN <<Fork(runcmd(cmd)), Simple("wait")>> ELSE <<>>]
  /\ ofile = [p \in Pid |-> [fd \in Fds |-> Plain(IF p = 0 /\ fd < 3 THEN "tty" ELSE "none")]]
  /\ pfd = [p \in Pid |-> <<0, 0>>]
  /\ parent = [p \in Pid |-> -1]
  /\ status = [p \in Pid |-> IF p = 0 THEN "running" ELSE "unused"]
  /\ want = [p \in Pid |-> [fd \in {0, 1} |-> Plain("tty")]]
  /\ npipe = 0

-----------------------------------------------------------------------------
At(p, op) == status[p] = "running" /\ todo[p] # <<>> /\ Head(todo[p]).op = op
Fd(p, fd) == IF fd = R THEN pfd[p][1] ELSE IF fd = W THEN pfd[p][2] ELSE fd
Free(p) == {fd \in Fds : ofile[p][fd].kind = "none"}
Lowest(S) == CHOOSE fd \in S : \A g \in S : fd <= g
Step(p) == todo' = [todo EXCEPT ![p] = Tail(@)]

close(p) ==
  /\ At(p, "close")
  /\ ofile' = [ofile EXCEPT ![p][Fd(p, Head(todo[p]).fd)] = Plain("none")]
  /\ Step(p)
  /\ UNCHANGED <<pfd, parent, status, want, npipe>>

dup(p) ==
  /\ At(p, "dup")
  /\ LET call == Head(todo[p])
         end  == ofile[p][Fd(p, call.arg)]
     IN  /\ ofile' = [ofile EXCEPT ![p][Lowest(Free(p))] = end]
         /\ want' = [want EXCEPT ![p][call.fd] = end]
  /\ Step(p)
  /\ UNCHANGED <<pfd, parent, status, npipe>>

(* exit(): descriptors are closed and children go to init, which reaps     *)
(* them; the process waits for its own parent.                             *)
Exit(p) ==
  /\ ofile' = [ofile EXCEPT ![p] = [fd \in Fds |-> Plain("none")]]
  /\ todo' = [todo EXCEPT ![p] = <<>>]
  /\ parent' = [q \in Pid |-> IF parent[q] = p THEN -1 ELSE parent[q]]
  /\ status' = [q \in Pid |->
                  IF q = p THEN IF parent[p] = -1 THEN "gone" ELSE "zombie"
                  ELSE IF parent[q] = p /\ status[q] = "zombie" THEN "gone" ELSE status[q]]
  /\ UNCHANGED <<pfd, want, npipe>>

exit(p) == At(p, "exit") /\ Exit(p)

(* PIPE: two descriptors, or pipe() fails and the process exits. *)
pipe(p) ==
  /\ At(p, "pipe")
  /\ \/ /\ LET r == Lowest(Free(p))
               w == Lowest(Free(p) \ {r})
           IN  /\ ofile' = [ofile EXCEPT ![p][r] = End("r", npipe + 1),
                                         ![p][w] = End("w", npipe + 1)]
               /\ pfd' = [pfd EXCEPT ![p] = <<r, w>>]
        /\ npipe' = npipe + 1
        /\ Step(p)
        /\ UNCHANGED <<parent, status, want>>
     \/ Exit(p)

(* REDIR: the file takes the descriptor that was closed, or open() fails   *)
(* and the process exits.                                                  *)
open(p) ==
  /\ At(p, "open")
  /\ \/ /\ ofile' = [ofile EXCEPT ![p][Lowest(Free(p))] = Plain("file")]
        /\ want' = [want EXCEPT ![p][Head(todo[p]).fd] = Plain("file")]
        /\ Step(p)
        /\ UNCHANGED <<pfd, parent, status, npipe>>
     \/ Exit(p)

(* fork1(): the child has copies of the descriptors and of p[2].  When     *)
(* fork() fails the caller panics, which is exit(1).                       *)
fork1(p) ==
  /\ At(p, "fork")
  /\ \/ LET c == Lowest({q \in Pid : status[q] = "unused"})
        IN  /\ todo' = [todo EXCEPT ![p] = Tail(@), ![c] = Head(todo[p]).child]
            /\ ofile' = [ofile EXCEPT ![c] = ofile[p]]
            /\ pfd' = [pfd EXCEPT ![c] = pfd[p]]
            /\ want' = [want EXCEPT ![c] = want[p]]
            /\ parent' = [parent EXCEPT ![c] = p]
            /\ status' = [status EXCEPT ![c] = "running"]
            /\ UNCHANGED npipe
     \/ Exit(p)

(* exec() of a program that reads its input to the end; a failed exec      *)
(* exits at once.                                                          *)
exec(p) ==
  /\ At(p, "exec")
  /\ \/ /\ todo' = [todo EXCEPT ![p] = <<Simple("read"), Simple("exit")>>]
        /\ UNCHANGED <<ofile, pfd, parent, status, want, npipe>>
     \/ Exit(p)

Writers(k) == {q \in Pid : \E fd \in Fds : ofile[q][fd] = End("w", k)}

read(p) ==
  /\ At(p, "read")
  /\ ofile[p][0].kind = "r" => Writers(ofile[p][0].pipe) = {}
  /\ Step(p)
  /\ UNCHANGED <<ofile, pfd, parent, status, want, npipe>>

Children(p) == {q \in Pid : parent[q] = p /\ status[q] \in {"running", "zombie"}}

wait(p) ==
  /\ At(p, "wait")
  /\ \/ Children(p) = {} /\ UNCHANGED status
     \/ \E q \in Children(p) :
          /\ status[q] = "zombie"
          /\ status' = [status EXCEPT ![q] = "gone"]
  /\ Step(p)
  /\ UNCHANGED <<ofile, pfd, parent, want, npipe>>

Syscall(p) ==
  \/ close(p) \/ dup(p) \/ pipe(p) \/ exit(p) \/ open(p) \/ fork1(p) \/ exec(p)
  \/ read(p) \/ wait(p)

Next == \E p \in Pid : Syscall(p)

(* Every process that can run does: the scheduler is round-robin. *)
Fairness == \A p \in Pid : WF_vars(Syscall(p))

Spec == Init /\ [][Next]_vars /\ Fairness

-----------------------------------------------------------------------------
(* A program starts with exactly the descriptors its place in the command  *)
(* gives it: its end of the pipe or the file at 0 and 1, the terminal      *)
(* otherwise, and no other end of any pipe (user/sh.c:262-297).            *)
WiredAsWritten ==
  \A p \in Pid : At(p, "read") =>
    \A fd \in Fds : ofile[p][fd] = IF fd < 2 THEN want[p][fd]
                                  ELSE Plain(IF fd = 2 THEN "tty" ELSE "none")

(* Nothing is left to do: every process has exited, and the shell's wait() *)
(* has returned.                                                           *)
Ended == \A p \in Pid : todo[p] = <<>>
=============================================================================
