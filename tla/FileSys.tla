------------------------------- MODULE FileSys -------------------------------
(***************************************************************************)
(* The name space of the file system: the inode table, directories and     *)
(* path lookup of kernel/fs.c, the file table of kernel/file.c, and the    *)
(* system calls of kernel/sysfile.c that create, link, unlink, open and    *)
(* close.  Each acquire of a sleep lock, each itable.lock section and each *)
(* begin_op() is a step of its own, so that lookups, removals and frees    *)
(* interleave wherever the code lets them.                                 *)
(*                                                                         *)
(* A directory is the function from names to inode numbers that its        *)
(* entries define (0 for no entry); contents and sizes are FileData's, so  *)
(* a directory entry may fail to be written for want of a block.  A path   *)
(* is the sequence of the names that skipelem() finds in it.  The inode    *)
(* table has one place for each inode number, as iget() finds an inode by  *)
(* its number, of which NINODE may be in use.  The log is a limit on the   *)
(* number of operations that run at once.  A panic stops the kernel.       *)
(***************************************************************************)
EXTENDS Integers, Sequences, FiniteSets, SequencesExt, TLC

CONSTANTS
  Proc, Proc1,   \* processes; one that never exits
  Starts,        \* how it may start: the inodes on disk, and the working
                 \* directories of the processes (see IsStart)
  Inum,          \* inode numbers: positive integers with ROOTINO
  Names,         \* names of directory entries, without "." and ".."
  File,          \* the entries of ftable
  NOFILE,        \* descriptors of a process
  NINODE,        \* entries of itable
  Calls,         \* the system calls that processes make (see IsCall)
  MaxOps,        \* operations that the log has room for
  MaxCalls       \* bound on the number of calls of all processes

ROOTINO == 1
Types == {"dir", "file", "dev"}
Paths == Seq(Names \cup {".", ".."})

(* abs: the path starts with "/"; to: the new path of link. *)
IsCall(c) ==
  /\ DOMAIN c = {"op", "abs", "path", "to", "rdonly"}
  /\ c.op \in {"open", "create", "mkdir", "mknod", "link", "unlink", "chdir", "exec"}
  /\ c.path \in Paths /\ c.to \in Paths /\ {c.abs, c.rdonly} \subseteq BOOLEAN

IsStart(s) ==
  /\ DOMAIN s.image = Inum /\ Proc1 \in DOMAIN s.cwd /\ DOMAIN s.cwd \subseteq Proc
  /\ \A p \in DOMAIN s.cwd : s.image[s.cwd[p]].type = "dir"

ASSUME FileSysAssumption ==
  /\ 0 \notin Proc /\ Inum \subseteq Nat \ {0} /\ ROOTINO \in Inum /\ \A s \in Starts : IsStart(s)
  /\ 0 \notin File /\ {NOFILE, NINODE, MaxOps} \subseteq Nat \ {0} /\ MaxCalls \in Nat
  /\ {".", ".."} \cap Names = {} /\ \A c \in Calls : IsCall(c)

VARIABLES
  dinode,    \* inodes on disk: type, nlink, and the entries of a directory
  itable,    \* inodes in memory: ref, valid, type, nlink, and lock's holder
  ftable,    \* open files: ref and inode
  proc,      \* of each process: cwd, ofile, and its call (see Idle)
  panicked,  \* <<>>, or the message of panic() and the process that called it
  lost,      \* history: a directory was freed with entries in it
  calls      \* the number of calls made, for MaxCalls

vars == <<dinode, itable, ftable, proc, panicked, lost, calls>>

NoEntries == [n \in Names \cup {".", ".."} |-> 0]
NoInode == [type |-> "none", nlink |-> 0, ent |-> NoEntries]
NoRef == [ref |-> 0, valid |-> FALSE, type |-> "none", nlink |-> 0, lock |-> 0]

(* A process between calls.  todo: what is to be done before the call goes  *)
(* on at pc, a sequence of inode and log operations.  ip, dp and old are    *)
(* the references to inodes that its local variables hold, 0 for none.      *)
Idle == [live |-> TRUE, cwd |-> ROOTINO, ofile |-> [fd \in 1 .. NOFILE |-> 0],
         pc |-> "idle", todo |-> <<>>, inop |-> FALSE, call |-> <<>>,
         path |-> <<>>, name |-> "", ip |-> 0, dp |-> 0, old |-> 0]
Unused == [Idle EXCEPT !.live = FALSE, !.cwd = 0]

Init ==
  /\ \E s \in Starts :
       LET live == DOMAIN s.cwd IN
       /\ dinode = s.image
       /\ itable = [i \in Inum |->
                      [NoRef EXCEPT !.ref = Cardinality({p \in live : s.cwd[p] = i})]]
       /\ proc = [p \in Proc |-> IF p \in live THEN [Idle EXCEPT !.cwd = s.cwd[p]] ELSE Unused]
  /\ ftable = [f \in File |-> [ref |-> 0, ip |-> 0]]
  /\ panicked = <<>> /\ lost = FALSE
  /\ calls = 0

-----------------------------------------------------------------------------
(* Operations on the inode table t and the disk's inodes d. *)

(* panic(msg) by p if bad.  What else the step does no longer matters. *)
Panics(p, bad, msg) == panicked' = IF bad THEN <<msg, p>> ELSE <<>>

(* iget(): the inode's entry, or an empty one. *)
NoEntry(i) ==
  itable[i].ref = 0 /\ Cardinality({j \in Inum : itable[j].ref > 0}) >= NINODE
PanicsNoEntry(p, i) == Panics(p, NoEntry(i), "iget: no inodes")

iget(t, i) ==
  IF t[i].ref > 0 THEN [t EXCEPT ![i].ref = @ + 1]
  ELSE [t EXCEPT ![i].ref = 1, ![i].valid = FALSE]

idup(t, i) == [t EXCEPT ![i].ref = @ + 1]

iupdate(d, t, i) == [d EXCEPT ![i].type = t[i].type, ![i].nlink = t[i].nlink]

nlink(t, i, n) == [t EXCEPT ![i].nlink = @ + n]
setlinks(t, i, n) == [t EXCEPT ![i].nlink = n]
unlock(t, i) == [t EXCEPT ![i].lock = 0]

dirlookup(dp, name) == dinode[dp].ent[name]

(* dirlink(), when the name is not taken and there is a block for it. *)
dirlink(d, dp, name, inum) == [d EXCEPT ![dp].ent[name] = inum]

First(S) == IF S = {} THEN 0 ELSE Min(S)

(* The first free inode on disk, file and descriptor; 0 if there is none. *)
ialloc == First({i \in Inum : dinode[i].type = "none"})
filealloc == First({f \in File : ftable[f].ref = 0})
fdalloc(p) == First({fd \in 1 .. NOFILE : proc[p].ofile[fd] = 0})

filedup(t, f, n) == [t EXCEPT ![f].ref = @ + n]

(* Whether "." and ".." are all there is. *)
isdirempty(dp) == \A n \in Names : dinode[dp].ent[n] = 0

(* The process's next state: go on at pc after todo. *)
Go(p, pc, todo, new) == [proc EXCEPT ![p] = [new EXCEPT !.pc = pc, !.todo = todo]]

Lock(i) == <<"lock", i>>
Unlock(i) == <<"unlock", i>>
Put(i) == <<"put", i>>
Drop(i) == <<Unlock(i), Put(i)>>      \* iunlockput()
Begin == <<"begin", 0>>
End == <<"end", 0>>

(* The call is over; its locals are gone. *)
Return(p, todo) ==
  Go(p, "idle", todo \o <<End>>,
     [proc[p] EXCEPT !.call = <<>>, !.path = <<>>, !.name = "", !.ip = 0, !.dp = 0, !.old = 0])

-----------------------------------------------------------------------------
(* What is in todo.                                                        *)

Todo(p, what) == proc[p].todo # <<>> /\ Head(proc[p].todo)[1] = what
Of(p) == Head(proc[p].todo)[2]
Done(p) == [proc EXCEPT ![p].todo = Tail(@)]
Becomes(p, what) == [proc EXCEPT ![p].todo = <<<<what, Of(p)>>>> \o Tail(@)]

begin_op(p) ==
  /\ Todo(p, "begin")
  /\ Cardinality({q \in Proc : proc[q].inop}) < MaxOps
  /\ proc' = [Done(p) EXCEPT ![p].inop = TRUE]
  /\ UNCHANGED <<dinode, itable, ftable, panicked, lost>>

end_op(p) ==
  /\ Todo(p, "end")
  /\ proc' = [Done(p) EXCEPT ![p].inop = FALSE]
  /\ UNCHANGED <<dinode, itable, ftable, panicked, lost>>

(* ilock(): a first use reads the inode, which must not be free. *)
ilock(p) ==
  LET i == Of(p)
      e == itable[i]
  IN  /\ Todo(p, "lock")
      /\ e.lock = 0
      /\ itable' = [itable EXCEPT ![i] =
                      IF e.valid THEN [e EXCEPT !.lock = p]
                      ELSE [e EXCEPT !.lock = p, !.valid = TRUE,
                                     !.type = dinode[i].type, !.nlink = dinode[i].nlink]]
      /\ IF e.ref < 1 THEN Panics(p, TRUE, "ilock")
         ELSE Panics(p, ~e.valid /\ dinode[i].type = "none", "ilock: no type")
      /\ proc' = Done(p)
      /\ UNCHANGED <<dinode, ftable, lost>>

iunlock(p) ==
  /\ Todo(p, "unlock")
  /\ Panics(p, itable[Of(p)].lock # p \/ itable[Of(p)].ref < 1, "iunlock")
  /\ itable' = unlock(itable, Of(p))
  /\ proc' = Done(p)
  /\ UNCHANGED <<dinode, ftable, lost>>

(* Faulty: frees an inode that others use. *)
Abandoned_used(e) == e.valid /\ e.nlink = 0
Abandoned(e) == e.ref = 1 /\ e.valid /\ e.nlink = 0

(* iput(): the last reference to an inode without links frees the inode.    *)
(* The sleep lock is taken with itable.lock held and must be free.          *)
iput(p) ==
  LET e == itable[Of(p)] IN
  /\ Todo(p, "put")
  /\ IF Abandoned(e)
     THEN /\ Panics(p, e.lock # 0, "sched locks")
          /\ itable' = [itable EXCEPT ![Of(p)].lock = p]
          /\ proc' = Becomes(p, "free")
     ELSE /\ itable' = [itable EXCEPT ![Of(p)].ref = @ - 1]
          /\ proc' = Done(p)
          /\ UNCHANGED panicked
  /\ UNCHANGED <<dinode, ftable, lost>>

(* itrunc(), type = 0, iupdate(): ialloc() can find the inode from now on. *)
iput_free(p) ==
  /\ Todo(p, "free")
  /\ dinode' = [dinode EXCEPT ![Of(p)] = NoInode]
  /\ itable' = [itable EXCEPT ![Of(p)].type = "none"]
  /\ lost' = (lost \/ ~isdirempty(Of(p)))
  /\ proc' = Becomes(p, "clear")
  /\ UNCHANGED <<ftable, panicked>>

(* Faulty: leaves the entry valid. *)
iput_clear_valid(p) ==
  /\ Todo(p, "clear")
  /\ itable' = unlock(itable, Of(p))
  /\ proc' = Becomes(p, "dec")
  /\ UNCHANGED <<dinode, ftable, panicked, lost>>

iput_clear(p) ==
  /\ Todo(p, "clear")
  /\ itable' = [unlock(itable, Of(p)) EXCEPT ![Of(p)].valid = FALSE]
  /\ proc' = Becomes(p, "dec")
  /\ UNCHANGED <<dinode, ftable, panicked, lost>>

iput_dec(p) ==
  /\ Todo(p, "dec")
  /\ itable' = [itable EXCEPT ![Of(p)].ref = @ - 1]
  /\ proc' = Done(p)
  /\ UNCHANGED <<dinode, ftable, panicked, lost>>

-----------------------------------------------------------------------------
(* namex().                                                                *)

At(p, pc) == proc[p].pc = pc /\ proc[p].todo = <<>>

(* Whether the lookup stops at the parent. *)
Parent(p) == proc[p].call.op \in {"create", "mkdir", "mknod", "unlink"} \/ proc[p].old # 0

(* Where the call goes on when the lookup has found its inode, locked. *)
Found(p) == IF proc[p].old # 0 THEN "link_dp" ELSE proc[p].call.op

(* namex() returns 0. *)
Fail(p, todo) ==
  IF proc[p].old # 0
  THEN Go(p, "link_bad", todo \o <<Lock(proc[p].old)>>, [proc[p] EXCEPT !.ip = 0, !.path = <<>>])
  ELSE Return(p, todo)

(* The lookup starts at the root or at the working directory.  All callers *)
(* of namei() and nameiparent() lock the inode they get.                   *)
namex_start(p) ==
  LET i == IF proc[p].call.abs THEN ROOTINO ELSE proc[p].cwd IN
  /\ At(p, "start")
  /\ itable' = iget(itable, i)
  /\ proc' = IF proc[p].path # <<>>
             THEN Go(p, "namex", <<Lock(i)>>, [proc[p] EXCEPT !.ip = i])
             ELSE IF Parent(p) THEN Fail(p, <<Put(i)>>)
             ELSE Go(p, Found(p), <<Lock(i)>>, [proc[p] EXCEPT !.ip = i])
  /\ PanicsNoEntry(p, i)
  /\ UNCHANGED <<dinode, ftable, lost>>

(* Faulty: locks the next inode before it unlocks this one. *)
Descend_coupled(ip, next) == <<Lock(next)>> \o Drop(ip)
Descend(ip, next) == Drop(ip) \o <<Lock(next)>>

(* An element of the path, with ip locked. *)
namex(p) ==
  LET ip == proc[p].ip
      name == Head(proc[p].path)
      rest == Tail(proc[p].path)
      next == dirlookup(ip, name)
      last == Parent(p) /\ rest = <<>>
  IN  /\ At(p, "namex")
      /\ \/ /\ itable[ip].type = "dir" /\ last
            /\ proc' = Go(p, Found(p), <<Unlock(ip), Lock(ip)>>,
                          [proc[p] EXCEPT !.dp = ip, !.ip = 0, !.name = name, !.path = <<>>])
            /\ UNCHANGED <<itable, panicked>>
         \/ /\ itable[ip].type # "dir" \/ (~last /\ next = 0)
            /\ proc' = Fail(p, Drop(ip))
            /\ UNCHANGED <<itable, panicked>>
         \/ /\ itable[ip].type = "dir" /\ ~last /\ next # 0
            /\ itable' = iget(itable, next)
            /\ PanicsNoEntry(p, next)
            /\ proc' = Go(p, IF rest = <<>> THEN Found(p) ELSE "namex", Descend(ip, next),
                          [proc[p] EXCEPT !.ip = next, !.path = rest, !.name = name])
      /\ UNCHANGED <<dinode, ftable, lost>>

-----------------------------------------------------------------------------
(* The calls.                                                              *)

syscall(p, c) ==
  /\ At(p, "idle") /\ proc[p].live
  /\ proc' = Go(p, "start", <<Begin>>, [proc[p] EXCEPT !.call = c, !.path = c.path])
  /\ UNCHANGED <<dinode, itable, ftable, panicked, lost>>

(* open(), with the inode locked.  Devices have a driver. *)
sys_open(p) ==
  LET ip == proc[p].ip
      f == filealloc
      fd == fdalloc(p)
      refused == (itable[ip].type = "dir" /\ ~proc[p].call.rdonly) \/ f = 0 \/ fd = 0
  IN  /\ At(p, "open")
      /\ IF refused
         THEN proc' = Return(p, Drop(ip)) /\ UNCHANGED ftable
         ELSE /\ ftable' = [ftable EXCEPT ![f] = [ref |-> 1, ip |-> ip]]
              /\ proc' = [Return(p, <<Unlock(ip)>>) EXCEPT ![p].ofile[fd] = f]
      /\ UNCHANGED <<dinode, itable, panicked, lost>>

(* create(), with the parent locked. *)
create(p) ==
  LET dp == proc[p].dp
      ip == dirlookup(dp, proc[p].name)
      type == [create |-> "file", mkdir |-> "dir", mknod |-> "dev"][proc[p].call.op]
      new == ialloc
  IN  /\ proc[p].pc \in {"create", "mkdir", "mknod"} /\ proc[p].todo = <<>>
      /\ \/ /\ ip # 0
            /\ itable' = iget(itable, ip)
            /\ PanicsNoEntry(p, ip)
            /\ proc' = Go(p, "create_found", Drop(dp) \o <<Lock(ip)>>,
                          [proc[p] EXCEPT !.ip = ip, !.dp = 0])
            /\ UNCHANGED dinode
         \/ /\ ip = 0 /\ new = 0
            /\ proc' = Return(p, Drop(dp))
            /\ UNCHANGED <<dinode, itable, panicked>>
         \/ /\ ip = 0 /\ new # 0
            /\ dinode' = [dinode EXCEPT ![new] = [NoInode EXCEPT !.type = type]]
            /\ itable' = iget(itable, new)
            /\ PanicsNoEntry(p, new)
            /\ proc' = Go(p, "create_new", <<Lock(new)>>, [proc[p] EXCEPT !.ip = new])
      /\ UNCHANGED <<ftable, lost>>

create_found(p) ==
  /\ At(p, "create_found")
  /\ proc' = IF proc[p].call.op = "create" /\ itable[proc[p].ip].type # "dir"
             THEN Go(p, "open", <<>>, proc[p])
             ELSE Return(p, Drop(proc[p].ip))
  /\ UNCHANGED <<dinode, itable, ftable, panicked, lost>>

(* The new inode gets its link and its entries, or there is no block for   *)
(* one of them.                                                             *)
create_new(p) ==
  LET ip == proc[p].ip
      dp == proc[p].dp
      one == setlinks(itable, ip, 1)
      isdir == itable[ip].type = "dir"
      two == IF isdir THEN nlink(one, dp, 1) ELSE one
      Dots(S) == [n \in DOMAIN NoEntries |-> IF n \notin S THEN 0 ELSE IF n = "." THEN ip ELSE dp]
      dots == IF isdir THEN {".", ".."} ELSE {}
  IN  /\ At(p, "create_new")
      /\ \/ /\ itable' = two
            /\ dinode' = dirlink([iupdate(iupdate(dinode, two, ip), two, dp) EXCEPT ![ip].ent = Dots(dots)],
                                 dp, proc[p].name, ip)
            /\ proc' = Go(p, "created", Drop(dp), [proc[p] EXCEPT !.dp = 0])
         \/ \E S \in {{}, {"."}, dots} :
              /\ S \subseteq dots
              /\ itable' = one
              /\ dinode' = [iupdate(dinode, one, ip) EXCEPT ![ip].ent = Dots(S)]
              /\ proc' = Go(p, "create_fail", <<>>, proc[p])
      /\ UNCHANGED <<ftable, panicked, lost>>

(* Faulty: the link of the new inode is left. *)
create_fail_linked(p) ==
  /\ At(p, "create_fail")
  /\ proc' = Return(p, Drop(proc[p].ip) \o Drop(proc[p].dp))
  /\ UNCHANGED <<dinode, itable, ftable, panicked, lost>>

(* Something went wrong: de-allocate ip. *)
create_fail(p) ==
  LET ip == proc[p].ip
      none == setlinks(itable, ip, 0)
  IN  /\ At(p, "create_fail")
      /\ itable' = none
      /\ dinode' = iupdate(dinode, none, ip)
      /\ proc' = Return(p, Drop(ip) \o Drop(proc[p].dp))
      /\ UNCHANGED <<ftable, panicked, lost>>

created(p) ==
  /\ At(p, "created")
  /\ proc' = IF proc[p].call.op = "create" THEN Go(p, "open", <<>>, proc[p])
             ELSE Return(p, Drop(proc[p].ip))
  /\ UNCHANGED <<dinode, itable, ftable, panicked, lost>>

(* link(), with the old inode locked: the link is counted before its entry  *)
(* is written.                                                              *)
sys_link(p) ==
  LET ip == proc[p].ip
      more == nlink(itable, ip, 1)
  IN  /\ At(p, "link")
      /\ IF itable[ip].type = "dir"
         THEN proc' = Return(p, Drop(ip)) /\ UNCHANGED <<dinode, itable>>
         ELSE /\ itable' = more
              /\ dinode' = iupdate(dinode, more, ip)
              /\ proc' = Go(p, "start", <<Unlock(ip)>>,
                            [proc[p] EXCEPT !.old = ip, !.ip = 0, !.path = proc[p].call.to])
      /\ UNCHANGED <<ftable, panicked, lost>>

(* Faulty: keeps the reference. *)
dirlink_taken_kept(ip) == <<>>

(* dirlink(), when the name is taken: dirlookup()'s reference is put. *)
dirlink_taken(ip) == <<Put(ip)>>

(* dirlink() in the new parent: the name is taken, or there is no block. *)
link_dp(p) ==
  LET dp == proc[p].dp
      old == proc[p].old
      ip == dirlookup(dp, proc[p].name)
      Bad(todo) == Go(p, "link_bad", todo \o Drop(dp) \o <<Lock(old)>>, [proc[p] EXCEPT !.dp = 0])
  IN  /\ At(p, "link_dp")
      /\ \/ /\ ip # 0
            /\ itable' = iget(itable, ip)
            /\ PanicsNoEntry(p, ip)
            /\ proc' = Bad(dirlink_taken(ip))
            /\ UNCHANGED dinode
         \/ /\ ip = 0
            /\ proc' = Bad(<<>>)
            /\ UNCHANGED <<dinode, itable, panicked>>
         \/ /\ ip = 0
            /\ dinode' = dirlink(dinode, dp, proc[p].name, old)
            /\ proc' = Return(p, Drop(dp) \o <<Put(old)>>)
            /\ UNCHANGED <<itable, panicked>>
      /\ UNCHANGED <<ftable, lost>>

link_bad(p) ==
  LET old == proc[p].old
      less == nlink(itable, old, -1)
  IN  /\ At(p, "link_bad")
      /\ itable' = less
      /\ dinode' = iupdate(dinode, less, old)
      /\ proc' = Return(p, Drop(old))
      /\ UNCHANGED <<ftable, panicked, lost>>

(* unlink(), with the parent locked. *)
sys_unlink(p) ==
  LET dp == proc[p].dp
      ip == dirlookup(dp, proc[p].name)
  IN  /\ At(p, "unlink")
      /\ IF proc[p].name \in {".", ".."} \/ ip = 0
         THEN proc' = Return(p, Drop(dp)) /\ UNCHANGED <<itable, panicked>>
         ELSE /\ itable' = iget(itable, ip)
              /\ PanicsNoEntry(p, ip)
              /\ proc' = Go(p, "unlink_ip", <<Lock(ip)>>, [proc[p] EXCEPT !.ip = ip])
      /\ UNCHANGED <<dinode, ftable, lost>>

(* The entry goes, unless it is a directory that is not empty. *)
unlink_ip(p) ==
  LET dp == proc[p].dp
      ip == proc[p].ip
      isdir == itable[ip].type = "dir"
      less == IF isdir THEN nlink(itable, dp, -1) ELSE itable
  IN  /\ At(p, "unlink_ip")
      /\ Panics(p, itable[ip].nlink < 1, "unlink: nlink < 1")
      /\ IF isdir /\ ~isdirempty(ip)
         THEN proc' = Return(p, Drop(ip) \o Drop(dp)) /\ UNCHANGED <<dinode, itable>>
         ELSE /\ itable' = less
              /\ dinode' = [iupdate(dinode, less, dp) EXCEPT ![dp].ent[proc[p].name] = 0]
              /\ proc' = Go(p, "unlink_dec", Drop(dp), [proc[p] EXCEPT !.dp = 0])
      /\ UNCHANGED <<ftable, lost>>

unlink_dec(p) ==
  LET ip == proc[p].ip
      less == nlink(itable, ip, -1)
  IN  /\ At(p, "unlink_dec")
      /\ itable' = less
      /\ dinode' = iupdate(dinode, less, ip)
      /\ proc' = Return(p, Drop(ip))
      /\ UNCHANGED <<ftable, panicked, lost>>

(* chdir(): the process itself is the only one to see its cwd. *)
sys_chdir(p) ==
  LET ip == proc[p].ip IN
  /\ At(p, "chdir")
  /\ proc' = IF itable[ip].type # "dir" THEN Return(p, Drop(ip))
             ELSE [Return(p, <<Unlock(ip), Put(proc[p].cwd)>>) EXCEPT ![p].cwd = ip]
  /\ UNCHANGED <<dinode, itable, ftable, panicked, lost>>

(* exec() reads the file with its inode locked. *)
exec(p) ==
  /\ At(p, "exec")
  /\ proc' = Return(p, Drop(proc[p].ip))
  /\ UNCHANGED <<dinode, itable, ftable, panicked, lost>>

sys_dup(p, fd) ==
  LET f == proc[p].ofile[fd] IN
  /\ At(p, "idle") /\ f # 0 /\ fdalloc(p) # 0
  /\ ftable' = filedup(ftable, f, 1)
  /\ Panics(p, ftable[f].ref < 1, "filedup")
  /\ proc' = [proc EXCEPT ![p].ofile[fdalloc(p)] = f]
  /\ UNCHANGED <<dinode, itable, lost>>

(* close(), and the closing of all files in exit().  The last reference     *)
(* gives the inode back, in an operation of its own.                        *)
fileclose(p, fd) ==
  LET f == proc[p].ofile[fd] IN
  /\ At(p, "idle") \/ At(p, "exit")
  /\ f # 0
  /\ ftable' = [ftable EXCEPT ![f] = IF @.ref > 1 THEN [@ EXCEPT !.ref = @ - 1]
                                     ELSE [ref |-> 0, ip |-> 0]]
  /\ proc' = [proc EXCEPT ![p].ofile[fd] = 0,
                          ![p].todo = IF ftable[f].ref > 1 THEN <<>>
                                      ELSE <<Begin, Put(ftable[f].ip), End>>]
  /\ Panics(p, ftable[f].ref < 1, "fileclose")
  /\ UNCHANGED <<dinode, itable, lost>>

(* fork(): filedup() of all files and idup() of the working directory. *)
fork(p, c) ==
  LET Dups(f) == Cardinality({fd \in 1 .. NOFILE : proc[p].ofile[fd] = f}) IN
  /\ At(p, "idle") /\ proc[p].live /\ proc[c] = Unused
  /\ ftable' = [f \in File |-> filedup(ftable, f, Dups(f))[f]]
  /\ itable' = idup(itable, proc[p].cwd)
  /\ proc' = [proc EXCEPT ![c] = proc[p]]
  /\ Panics(p, \E f \in File : Dups(f) > 0 /\ ftable[f].ref < 1, "filedup")
  /\ UNCHANGED <<dinode, lost>>

exit(p) ==
  /\ At(p, "idle") /\ proc[p].live /\ p # Proc1
  /\ proc' = [proc EXCEPT ![p].pc = "exit"]
  /\ UNCHANGED <<dinode, itable, ftable, panicked, lost>>

exit_cwd(p) ==
  /\ At(p, "exit") /\ \A fd \in 1 .. NOFILE : proc[p].ofile[fd] = 0
  /\ proc' = Go(p, "idle", <<Begin, Put(proc[p].cwd), End>>, Unused)
  /\ UNCHANGED <<dinode, itable, ftable, panicked, lost>>

Enter(p) ==
  \/ \E c \in Calls : syscall(p, c)
  \/ \E fd \in 1 .. NOFILE : sys_dup(p, fd) \/ (proc[p].pc = "idle" /\ fileclose(p, fd))
  \/ \E c \in Proc : fork(p, c)
  \/ exit(p)

Continue(p) ==
  \/ begin_op(p) \/ end_op(p) \/ ilock(p) \/ iunlock(p)
  \/ iput(p) \/ iput_free(p) \/ iput_clear(p) \/ iput_dec(p)
  \/ namex_start(p) \/ namex(p) \/ sys_open(p)
  \/ create(p) \/ create_found(p) \/ create_new(p) \/ create_fail(p) \/ created(p)
  \/ sys_link(p) \/ link_dp(p) \/ link_bad(p)
  \/ sys_unlink(p) \/ unlink_ip(p) \/ unlink_dec(p)
  \/ sys_chdir(p) \/ exec(p)
  \/ \E fd \in 1 .. NOFILE :
       proc[p].pc = "exit" /\ (\A g \in 1 .. fd - 1 : proc[p].ofile[g] = 0) /\ fileclose(p, fd)
  \/ exit_cwd(p)

Work(p) == panicked = <<>> /\ UNCHANGED calls /\ Continue(p)

Next ==
  \E p \in Proc :
    \/ panicked = <<>> /\ calls < MaxCalls /\ calls' = calls + 1 /\ Enter(p)
    \/ Work(p)

(* A process in a call runs until it returns. *)
Fairness == \A p \in Proc : WF_vars(Work(p))
Spec == Init /\ [][Next]_vars /\ Fairness

-----------------------------------------------------------------------------
(* Properties.                                                             *)

(* The references to inode i: working directories, open files, variables   *)
(* of calls, and those about to be put.                                    *)
Count(S) == Cardinality(S)
References(i) ==
  Count({f \in File : ftable[f].ref > 0 /\ ftable[f].ip = i})
  + Count({x \in Proc \X {"cwd", "ip", "dp", "old"} : proc[x[1]][x[2]] = i})
  + Count({x \in Proc \X (1 .. 8) :
             /\ x[2] <= Len(proc[x[1]].todo)
             /\ proc[x[1]].todo[x[2]] \in {"put", "free", "clear", "dec"} \X {i}})

(* Reference counts are exact on every path of every call: an inode's ref  *)
(* is the number of its users, a file's ref the number of descriptors.     *)
RefsExact ==
  /\ \A i \in Inum : itable[i].ref = References(i)
  /\ \A f \in File : ftable[f].ref =
       Count({x \in Proc \X (1 .. NOFILE) : proc[x[1]].ofile[x[2]] = f})

(* The copy of an inode in memory that its users see is the one on disk,   *)
(* also when the inode was freed and allocated again while an entry of the *)
(* table still named it.  (iput() is between the two for a moment.)        *)
CopyCurrent ==
  \A i \in Inum :
    itable[i].ref > 0 /\ itable[i].valid /\ itable[i].lock = 0
      => itable[i].type = dinode[i].type /\ itable[i].nlink = dinode[i].nlink

(* The directories below the root: as many rounds as there are inodes. *)
Children(S) ==
  {i \in Inum : dinode[i].type = "dir" /\ \E d \in S, n \in Names : dinode[d].ent[n] = i}
Tree == FoldLeft(LAMBDA S, k : S \cup Children(S), {ROOTINO}, [k \in 1 .. Cardinality(Inum) |-> k])

(* The links of i: its names in all directories, and ".." of the           *)
(* directories that have a name; the root has one more.  Those under way:   *)
(* counted before the name is written, or not yet uncounted.                *)
Named(d) == d = ROOTINO \/ \E e \in Inum, n \in Names : dinode[e].ent[n] = d
AllLinks(i) ==
  Count({x \in Inum \X Names : dinode[x[1]].ent[x[2]] = i})
  + Count({d \in Inum : Named(d) /\ dinode[d].ent[".."] = i})
UnderWay(i) ==
  Count({p \in Proc : proc[p].old = i})
  + Count({p \in Proc : proc[p].pc \in {"unlink_dec", "create_fail"} /\ proc[p].ip = i})

(* Every name in the tree below the root leads to an allocated inode whose *)
(* link count covers all its names (with ".." of subdirectories), so that  *)
(* no iput() can free it: whatever lookups, links, unlinks and frees run   *)
(* at the same time.  And no inode keeps a link too many, with which it    *)
(* would never be freed, on any path: when a call fails half-way, create() *)
(* and link() undo what they counted.  (A file created in a directory that *)
(* has been removed does keep its link when the directory is freed.)       *)
EntriesBacked ==
  LET tree == Tree
      Links(i) == Count({x \in tree \X (Names \cup {".."}) :
                           x # <<ROOTINO, "..">> /\ dinode[x[1]].ent[x[2]] = i})
  IN  /\ \A d \in tree : \A n \in Names \cup {".", ".."} :
           LET i == dinode[d].ent[n] IN
           i # 0 => dinode[i].type # "none" /\ Links(i) <= dinode[i].nlink
      /\ lost \/ \A i \in Inum : dinode[i].type # "none" => dinode[i].nlink = AllLinks(i) + UnderWay(i)

(* The panics that can be reached.  ilock() finds a free inode only for a  *)
(* process that has just followed "..": of a directory that was removed    *)
(* before its parent was, as EntriesBacked covers the others.  iget() runs *)
(* out of entries only when NINODE of them are in use.  No other panic is  *)
(* reached: an inode is unlocked by who locked it and unlinked only if it  *)
(* has a link, freeing one never waits for its lock, and no file is used   *)
(* or closed that is closed already.                                       *)
OnlyPanics ==
  panicked # <<>> =>
    \/ panicked[1] = "ilock: no type" /\ proc[panicked[2]].name = ".."
    \/ panicked[1] = "iget: no inodes" /\ Count({i \in Inum : References(i) > 0}) > NINODE

(* Calls do not wait for each other for ever: locks are taken from the     *)
(* root down, and one at a time on the way.                                *)
CallsReturn == \A p \in Proc : []<>(At(p, "idle") \/ panicked # <<>>)
=============================================================================
