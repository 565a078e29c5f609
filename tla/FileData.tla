------------------------------ MODULE FileData ------------------------------
(***************************************************************************)
(* The blocks of files: mkfs/mkfs.c, which builds the first image, and     *)
(* balloc(), bfree(), bmap(), itrunc(), readi(), writei() of kernel/fs.c   *)
(* under fileread(), filewrite() and open(O_TRUNC), by processes that may  *)
(* share an open file or an inode.  The inode's sleep lock is held from    *)
(* ilock() to iunlock(); in between, one block is one step, because the    *)
(* bitmap is shared with operations on other inodes.                       *)
(*                                                                         *)
(* A block is BSIZE words, and a word is a block number in an indirect     *)
(* block or data in a data block: what tells the two apart is only the     *)
(* inode that points there.  Version v of the word at offset o of file i   *)
(* is Tag(v, i, o), so reading it back shows that it is the right one;     *)
(* mkfs writes version 0, the kth write() call version k, and written      *)
(* remembers the last.  Caching, the log and crashes are BufferCache and   *)
(* Log.                                                                    *)
(***************************************************************************)
EXTENDS Integers, FiniteSets, Sequences

CONSTANTS
  Proc,
  NB,          \* data blocks 1 .. NB
  BSIZE,       \* words of a block
  NDIRECT,     \* direct blocks of an inode
  BPB,         \* bits of a bitmap block
  MAXOPBLOCKS, \* blocks one operation may log
  FileSizes,   \* the files mkfs puts in the root directory: their sizes
  Files,       \* the files that are opened
  Writes,      \* lengths of read() and write() calls
  MaxWrites    \* bound: write() calls

NINDIRECT == BSIZE
MAXFILE == NDIRECT + NINDIRECT
Offsets == 0 .. MAXFILE * BSIZE - 1
Block == 1 .. NB
Root == 1
Inode == 1 .. Len(FileSizes) + 1
Entries == Len(FileSizes) + 2       \* of the root: ".", ".." and the files

ASSUME FileDataAssumption ==
  /\ 0 \notin Proc /\ NDIRECT \in Nat /\ {NB, BSIZE, BPB} \subseteq Nat \ {0}
  /\ FileSizes \in Seq(Nat) /\ Files \subseteq Inode \ {Root} /\ Writes \subseteq Nat \ {0}
  /\ MaxWrites \in Nat
  /\ MAXOPBLOCKS \in Nat /\ MAXOPBLOCKS >= 6        \* else filewrite's max would be 0

VARIABLES
  used,      \* the bitmap: the data blocks in use
  data,      \* the words of each block
  addrs, size,  \* of each inode; addrs[i][NDIRECT] is the indirect block
  lock,      \* who holds the inode's sleep lock, or 0
  fd, ip, off,  \* a process's open file; an open file's inode and offset
  op,        \* the system call of each process and its locals
  written,   \* history variable: the last word written at each offset
  writes     \* how many write() calls there were

vars == <<used, data, addrs, size, lock, fd, ip, off, op, written, writes>>

(* A copy that fails may have changed a word in the buffer, which then is   *)
(* not logged: the word is Torn, either the old or the new one, according   *)
(* to whether the buffer is evicted, or is logged or pinned all the same.   *)
Torn == -1
Tag(v, i, o) == 1000 * v + 100 * i + o
Zeroes == [w \in 0 .. BSIZE - 1 |-> 0]
Stale == [w \in 0 .. BSIZE - 1 |-> 1]    \* stands for all a freed block may hold

-----------------------------------------------------------------------------
(* mkfs: fs holds the image, with the number of its next free block.       *)

Blank == [freeblock |-> 1, data |-> [b \in Block |-> Zeroes],
          addrs |-> [i \in Inode |-> [k \in 0 .. NDIRECT |-> 0]],
          size |-> [i \in Inode |-> 0]]

(* din.addrs[k] of inode i, which is given the next block if it has none. *)
Fresh(fs, i, k) ==
  IF fs.addrs[i][k] # 0 THEN fs
  ELSE [fs EXCEPT !.addrs[i][k] = fs.freeblock, !.freeblock = @ + 1]

(* iappend() of one word. *)
iappend(fs, i) ==
  LET o == fs.size[i]
      fbn == o \div BSIZE
      direct == Fresh(fs, i, fbn)
      ind == Fresh(fs, i, NDIRECT)
      x == ind.addrs[i][NDIRECT]
      n == fbn - NDIRECT
      f == IF fbn < NDIRECT THEN direct
           ELSE IF ind.data[x][n] # 0 THEN ind
           ELSE [ind EXCEPT !.data[x][n] = ind.freeblock, !.freeblock = @ + 1]
      b == IF fbn < NDIRECT THEN f.addrs[i][fbn] ELSE f.data[x][n]
  IN  [f EXCEPT !.data[b][o % BSIZE] = Tag(0, i, o), !.size[i] = o + 1]

(* iappend() of n words. *)
Append0(fs, i, n) ==
  LET grown[k \in 0 .. n] == IF k = 0 THEN fs ELSE iappend(grown[k - 1], i) IN grown[n]

(* The root's "." and "..", then each file's entry and contents, then the   *)
(* root's size.                                                             *)
Image ==
  LET full[k \in 0 .. Len(FileSizes)] ==
        IF k = 0 THEN Append0(Blank, Root, 2)
        ELSE Append0(iappend(full[k - 1], Root), k + 1, FileSizes[k])
  IN  [full[Len(FileSizes)] EXCEPT !.size[Root] = (@ \div BSIZE + 1) * BSIZE]

(* The words that mkfs appended. *)
Appended(i) == IF i = Root THEN Entries ELSE FileSizes[i - 1]
Original == [i \in Inode |-> [o \in Offsets |-> IF o < Appended(i) THEN Tag(0, i, o) ELSE 0]]

Idle == [pc |-> "idle", v |-> 0, n |-> 0, i |-> 0, n1 |-> 0, off |-> 0,
         tot |-> 0, j |-> 0, logged |-> {}]

Init ==
  /\ used = 1 .. Image.freeblock - 1
  /\ data = Image.data
  /\ addrs = Image.addrs
  /\ size = Image.size
  /\ lock = [i \in Inode |-> 0]
  /\ fd \in [Proc -> Proc]            \* own open files, or shared by fork()
  /\ ip \in [Proc -> Files]
  /\ off = [f \in Proc |-> 0]
  /\ op = [p \in Proc |-> Idle]
  /\ written = Original
  /\ writes = 0

-----------------------------------------------------------------------------
(* d carries the allocator, the inode's addresses and the logged blocks     *)
(* through the calls; d.addr is the block a call returns.                   *)
BBLOCK(b) == <<"bitmap", b \div BPB>>

(* Faulty: without bzero(). *)
balloc_dirty(d) ==
  LET b == CHOOSE b \in Block \ d.used : \A c \in Block \ d.used : b <= c IN
  IF d.used = Block THEN [d EXCEPT !.addr = 0]
  ELSE [d EXCEPT !.used = @ \cup {b}, !.logged = @ \cup {BBLOCK(b), <<"block", b>>}, !.addr = b]

balloc(d) ==
  LET b == CHOOSE b \in Block \ d.used : \A c \in Block \ d.used : b <= c IN
  IF d.used = Block THEN [d EXCEPT !.addr = 0]
  ELSE [d EXCEPT !.used = @ \cup {b}, !.data[b] = Zeroes,
                 !.logged = @ \cup {BBLOCK(b), <<"block", b>>}, !.addr = b]

(* ip->addrs[k], allocated if it is 0. *)
Direct(d, k) ==
  LET e == balloc(d) IN
  IF d.addrs[k] # 0 THEN [d EXCEPT !.addr = d.addrs[k]]
  ELSE IF e.addr = 0 THEN e ELSE [e EXCEPT !.addrs[k] = e.addr]

bmap(d, bn) ==
  LET ind == Direct(d, NDIRECT)
      b == ind.addr
      k == bn - NDIRECT
      e == balloc(ind)
  IN  IF bn < NDIRECT THEN Direct(d, bn)
      ELSE IF b = 0 THEN ind
      ELSE IF ind.data[b][k] # 0 THEN [ind EXCEPT !.addr = ind.data[b][k]]
      ELSE IF e.addr = 0 THEN e
      ELSE [e EXCEPT !.data[b][k] = e.addr, !.logged = @ \cup {<<"block", b>>}]

On(i, logged) ==
  [used |-> used, data |-> data, addrs |-> addrs[i], logged |-> logged, addr |-> 0]

(* Faulty: does not wait. *)
ilock_nowait(p, i) == lock' = [lock EXCEPT ![i] = p]
ilock(p, i) == lock[i] = 0 /\ lock' = [lock EXCEPT ![i] = p]
iunlock(i) == lock' = [lock EXCEPT ![i] = 0]

Ip(p) == ip[fd[p]]
min(a, b) == IF a < b THEN a ELSE b

-----------------------------------------------------------------------------
sys_write(p, n) ==
  /\ op[p] = Idle /\ writes < MaxWrites
  /\ writes' = writes + 1
  /\ op' = [op EXCEPT ![p] = [Idle EXCEPT !.pc = "chunk", !.v = writes', !.n = n]]
  /\ UNCHANGED <<used, data, addrs, size, lock, fd, ip, off, written>>

(* Faulty: leaves no room for the allocation blocks. *)
MaxChunk_noalloc == (MAXOPBLOCKS - 1 - 1 - 2) * BSIZE
MaxChunk == ((MAXOPBLOCKS - 1 - 1 - 2) \div 2) * BSIZE

(* filewrite()'s loop: one chunk is one transaction.  writei() refuses an   *)
(* offset past the end, and a size past the largest; then the call returns. *)
filewrite(p) ==
  LET i == Ip(p)
      n1 == min(op[p].n - op[p].i, MaxChunk)
      o == off[fd[p]]
  IN  /\ op[p].pc = "chunk"
      /\ \/ /\ lock[i] = 0 /\ (o > size[i] \/ o + n1 > MAXFILE * BSIZE)
            /\ op' = [op EXCEPT ![p] = Idle]
            /\ UNCHANGED lock
         \/ /\ ~(o > size[i] \/ o + n1 > MAXFILE * BSIZE)
            /\ ilock(p, i)
            /\ op' = [op EXCEPT ![p].pc = "writei", ![p].n1 = n1, ![p].off = o]
      /\ UNCHANGED <<used, data, addrs, size, fd, ip, off, written, writes>>

(* either_copyin() of k words of version v to offset o of file i, in block  *)
(* b of the blocks in d.                                                    *)
either_copyin(d, b, i, o, k, v) ==
  LET at == o % BSIZE IN
  /\ data' = [d EXCEPT ![b] = [w \in 0 .. BSIZE - 1 |->
                IF w \in at .. at + k - 1 THEN Tag(v, i, o - at + w) ELSE d[b][w]]]
  /\ written' = [written EXCEPT ![i] = [x \in Offsets |->
                   IF x \in o .. o + k - 1 THEN Tag(v, i, x) ELSE written[i][x]]]

(* One block of writei().  Without a block, or with a user address that     *)
(* either_copyin() cannot read, behind k words that it could, the loop      *)
(* ends; an allocated block stays.                                          *)
writei(p) ==
  LET i == Ip(p)
      o == op[p].off + op[p].tot
      d == bmap(On(i, op[p].logged), o \div BSIZE)
      at == o % BSIZE
      m == min(op[p].n1 - op[p].tot, BSIZE - at)
  IN  /\ op[p].pc = "writei" /\ op[p].tot < op[p].n1
      /\ used' = d.used
      /\ addrs' = [addrs EXCEPT ![i] = d.addrs]
      /\ \/ /\ d.addr = 0
            /\ data' = d.data
            /\ op' = [op EXCEPT ![p].pc = "iupdate", ![p].logged = d.logged]
            /\ UNCHANGED written
         \/ /\ d.addr # 0
            /\ \E k \in 0 .. m - 1 : either_copyin(d.data, d.addr, i, o, k, Torn)
            /\ op' = [op EXCEPT ![p].pc = "iupdate", ![p].logged = d.logged]
         \/ /\ d.addr # 0
            /\ either_copyin(d.data, d.addr, i, o, m, op[p].v)
            /\ op' = [op EXCEPT ![p].tot = @ + m,
                                ![p].logged = d.logged \cup {<<"block", d.addr>>}]
      /\ UNCHANGED <<size, lock, fd, ip, off, writes>>

(* The end of writei() and of the chunk: all of it, or the call fails. *)
writei_end(p) ==
  LET i == Ip(p)
      f == fd[p]
      o == op[p].off + op[p].tot
      all == op[p].tot = op[p].n1
      sum == op[p].i + op[p].tot
  IN  /\ op[p].pc = "iupdate" \/ (op[p].pc = "writei" /\ op[p].tot = op[p].n1)
      /\ size' = [size EXCEPT ![i] = IF o > @ THEN o ELSE @]
      /\ off' = [off EXCEPT ![f] = @ + op[p].tot]
      /\ iunlock(i)
      /\ op' = [op EXCEPT ![p] =
                  IF all /\ sum < @.n
                  THEN [Idle EXCEPT !.pc = "chunk", !.v = op[p].v, !.n = op[p].n, !.i = sum]
                  ELSE Idle]
      /\ UNCHANGED <<used, data, addrs, fd, ip, written, writes>>

(* read(): fileread() and readi() as one step, all under the inode's lock.  *)
sys_read(p, n) ==
  LET i == Ip(p)
      o == off[fd[p]]
      r == IF o > size[i] THEN 0 ELSE min(n, size[i] - o)
  IN  /\ op[p] = Idle /\ lock[i] = 0
      /\ off' = [off EXCEPT ![fd[p]] = @ + r]
      /\ UNCHANGED <<used, data, addrs, size, lock, fd, ip, op, written, writes>>

(* open(): an open file of p's own, truncated with O_TRUNC. *)
sys_open(p, i, trunc) ==
  /\ op[p] = Idle
  /\ \A q \in Proc \ {p} : fd[q] # p
  /\ fd' = [fd EXCEPT ![p] = p]
  /\ ip' = [ip EXCEPT ![p] = i]
  /\ off' = [off EXCEPT ![p] = 0]
  /\ IF trunc
     THEN ilock(p, i) /\ op' = [op EXCEPT ![p] = [Idle EXCEPT !.pc = "itrunc"]]
     ELSE lock[i] = 0 /\ UNCHANGED <<lock, op>>
  /\ UNCHANGED <<used, data, addrs, size, written, writes>>

(* itrunc(), one bfree() a step.  addrs[NDIRECT] stays until the blocks it  *)
(* lists are free.                                                          *)
bfree(b) ==                  \* panics if b is free: see BlocksAccounted
  /\ used' = used \ {b}
  /\ data' = [data EXCEPT ![b] = Stale]

(* Faulty: the blocks listed in the indirect block are forgotten. *)
Victim_direct(i, j) ==
  IF j < NDIRECT THEN addrs[i][j] ELSE IF j = MAXFILE THEN addrs[i][NDIRECT] ELSE 0

(* The block that itrunc() finds at its jth place, 0 for none. *)
Victim(i, j) ==
  LET ind == addrs[i][NDIRECT] IN
  IF j < NDIRECT THEN addrs[i][j]
  ELSE IF j = MAXFILE \/ ind = 0 THEN ind
  ELSE data[ind][j - NDIRECT]

itrunc(p) ==
  LET i == Ip(p) IN
  /\ op[p].pc = "itrunc"
  /\ \E j \in op[p].j .. MAXFILE :
       /\ Victim(i, j) # 0 /\ \A k \in op[p].j .. j - 1 : Victim(i, k) = 0
       /\ bfree(Victim(i, j))
       /\ addrs' = IF j \in NDIRECT .. MAXFILE - 1 THEN addrs
                   ELSE [addrs EXCEPT ![i][min(j, NDIRECT)] = 0]
       /\ op' = [op EXCEPT ![p].j = j + 1]
  /\ UNCHANGED <<size, lock, fd, ip, off, written, writes>>

itrunc_end(p) ==
  /\ op[p].pc = "itrunc" /\ \A j \in op[p].j .. MAXFILE : Victim(Ip(p), j) = 0
  /\ size' = [size EXCEPT ![Ip(p)] = 0]
  /\ iunlock(Ip(p))
  /\ op' = [op EXCEPT ![p] = Idle]
  /\ UNCHANGED <<used, data, addrs, fd, ip, off, written, writes>>

Next ==
  \E p \in Proc :
    \/ \E n \in Writes : sys_write(p, n) \/ sys_read(p, n)
    \/ filewrite(p) \/ writei(p) \/ writei_end(p)
    \/ \E i \in Files, trunc \in BOOLEAN : sys_open(p, i, trunc)
    \/ itrunc(p) \/ itrunc_end(p)

Spec == Init /\ [][Next]_vars

-----------------------------------------------------------------------------
(* Properties.                                                             *)

(* The blocks inode i holds, each with the place that names it.  An itrunc *)
(* under way has given back what it has passed.                            *)
Freed(i) == IF lock[i] # 0 /\ op[lock[i]].pc = "itrunc" THEN op[lock[i]].j ELSE 0
Places(i) ==
  LET ind == addrs[i][NDIRECT] IN
  {<<i, k, addrs[i][k]>> : k \in {k \in 0 .. NDIRECT : addrs[i][k] # 0}}
  \cup (IF ind \notin Block THEN {}
        ELSE {<<i, NDIRECT + 1 + k, data[ind][k]>> :
                k \in {k \in 0 .. NINDIRECT - 1 : data[ind][k] # 0 /\ Freed(i) <= NDIRECT + k}})

(* The bitmap is exact: a block is marked used if and only if exactly one  *)
(* place of one inode names it.  So no block is in two files, none is lost *)
(* to a full disk, a failed copy or a truncation, and no free block is     *)
(* freed (panic).                                                          *)
BlocksAccounted ==
  LET places == UNION {Places(i) : i \in Inode} IN
  /\ {x[3] : x \in places} = used
  /\ Cardinality(places) = Cardinality(used)

(* mkfs rounds the root's size up by a block when its entries fill their   *)
(* last block, and leaves that block unallocated (mkfs/mkfs.c:168).        *)
Hole(i, o) == i = Root /\ o >= Entries /\ Entries % BSIZE = 0

(* What is read is what was written: unless it is locked, every word of a  *)
(* file below its size is in an allocated block and is the last one that a *)
(* write put at that offset of that file, or, where a later write failed,  *)
(* the word is known to be torn; the root's words behind its entries are 0.*)
(* So readi() never allocates a block outside a transaction, but for the   *)
(* block that mkfs may leave out at the end of the root                    *)
(* (kernel/fs.c:471-539).                                                  *)
ReadsBack ==
  \A i \in Inode : lock[i] = 0 =>
    \A o \in 0 .. size[i] - 1 : ~Hole(i, o) =>
      LET bn == o \div BSIZE
          b == IF bn < NDIRECT THEN addrs[i][bn] ELSE data[addrs[i][NDIRECT]][bn - NDIRECT]
      IN  b \in Block /\ data[b][o % BSIZE] = written[i][o]

(* A transaction of filewrite() stays within what begin_op() reserved,     *)
(* however its blocks fall on the bitmap: the "2 blocks of slop" are enough *)
(* for a chunk that is not aligned, with the inode and the indirect block.  *)
WithinReservation ==
  \A p \in Proc : op[p].pc \in {"writei", "iupdate"} =>
    Cardinality(op[p].logged \cup {<<"inode", Ip(p)>>}) <= MAXOPBLOCKS

(* An open file's offset does not move while a transfer through it is      *)
(* under way, also when two processes share the file: f->off += r adds to   *)
(* the offset that writei() was given, so no two writes overlap.            *)
OffsetStable ==
  \A p \in Proc : op[p].pc \in {"writei", "iupdate"} => op[p].off = off[fd[p]]
=============================================================================
