--------------------------- MODULE FileDataProofs ---------------------------
(***************************************************************************)
(* The properties of FileData for any processes, sizes, blocks and files:  *)
(* what balloc(), bmap() and a copy of words do to the disk, an invariant  *)
(* that every step keeps, and what it implies.                             *)
(*                                                                         *)
(* Every place of an inode that can name a block is a slot: its direct     *)
(* addresses, its indirect block, and the entries of that.  Accounted says *)
(* that the slots name each used block once; Contents that the slots below *)
(* the size hold the words that were written last.  balloc(), bmap(),      *)
(* writei() and itrunc() fill or empty one slot at a time.                 *)
(*                                                                         *)
(* The image of mkfs is computed by recursion over its files, about which  *)
(* nothing can be proved here: that it is consistent is a hypothesis       *)
(* (ImageConsistent), which TLC evaluates for the files of the run.        *)
(***************************************************************************)
EXTENDS FileData, TLAPS

Word == 0 .. BSIZE - 1
Address == 0 .. NB
Index == 0 .. MAXFILE

(* The slot of block bn of a file: slot NDIRECT is the indirect block. *)
Pos(bn) == IF bn < NDIRECT THEN bn ELSE bn + 1

(* The slots, from the blocks' contents D, the inodes' addresses A, and how *)
(* far a truncation of each inode has come, F.                              *)
Slots(D, A, F) ==
  [i \in Inode |-> [k \in Index |->
     IF k <= NDIRECT THEN A[i][k]
     ELSE IF A[i][NDIRECT] = 0 \/ F[i] >= k THEN 0
     ELSE D[A[i][NDIRECT]][k - NDIRECT - 1]]]

(* The blocks in U, and only those, are named by a slot, each by one. *)
Accounted(U, S) ==
  /\ \A i \in Inode, k \in Index : S[i][k] \in U \cup {0}
  /\ \A i, j \in Inode, k, l \in Index : S[i][k] = S[j][l] /\ S[i][k] # 0 => i = j /\ k = l
  /\ \A b \in U : \E i \in Inode, k \in Index : S[i][k] = b

(* Word w of block bn is at this offset. *)
Offset(bn, w) == bn * BSIZE + w

(* N says what the inodes should hold: N.word[i][o] at the offsets o below  *)
(* N.reach[i], but for the hole that mkfs may leave in the root.            *)
Due(N, i, o) == o < N.reach[i] /\ ~Hole(i, o)
Contents(D, S, N) ==
  \A i \in Inode, bn \in 0 .. MAXFILE - 1, w \in Word : Due(N, i, Offset(bn, w)) =>
    S[i][Pos(bn)] # 0 /\ D[S[i][Pos(bn)]][w] = N.word[i][Offset(bn, w)]

DiskType(U, D, A) ==
  /\ U \in SUBSET Block /\ D \in [Block -> [Word -> Int]]
  /\ A \in [Inode -> [0 .. NDIRECT -> Address]]

Consistent(U, D, A, F, N) ==
  DiskType(U, D, A) /\ Accounted(U, Slots(D, A, F)) /\ Contents(D, Slots(D, A, F), N)

ImageConsistent ==
  /\ Image.size \in [Inode -> 0 .. MAXFILE * BSIZE]
  /\ Consistent(1 .. Image.freeblock - 1, Image.data, Image.addrs, [i \in Inode |-> 0],
                [reach |-> Image.size, word |-> Original])

-----------------------------------------------------------------------------
Loggable == {"block", "bitmap"} \X Nat

OpType == [pc : {"idle", "chunk", "writei", "iupdate", "itrunc"}, v : Nat, n : Nat, i : Nat, n1 : Nat,
           off : Nat, tot : Nat, j : Nat, logged : SUBSET Loggable]

Types ==
  /\ size \in [Inode -> Nat] /\ lock \in [Inode -> Proc \cup {0}]
  /\ fd \in [Proc -> Proc] /\ ip \in [Proc -> Files] /\ off \in [Proc -> Nat]
  /\ op \in [Proc -> OpType] /\ written \in [Inode -> [Offsets -> Int]] /\ writes \in Nat

(* Between ilock() and iunlock() a process, and no other one, has the lock  *)
(* of the inode of its open file.                                           *)
Transfer == {"writei", "iupdate"}
Locked == Transfer \cup {"itrunc"}

Locks ==
  /\ \A p \in Proc : op[p].pc \in Locked => lock[Ip(p)] = p
  /\ \A i \in Inode : lock[i] # 0 => op[lock[i]].pc \in Locked /\ Ip(lock[i]) = i

(* What filewrite() and writei() have checked still holds. *)
Transfers ==
  /\ \A i \in Inode : size[i] <= MAXFILE * BSIZE
  /\ \A p \in Proc :
       /\ op[p].pc = "chunk" => op[p].i < op[p].n /\ op[p].tot = 0 /\ op[p].logged = {}
       /\ op[p].pc \in Transfer =>
            /\ op[p].off = off[fd[p]] /\ op[p].off <= size[Ip(p)]
            /\ op[p].tot <= op[p].n1 /\ op[p].n1 <= MaxChunk
            /\ op[p].off + op[p].n1 <= MAXFILE * BSIZE

Truncations ==
  \A p \in Proc : op[p].pc = "itrunc" =>
    op[p].j <= MAXFILE + 1 /\ (op[p].j = MAXFILE + 1 => addrs[Ip(p)][NDIRECT] = 0)

(* How far each inode's truncation is, and what its slots hold. *)
Gone == [i \in Inode |-> Freed(i)]
Reach(i) ==
  IF lock[i] = 0 THEN size[i]
  ELSE LET o == op[lock[i]] IN
       IF o.pc = "itrunc" THEN 0 ELSE IF o.off + o.tot > size[i] THEN o.off + o.tot ELSE size[i]
Filled == [i \in Inode |-> Reach(i)]
Wanted == [reach |-> Filled, word |-> written]

OnDisk == Consistent(used, data, addrs, Gone, Wanted)

(* What a transaction that writes n words at offset o of a file with slots  *)
(* s has logged: the chunk's blocks that are there, the bitmap blocks of    *)
(* those that it may have allocated, and the indirect block with its own.   *)
First(o) == o \div BSIZE
Final(o, n) == (o + n - 1) \div BSIZE
FirstNew(o) == IF o % BSIZE = 0 THEN First(o) ELSE First(o) + 1
Touched(s, lo, hi) == {b \in Block : \E k \in lo .. hi : s[Pos(k)] = b}
Marks(b) == IF b = 0 THEN {} ELSE {BBLOCK(b), <<"block", b>>}
MayLog(s, o, n) ==
  {<<"block", b>> : b \in Touched(s, First(o), Final(o, n))}
  \cup {BBLOCK(b) : b \in Touched(s, FirstNew(o), Final(o, n))} \cup Marks(s[NDIRECT])

Now == Slots(data, addrs, Gone)
May(p) == MayLog(Now[Ip(p)], op[p].off, op[p].n1)
Logs == \A p \in Proc : op[p].pc \in Transfer => op[p].logged \subseteq May(p)

Inv == Types /\ Locks /\ Transfers /\ Truncations /\ OnDisk /\ Logs

-----------------------------------------------------------------------------
(* Numbers. *)

(* What FileDataAssumption says of the sizes. *)
LEMMA Sizes ==
  /\ NB \in Nat \ {0} /\ BSIZE \in Nat \ {0} /\ NDIRECT \in Nat /\ BPB \in Nat \ {0}
  /\ MAXFILE \in Nat /\ MAXFILE = NDIRECT + BSIZE /\ MAXOPBLOCKS \in Nat /\ MAXOPBLOCKS >= 6
  /\ Block = 1 .. NB /\ 0 \notin Block /\ Block \subseteq Address /\ 0 \notin Proc
  BY FileDataAssumption DEF MAXFILE, NINDIRECT, Block, Address

(* An offset is in one block, at one word of it. *)
LEMMA Within ==
  ASSUME NEW o \in Nat
  PROVE  o \div BSIZE \in Nat /\ o % BSIZE \in Word /\ Offset(o \div BSIZE, o % BSIZE) = o
<1>1. BSIZE \in Nat \ {0}
  BY Sizes, Zenon
<1>2. o \div BSIZE \in Nat /\ o % BSIZE \in 0 .. BSIZE - 1
  BY <1>1
<1>3. o = BSIZE * (o \div BSIZE) + (o % BSIZE)
  BY <1>1
<1> DEFINE q == o \div BSIZE
           r == o % BSIZE
<1> HIDE DEF q, r
<1>4. q * BSIZE + r = o
  BY <1>1, <1>2, <1>3 DEF q, r
<1> QED
  BY <1>2, <1>4, Zenon DEF Offset, Word, q, r

(* The words of a block follow those of the blocks before it. *)
LEMMA Order ==
  ASSUME NEW a \in Nat, NEW b \in Nat, NEW w \in Word
  PROVE  /\ Offset(a, w) = Offset(a, 0) + w /\ Offset(a, 0) \in Nat /\ Offset(a, w) \in Nat
         /\ a < b => Offset(a, w) < Offset(b, 0) /\ Offset(a, 0) + BSIZE <= Offset(b, 0)
<1>1. BSIZE \in Nat \ {0} /\ w \in 0 .. BSIZE - 1
  BY Sizes, Zenon DEF Word
<1>2. a * BSIZE \in Nat /\ b * BSIZE \in Nat
  BY <1>1
<1>3. ASSUME a < b PROVE a * BSIZE + BSIZE <= b * BSIZE
  <2>1. b - a - 1 \in Nat
    BY <1>3
  <2>2. (b - a - 1) * BSIZE \in Nat
    BY <1>1, <2>1
  <2>3. b * BSIZE = a * BSIZE + BSIZE + (b - a - 1) * BSIZE
    BY <1>1
  <2> QED
    BY <1>1, <1>2, <2>2, <2>3
<1> DEFINE x == a * BSIZE
           y == b * BSIZE
<1>4. Offset(a, w) = x + w /\ Offset(a, 0) = x + 0 /\ Offset(b, 0) = y + 0
  BY Zenon DEF Offset
<1> HIDE DEF x, y
<1>5. x \in Nat /\ y \in Nat /\ (a < b => x + BSIZE <= y)
  BY <1>2, <1>3, Zenon DEF x, y
<1> QED
  BY <1>1, <1>4, <1>5

(* Below the largest size there are MAXFILE blocks. *)
LEMMA BlockInFile ==
  ASSUME NEW o \in Nat, o < MAXFILE * BSIZE
  PROVE  o \div BSIZE \in 0 .. MAXFILE - 1
<1> DEFINE q == o \div BSIZE
           r == o % BSIZE
<1>1. q \in Nat /\ r \in Word /\ Offset(q, r) = o
  BY Within, Zenon
<1> HIDE DEF q, r
<1>2. r \in Nat /\ 0 \in Word
  BY <1>1, Sizes DEF Word
<1>3. Offset(q, r) = Offset(q, 0) + r /\ Offset(q, 0) \in Nat
  BY <1>1, Order, Zenon
<1>4. MAXFILE * BSIZE = Offset(MAXFILE, 0)
  BY Sizes DEF Offset
<1>5. MAXFILE \in Nat /\ Offset(MAXFILE, 0) \in Nat
  BY <1>2, Order, Sizes, Zenon
<1>6. MAXFILE < q => Offset(MAXFILE, 0) < Offset(q, 0)
  BY <1>1, <1>2, <1>5, Order, Zenon
<1>7. ~(MAXFILE < q) /\ q # MAXFILE
  BY <1>1, <1>2, <1>3, <1>4, <1>5, <1>6
<1> QED
  BY <1>1, <1>5, <1>7 DEF q

(* The slots of a file's blocks are apart from the indirect block's. *)
LEMMA Positions ==
  ASSUME NEW a \in 0 .. MAXFILE - 1
  PROVE  /\ Pos(a) \in Index /\ Pos(a) # NDIRECT
         /\ \A b \in 0 .. MAXFILE - 1 : Pos(a) = Pos(b) => a = b
  BY Sizes DEF Pos, Index

-----------------------------------------------------------------------------
(* Slots. *)

(* A slot holds a number. *)
LEMMA SlotsType ==
  ASSUME NEW U, NEW D, NEW A, NEW F, DiskType(U, D, A)
  PROVE  Slots(D, A, F) \in [Inode -> [Index -> Int]]
<1> SUFFICES ASSUME NEW i \in Inode, NEW k \in Index PROVE Slots(D, A, F)[i][k] \in Int
  BY Zenon DEF Slots
<1>1. A[i] \in [0 .. NDIRECT -> Address] /\ NDIRECT \in 0 .. NDIRECT
  BY Sizes DEF DiskType
<1>2. CASE k <= NDIRECT
  BY <1>1, <1>2, Sizes DEF Slots, Index, Address
<1>3. CASE ~(k <= NDIRECT) /\ (A[i][NDIRECT] = 0 \/ F[i] >= k)
  BY <1>3 DEF Slots
<1>4. CASE ~(k <= NDIRECT) /\ ~(A[i][NDIRECT] = 0 \/ F[i] >= k)
  <2>1. A[i][NDIRECT] \in Block
    BY <1>1, <1>4, Sizes DEF Address
  <2>2. k - NDIRECT - 1 \in Word
    BY <1>4, Sizes DEF Index, Word
  <2>3. D[A[i][NDIRECT]][k - NDIRECT - 1] \in Int
    BY <2>1, <2>2, Zenon DEF DiskType
  <2> QED
    BY <1>4, <2>3, Zenon DEF Slots
<1> QED
  BY <1>2, <1>3, <1>4, Zenon

(* A used block is put in an empty slot. *)
LEMMA FillSlot ==
  ASSUME NEW U \in SUBSET Block, NEW S \in [Inode -> [Index -> Int]], Accounted(U, S),
         NEW i \in Inode, NEW k \in Index, S[i][k] = 0, NEW b \in Block, b \notin U
  PROVE  Accounted(U \cup {b}, [S EXCEPT ![i][k] = b])
<1> DEFINE T == [S EXCEPT ![i][k] = b]
<1>1. \A j \in Inode, l \in Index : T[j][l] = IF j = i /\ l = k THEN b ELSE S[j][l]
  BY Zenon
<1> HIDE DEF T
<1>2. \A j \in Inode, l \in Index : S[j][l] \in U \cup {0} /\ S[j][l] # b
  BY Sizes DEF Accounted
<1>3. \A j \in Inode, l \in Index : T[j][l] \in (U \cup {b}) \cup {0}
  BY <1>1, <1>2
<1>4. ASSUME NEW j \in Inode, NEW l \in Index, NEW m \in Inode, NEW n \in Index,
             T[j][l] = T[m][n], T[j][l] # 0
      PROVE  j = m /\ l = n
  BY <1>1, <1>2, <1>4 DEF Accounted
<1>5. ASSUME NEW c \in U \cup {b} PROVE \E j \in Inode, l \in Index : T[j][l] = c
  <2>1. CASE c = b
    BY <1>1, <2>1, Zenon
  <2>2. CASE c \in U
    <3>1. PICK j \in Inode, l \in Index : S[j][l] = c
      BY <2>2, Zenon DEF Accounted
    <3>2. ~(j = i /\ l = k) \/ (c = 0 /\ 0 \in U)
      BY <2>2, <3>1, Zenon
    <3> QED
      BY <1>1, <3>1, <3>2, Sizes, Zenon
  <2> QED
    BY <2>1, <2>2, Zenon
<1> QED
  BY <1>3, <1>4, <1>5 DEF Accounted, T

(* A slot is emptied and its block freed. *)
LEMMA EmptySlot ==
  ASSUME NEW U \in SUBSET Block, NEW S \in [Inode -> [Index -> Int]], Accounted(U, S),
         NEW i \in Inode, NEW k \in Index, S[i][k] # 0
  PROVE  Accounted(U \ {S[i][k]}, [S EXCEPT ![i][k] = 0])
<1> DEFINE T == [S EXCEPT ![i][k] = 0]
           b == S[i][k]
<1>1. \A j \in Inode, l \in Index : T[j][l] = IF j = i /\ l = k THEN 0 ELSE S[j][l]
  BY Zenon
<1> HIDE DEF T
<1>2. \A j \in Inode, l \in Index : S[j][l] \in U \cup {0} /\ (S[j][l] = b => j = i /\ l = k)
  BY DEF Accounted
<1>3. \A j \in Inode, l \in Index : T[j][l] \in (U \ {b}) \cup {0}
  BY <1>1, <1>2
<1>4. ASSUME NEW j \in Inode, NEW l \in Index, NEW m \in Inode, NEW n \in Index,
             T[j][l] = T[m][n], T[j][l] # 0
      PROVE  j = m /\ l = n
  BY <1>1, <1>4 DEF Accounted
<1>5. ASSUME NEW c \in U \ {b} PROVE \E j \in Inode, l \in Index : T[j][l] = c
  <2>1. PICK j \in Inode, l \in Index : S[j][l] = c
    BY Zenon DEF Accounted
  <2>2. ~(j = i /\ l = k)
    BY <2>1, Zenon
  <2> QED
    BY <1>1, <2>1, <2>2, Zenon
<1> QED
  BY <1>3, <1>4, <1>5 DEF Accounted, T

(* What Consistent says of the blocks that the slots name. *)
LEMMA Named ==
  ASSUME NEW U, NEW D, NEW A, NEW F, DiskType(U, D, A), Accounted(U, Slots(D, A, F)),
         NEW i \in Inode
  PROVE  /\ \A k \in 0 .. NDIRECT : k \in Index /\ Slots(D, A, F)[i][k] = A[i][k]
         /\ NDIRECT \in 0 .. NDIRECT
         /\ \A k \in 0 .. NDIRECT : A[i][k] # 0 => A[i][k] \in U /\ A[i][k] \in Block
         /\ \A j \in Inode : A[i][NDIRECT] # 0 /\ A[i][NDIRECT] = A[j][NDIRECT] => i = j
<1>1. \A j \in Inode : \A k \in 0 .. NDIRECT : k \in Index /\ Slots(D, A, F)[j][k] = A[j][k]
  BY Sizes DEF Slots, Index
<1>2. NDIRECT \in 0 .. NDIRECT
  BY Sizes
<1>3. \A k \in 0 .. NDIRECT : A[i][k] # 0 => A[i][k] \in U /\ A[i][k] \in Block
  BY <1>1 DEF Accounted, DiskType
<1>4. \A j \in Inode : A[i][NDIRECT] # 0 /\ A[i][NDIRECT] = A[j][NDIRECT] => i = j
  BY <1>1, <1>2 DEF Accounted
<1> QED
  BY <1>1, <1>2, <1>3, <1>4, Zenon

(* An address of an inode is set to a block that is cleared. *)
SetsAddr(U, D, A, i, k, b, E, B) ==
  /\ i \in Inode /\ k \in 0 .. NDIRECT /\ A[i][k] = 0 /\ b \in Block \ U
  /\ E = [D EXCEPT ![b] = Zeroes] /\ B = [A EXCEPT ![i] = [A[i] EXCEPT ![k] = b]]

(* It fills that slot and no other. *)
LEMMA PutDirect ==
  ASSUME NEW U, NEW D, NEW A, NEW F, DiskType(U, D, A), Accounted(U, Slots(D, A, F)),
         NEW i, NEW k, NEW b, NEW E, NEW B, SetsAddr(U, D, A, i, k, b, E, B)
  PROVE  Slots(E, B, F) = [Slots(D, A, F) EXCEPT ![i][k] = b]
<1>0. /\ i \in Inode /\ k \in 0 .. NDIRECT /\ A[i][k] = 0 /\ b \in Block /\ b \notin U
      /\ E = [D EXCEPT ![b] = Zeroes] /\ B = [A EXCEPT ![i] = [A[i] EXCEPT ![k] = b]]
  BY Zenon DEF SetsAddr
<1> DEFINE S == Slots(D, A, F)
           T == Slots(E, B, F)
<1>1. S \in [Inode -> [Index -> Int]]
  BY SlotsType, Zenon
<1>2. \A j \in Inode, l \in 0 .. NDIRECT : B[j][l] = IF j = i /\ l = k THEN b ELSE A[j][l]
  BY <1>0, Zenon DEF DiskType
<1>3. \A c \in Block : E[c] = IF c = b THEN Zeroes ELSE D[c]
  BY <1>0, Zenon DEF DiskType
<1>4. \A w \in Word : Zeroes[w] = 0
  BY Zenon DEF Zeroes, Word
<1>5. b # 0
  BY <1>0, Sizes, Zenon
<1>6. ASSUME NEW j \in Inode, NEW l \in Index
      PROVE  T[j][l] = IF j = i /\ l = k THEN b ELSE S[j][l]
  <2>1. NDIRECT \in 0 .. NDIRECT /\ (A[j][NDIRECT] # 0 => A[j][NDIRECT] \in U /\ A[j][NDIRECT] \in Block)
    BY Named
  <2>2. T[j][l] = IF l <= NDIRECT THEN B[j][l]
                  ELSE IF B[j][NDIRECT] = 0 \/ F[j] >= l THEN 0
                  ELSE E[B[j][NDIRECT]][l - NDIRECT - 1]
    BY Zenon DEF Slots
  <2>3. S[j][l] = IF l <= NDIRECT THEN A[j][l]
                  ELSE IF A[j][NDIRECT] = 0 \/ F[j] >= l THEN 0
                  ELSE D[A[j][NDIRECT]][l - NDIRECT - 1]
    BY Zenon DEF Slots
  <2> HIDE DEF S, T
  <2>4. l <= NDIRECT \/ l - NDIRECT - 1 \in Word
    BY Sizes DEF Index, Word
  <2>5. CASE l <= NDIRECT
    <3>1. l \in 0 .. NDIRECT
      BY <2>5, Sizes DEF Index
    <3> QED
      BY <1>2, <2>2, <2>3, <2>5, <3>1, Zenon
  <2>6. CASE ~(l <= NDIRECT) /\ j = i /\ k = NDIRECT
    <3>1. l # k /\ S[j][l] = 0 /\ B[j][NDIRECT] = b
      BY <1>0, <1>2, <2>1, <2>3, <2>6
    <3>2. T[j][l] = 0
      BY <1>0, <1>3, <1>4, <2>2, <2>4, <2>6, <3>1
    <3> QED
      BY <3>1, <3>2, Zenon
  <2>7. CASE ~(l <= NDIRECT) /\ ~(j = i /\ k = NDIRECT)
    <3>1. l # k /\ B[j][NDIRECT] = A[j][NDIRECT]
      BY <1>0, <1>2, <2>1, <2>7
    <3>2. A[j][NDIRECT] # 0 => E[A[j][NDIRECT]] = D[A[j][NDIRECT]]
      BY <1>0, <1>3, <2>1, Zenon
    <3> QED
      BY <2>2, <2>3, <2>7, <3>1, <3>2, Zenon
  <2> QED
    BY <2>5, <2>6, <2>7, Zenon
<1>7. k \in Index
  BY <1>0, Named, Zenon
<1> QED
  <2>1. T = [j \in Inode |-> [l \in Index |-> T[j][l]]]
    BY Zenon DEF Slots
  <2> HIDE DEF S, T
  <2>2. [S EXCEPT ![i][k] = b] = [j \in Inode |-> [l \in Index |-> IF j = i /\ l = k THEN b ELSE S[j][l]]]
    BY <1>0, <1>1, <1>7, Zenon
  <2>3. T = [S EXCEPT ![i][k] = b]
    BY <1>6, <2>1, <2>2
  <2> QED
    BY <2>3, Zenon DEF S, T

(* An entry of the indirect block is set to a block that is cleared. *)
SetsEntry(U, D, A, F, i, k, b, E) ==
  /\ i \in Inode /\ k \in Word /\ b \in Block \ U /\ A[i][NDIRECT] # 0 /\ F[i] = 0
  /\ E = [[D EXCEPT ![b] = Zeroes] EXCEPT ![A[i][NDIRECT]][k] = b]

(* It fills the slot of that entry and no other. *)
LEMMA PutIndirect ==
  ASSUME NEW U, NEW D, NEW A, NEW F, DiskType(U, D, A), Accounted(U, Slots(D, A, F)),
         NEW i, NEW k, NEW b, NEW E, SetsEntry(U, D, A, F, i, k, b, E)
  PROVE  /\ NDIRECT + 1 + k \in Index
         /\ Slots(D, A, F)[i][NDIRECT + 1 + k] = D[A[i][NDIRECT]][k]
         /\ Slots(E, A, F) = [Slots(D, A, F) EXCEPT ![i][NDIRECT + 1 + k] = b]
<1>0. /\ i \in Inode /\ k \in Word /\ b \in Block /\ b \notin U /\ A[i][NDIRECT] # 0 /\ F[i] = 0
      /\ E = [[D EXCEPT ![b] = Zeroes] EXCEPT ![A[i][NDIRECT]][k] = b]
  BY Zenon DEF SetsEntry
<1> DEFINE S == Slots(D, A, F)
           x == A[i][NDIRECT]
           T == Slots(E, A, F)
           n == NDIRECT + 1 + k
<1>1. S \in [Inode -> [Index -> Int]]
  BY SlotsType, Zenon
<1>2. x \in Block /\ x \in U /\ x # b
  BY <1>0, Named
<1>3. \A c \in Block : c # b /\ c # x => E[c] = D[c]
  BY <1>0, <1>2, Zenon DEF DiskType
<1>4. \A w \in Word : E[x][w] = IF w = k THEN b ELSE D[x][w]
  BY <1>0, <1>2, Zenon DEF DiskType
<1>5. n \in Index /\ ~(n <= NDIRECT) /\ n - NDIRECT - 1 = k /\ ~(0 >= n)
  BY <1>0, Sizes, SMTT(30) DEF Index, Word
<1>6. ASSUME NEW j \in Inode, NEW l \in Index
      PROVE  T[j][l] = IF j = i /\ l = n THEN b ELSE S[j][l]
  <2>1. A[j][NDIRECT] # 0 => A[j][NDIRECT] \in U /\ A[j][NDIRECT] \in Block /\ (A[j][NDIRECT] = x => j = i)
    BY <1>0, Named
  <2>2. T[j][l] = IF l <= NDIRECT THEN A[j][l]
                  ELSE IF A[j][NDIRECT] = 0 \/ F[j] >= l THEN 0
                  ELSE E[A[j][NDIRECT]][l - NDIRECT - 1]
    BY Zenon DEF Slots
  <2>3. S[j][l] = IF l <= NDIRECT THEN A[j][l]
                  ELSE IF A[j][NDIRECT] = 0 \/ F[j] >= l THEN 0
                  ELSE D[A[j][NDIRECT]][l - NDIRECT - 1]
    BY Zenon DEF Slots
  <2> HIDE DEF S, T
  <2>4. l <= NDIRECT \/ l - NDIRECT - 1 \in Word
    BY Sizes DEF Index, Word
  <2>5. CASE l <= NDIRECT
    BY <1>5, <2>2, <2>3, <2>5, Zenon
  <2>6. CASE ~(l <= NDIRECT) /\ j # i
    <3>1. A[j][NDIRECT] # 0 => E[A[j][NDIRECT]] = D[A[j][NDIRECT]]
      BY <1>0, <1>3, <2>1, <2>6, Zenon
    <3> QED
      BY <2>2, <2>3, <2>6, <3>1, Zenon
  <2>7. CASE ~(l <= NDIRECT) /\ j = i
    <3>0. l \in Nat /\ k \in Nat /\ NDIRECT \in Nat
      BY <1>0, Sizes DEF Index, Word
    <3>1. ~(0 >= l) /\ (l = n <=> l - NDIRECT - 1 = k)
      BY <2>7, <3>0
    <3>2. T[j][l] = E[x][l - NDIRECT - 1] /\ S[j][l] = D[x][l - NDIRECT - 1]
      BY <1>0, <2>2, <2>3, <2>7, <3>1, Zenon
    <3> QED
      BY <1>4, <2>4, <2>7, <3>1, <3>2, Zenon
  <2> QED
    BY <2>5, <2>6, <2>7, Zenon
<1>7. S[i][n] = D[x][k]
  BY <1>0, <1>5, Zenon DEF Slots
<1> QED
  <2>1. T = [j \in Inode |-> [l \in Index |-> T[j][l]]]
    BY Zenon DEF Slots
  <2> HIDE DEF S, T, n
  <2>2. [S EXCEPT ![i][n] = b] = [j \in Inode |-> [l \in Index |-> IF j = i /\ l = n THEN b ELSE S[j][l]]]
    BY <1>0, <1>1, <1>5, Zenon
  <2>3. T = [S EXCEPT ![i][n] = b]
    BY <1>6, <2>1, <2>2
  <2> QED
    BY <1>5, <1>7, <2>3, Zenon DEF S, T, n

(* The words of a block that is not an indirect block do not matter. *)
Rewrites(D, A, F, i, k, v, E) ==
  /\ i \in Inode /\ k \in Index \ {NDIRECT} /\ Slots(D, A, F)[i][k] # 0
  /\ E = [D EXCEPT ![Slots(D, A, F)[i][k]] = v]

(* Writing such a block leaves every slot as it is. *)
LEMMA SameSlots ==
  ASSUME NEW U, NEW D, NEW A, NEW F, DiskType(U, D, A), Accounted(U, Slots(D, A, F)),
         NEW i, NEW k, NEW v, NEW E, Rewrites(D, A, F, i, k, v, E)
  PROVE  Slots(E, A, F) = Slots(D, A, F)
<1> DEFINE S == Slots(D, A, F)
           T == Slots(E, A, F)
           b == S[i][k]
<1>0. i \in Inode /\ k \in Index /\ k # NDIRECT /\ b # 0 /\ E = [D EXCEPT ![b] = v]
  BY Zenon DEF Rewrites
<1>1. \A c \in Block : c # b => E[c] = D[c]
  BY <1>0, Zenon DEF DiskType
<1>2. ASSUME NEW j \in Inode, NEW l \in Index PROVE T[j][l] = S[j][l]
  <2>1. A[j][NDIRECT] # 0 => A[j][NDIRECT] \in Block
    BY Named
  <2>2. A[j][NDIRECT] # b
    <3>1. NDIRECT \in Index /\ S[j][NDIRECT] = A[j][NDIRECT]
      BY Named
    <3> QED
      BY <1>0, <3>1 DEF Accounted
  <2>3. A[j][NDIRECT] # 0 => E[A[j][NDIRECT]] = D[A[j][NDIRECT]]
    BY <1>1, <2>1, <2>2, Zenon
  <2>4. T[j][l] = IF l <= NDIRECT THEN A[j][l]
                  ELSE IF A[j][NDIRECT] = 0 \/ F[j] >= l THEN 0
                  ELSE E[A[j][NDIRECT]][l - NDIRECT - 1]
    BY Zenon DEF Slots
  <2>5. S[j][l] = IF l <= NDIRECT THEN A[j][l]
                  ELSE IF A[j][NDIRECT] = 0 \/ F[j] >= l THEN 0
                  ELSE D[A[j][NDIRECT]][l - NDIRECT - 1]
    BY Zenon DEF Slots
  <2> HIDE DEF S, T
  <2> QED
    BY <2>3, <2>4, <2>5, Zenon
<1> QED
  <2>1. T = [j \in Inode |-> [l \in Index |-> T[j][l]]] /\ S = [j \in Inode |-> [l \in Index |-> S[j][l]]]
    BY Zenon DEF Slots
  <2> HIDE DEF S, T
  <2>2. T = S
    BY <1>2, <2>1, Zenon
  <2> QED
    BY <2>2, Zenon DEF S, T

(* The contents stay where the slots and their blocks do. *)
LEMMA KeepContents ==
  ASSUME NEW D, NEW S, NEW N, Contents(D, S, N), NEW E, NEW T,
         \A j \in Inode, k \in Index : k # NDIRECT /\ S[j][k] # 0 =>
           T[j][k] = S[j][k] /\ E[S[j][k]] = D[S[j][k]]
  PROVE  Contents(E, T, N)
<1> SUFFICES ASSUME NEW j \in Inode, NEW bn \in 0 .. MAXFILE - 1, NEW w \in Word,
                    Due(N, j, Offset(bn, w))
             PROVE  T[j][Pos(bn)] # 0 /\ E[T[j][Pos(bn)]][w] = N.word[j][Offset(bn, w)]
  BY Zenon DEF Contents
<1>1. Pos(bn) \in Index /\ Pos(bn) # NDIRECT
  BY Positions, Zenon
<1>2. S[j][Pos(bn)] # 0 /\ D[S[j][Pos(bn)]][w] = N.word[j][Offset(bn, w)]
  BY Zenon DEF Contents
<1> QED
  BY <1>1, <1>2

-----------------------------------------------------------------------------
(* Allocation. *)

(* The blocks and the inode a call works on. *)
Disk == [used : SUBSET Block, data : [Block -> [Word -> Int]], addrs : [0 .. NDIRECT -> Address],
         logged : SUBSET Loggable, addr : Address]

At(d, A, i) == [A EXCEPT ![i] = d.addrs]
SlotsOf(d, A, F, i) == Slots(d.data, At(d, A, i), F)
Good(d, A, F, N, i) ==
  /\ i \in Inode /\ A \in [Inode -> [0 .. NDIRECT -> Address]]
  /\ d \in Disk /\ Consistent(d.used, d.data, At(d, A, i), F, N)

(* Nothing that the slots name is given up, and other inodes stay the same. *)
Grows(S, T, i) ==
  /\ \A k \in Index : S[i][k] # 0 => T[i][k] = S[i][k]
  /\ \A j \in Inode \ {i} : T[j] = S[j]

(* What balloc() logs is a block and a bitmap block. *)
LEMMA MarksType ==
  ASSUME NEW b \in Address
  PROVE  Marks(b) \subseteq Loggable
<1>1. b \div BPB \in Nat /\ b \in Nat
  BY Sizes DEF Address
<1> QED
  BY <1>1 DEF Marks, BBLOCK, Loggable

(* Every set of numbers has a least: a lemma below, where the theorems of    *)
(* the library come in.                                                     *)
Wellordered == \A S \in SUBSET Nat : S # {} => \E m \in S : \A n \in S : m <= n

(* balloc() finds a free block if there is one. *)
LEMMA Balloc ==
  ASSUME Wellordered, NEW d \in Disk
  PROVE  \/ balloc(d) = [d EXCEPT !.addr = 0]
         \/ \E b \in Block \ d.used :
              balloc(d) = [d EXCEPT !.used = d.used \cup {b}, !.data = [d.data EXCEPT ![b] = Zeroes],
                                    !.logged = d.logged \cup Marks(b), !.addr = b]
<1>1. CASE d.used = Block
  BY <1>1, Zenon DEF balloc
<1>2. CASE d.used # Block
  <2> DEFINE R == Block \ d.used
             c == CHOOSE b \in R : \A e \in R : b <= e
  <2>0. d.used \in SUBSET Block /\ Block \subseteq Nat
    BY Sizes DEF Disk
  <2>1. R # {} /\ R \subseteq Nat
    BY <1>2, <2>0, Zenon
  <2> HIDE DEF R
  <2>2. PICK m \in R : \A e \in R : m <= e
    BY <2>1, Zenon DEF Wellordered
  <2>4. c \in R
    BY <2>2, Zenon
  <2>5. balloc(d) = [d EXCEPT !.used = @ \cup {c}, !.data[c] = Zeroes,
                              !.logged = @ \cup {BBLOCK(c), <<"block", c>>}, !.addr = c]
    BY <1>2, Zenon DEF balloc, R
  <2> HIDE DEF c
  <2> QED
    BY <2>4, <2>5, Sizes, Zenon DEF Marks, Disk, R
<1> QED
  BY <1>1, <1>2, Zenon

(* A free block b is put in an empty slot; of the blocks in use only the    *)
(* inode's indirect block may change.                                       *)
Fills(U, D, A, F, i, k, b, E, B) ==
  /\ i \in Inode /\ k \in Index /\ b \in Block \ U /\ Slots(D, A, F)[i][k] = 0
  /\ DiskType(U \cup {b}, E, B) /\ Slots(E, B, F) = [Slots(D, A, F) EXCEPT ![i][k] = b]
  /\ \A c \in U : c # A[i][NDIRECT] => E[c] = D[c]

(* What is consistent stays so. *)
LEMMA Fill ==
  ASSUME NEW U, NEW D, NEW A, NEW F, NEW N, Consistent(U, D, A, F, N), NEW i, NEW k, NEW b,
         NEW E, NEW B, Fills(U, D, A, F, i, k, b, E, B)
  PROVE  /\ Consistent(U \cup {b}, E, B, F, N)
         /\ Grows(Slots(D, A, F), Slots(E, B, F), i)
         /\ Slots(E, B, F)[i][k] = b
<1> DEFINE S == Slots(D, A, F)
           T == Slots(E, B, F)
<1>1. DiskType(U, D, A) /\ Accounted(U, S) /\ Contents(D, S, N)
  BY Zenon DEF Consistent
<1>0. /\ i \in Inode /\ k \in Index /\ b \in Block /\ b \notin U /\ S[i][k] = 0
      /\ DiskType(U \cup {b}, E, B) /\ T = [S EXCEPT ![i][k] = b]
      /\ \A c \in U : c # A[i][NDIRECT] => E[c] = D[c]
  BY Zenon DEF Fills
<1>2. S \in [Inode -> [Index -> Int]] /\ U \in SUBSET Block
  BY <1>1, SlotsType, Zenon DEF DiskType
<1>3. NDIRECT \in Index /\ S[i][NDIRECT] = A[i][NDIRECT]
  BY <1>0, <1>1, Named
<1> HIDE DEF S, T
<1>5. Accounted(U \cup {b}, T)
  BY <1>0, <1>1, <1>2, FillSlot, Zenon
<1>6. \A j \in Inode, l \in Index : T[j][l] = IF j = i /\ l = k THEN b ELSE S[j][l]
  BY <1>0, <1>2, Zenon
<1>8. ASSUME NEW j \in Inode, NEW l \in Index, l # NDIRECT, S[j][l] # 0
      PROVE  T[j][l] = S[j][l] /\ E[S[j][l]] = D[S[j][l]]
  <2>1. S[j][l] \in U
    BY <1>1, <1>8, Zenon DEF Accounted
  <2>2. S[j][l] # A[i][NDIRECT]
    BY <1>0, <1>1, <1>3, <1>8 DEF Accounted
  <2> QED
    BY <1>0, <1>6, <1>8, <2>1, <2>2
<1>9. Contents(E, T, N)
  BY <1>1, <1>8, KeepContents, SMTT(30)
<1>10. \A j \in Inode \ {i} : T[j] = S[j]
  BY <1>0, <1>2, Zenon
<1>11. Grows(S, T, i) /\ T[i][k] = b
  BY <1>0, <1>6, <1>10 DEF Grows
<1> QED
  BY <1>0, <1>5, <1>9, <1>11, Zenon DEF Consistent, S, T

(* ip->addrs[k], allocated if need be. *)
Finds(d, k, e) == k \in 0 .. NDIRECT /\ e = Direct(d, k)
Found(d, e, A, F, N, i, k) ==
  /\ Good(e, A, F, N, i)
  /\ Grows(SlotsOf(d, A, F, i), SlotsOf(e, A, F, i), i)
  /\ e.addr # 0 => e.addrs[k] = e.addr
  /\ e.logged = IF e.addr # 0 /\ d.addrs[k] = 0 THEN d.logged \cup Marks(e.addr) ELSE d.logged

(* The address is found or filled in, and what was consistent stays so. *)
LEMMA DirectStep ==
  ASSUME Wellordered, NEW d, NEW A, NEW F, NEW N, NEW i \in Inode, Good(d, A, F, N, i),
         NEW k, NEW e, Finds(d, k, e)
  PROVE  Found(d, e, A, F, N, i, k)
<1>0. k \in 0 .. NDIRECT
  BY Zenon DEF Finds
<1>1. d \in Disk /\ Consistent(d.used, d.data, At(d, A, i), F, N)
  BY Zenon DEF Good
<1> DEFINE g == balloc(d)
<1>2. e = IF d.addrs[k] # 0 THEN [d EXCEPT !.addr = d.addrs[k]]
          ELSE IF g.addr = 0 THEN g ELSE [g EXCEPT !.addrs[k] = g.addr]
  BY Zenon DEF Direct, Finds
<1> HIDE DEF g
<1>3. ASSUME NEW a \in Address, e = [d EXCEPT !.addr = a], a # 0 => d.addrs[k] = a
      PROVE  /\ Good(e, A, F, N, i)
             /\ Grows(SlotsOf(d, A, F, i), SlotsOf(e, A, F, i), i)
             /\ e.addr # 0 => e.addrs[k] = e.addr
             /\ e.logged = d.logged /\ e.addr = a
  <2>1. e \in Disk /\ e.used = d.used /\ e.data = d.data /\ e.addrs = d.addrs /\ e.logged = d.logged
        /\ e.addr = a
    BY <1>1, <1>3, Zenon DEF Disk
  <2> QED
    BY <1>1, <1>3, <2>1, Zenon DEF Good, At, SlotsOf, Grows
<1>4. CASE d.addrs[k] # 0
  <2>1. d.addrs[k] \in Address
    BY <1>0, <1>1, Zenon DEF Disk
  <2>2. e = [d EXCEPT !.addr = d.addrs[k]]
    BY <1>2, <1>4, Zenon
  <2> QED
    BY <1>3, <1>4, <2>1, <2>2, Zenon DEF Found
<1>5. CASE d.addrs[k] = 0 /\ g = [d EXCEPT !.addr = 0]
  <2>1. g.addr = 0 /\ 0 \in Address
    BY <1>1, <1>5, Sizes DEF Disk, Address
  <2>2. e = [d EXCEPT !.addr = 0]
    BY <1>2, <1>5, <2>1, Zenon
  <2>3. e.addr = 0
    BY <1>1, <2>2, Zenon DEF Disk
  <2> QED
    BY <1>3, <2>1, <2>2, <2>3, Zenon DEF Found
<1>6. ASSUME d.addrs[k] = 0, NEW b \in Block \ d.used,
             g = [d EXCEPT !.used = d.used \cup {b}, !.data = [d.data EXCEPT ![b] = Zeroes],
                           !.logged = d.logged \cup Marks(b), !.addr = b]
      PROVE  Found(d, e, A, F, N, i, k)
  <2>1. g.addr = b /\ b # 0 /\ b \in Address
    BY <1>1, <1>6, Sizes, Zenon DEF Disk
  <2>2. e = [g EXCEPT !.addrs[k] = b]
    BY <1>2, <1>6, <2>1, Zenon
  <2>3. /\ e.used = d.used \cup {b} /\ e.data = [d.data EXCEPT ![b] = Zeroes]
        /\ e.addrs = [d.addrs EXCEPT ![k] = b]
        /\ e.logged = d.logged \cup Marks(b) /\ e.addr = b
        /\ e = [used |-> e.used, data |-> e.data, addrs |-> e.addrs, logged |-> e.logged, addr |-> e.addr]
    BY <1>0, <1>1, <1>6, <2>2, Zenon DEF Disk
  <2>4. Zeroes \in [Word -> Int]
    BY DEF Zeroes, Word
  <2>5. e.used \in SUBSET Block /\ e.data \in [Block -> [Word -> Int]]
        /\ e.addrs \in [0 .. NDIRECT -> Address] /\ e.logged \in SUBSET Loggable
    BY <1>0, <1>1, <2>1, <2>3, <2>4, MarksType DEF Disk
  <2>6. e \in Disk
    BY <2>1, <2>3, <2>5, Zenon DEF Disk
  <2> DEFINE B == At(d, A, i)
             C == At(e, A, i)
  <2>7. B \in [Inode -> [0 .. NDIRECT -> Address]] /\ B[i] = d.addrs
    BY <1>1, Zenon DEF Disk, At, Good
  <2>8. C = [B EXCEPT ![i] = [B[i] EXCEPT ![k] = b]] /\ C \in [Inode -> [0 .. NDIRECT -> Address]]
    BY <2>3, <2>5, <2>7, Zenon DEF At
  <2> HIDE DEF B, C
  <2>9. DiskType(d.used, d.data, B) /\ Accounted(d.used, Slots(d.data, B, F))
    BY <1>1, Zenon DEF Consistent, B
  <2>10. Slots(e.data, C, F) = [Slots(d.data, B, F) EXCEPT ![i][k] = b]
    <3>1. SetsAddr(d.used, d.data, B, i, k, b, e.data, C)
      BY <1>0, <1>6, <2>3, <2>7, <2>8, Zenon DEF SetsAddr
    <3> QED
      BY <3>1, <2>9, PutDirect
  <2>11. k \in Index /\ Slots(d.data, B, F)[i][k] = 0
    BY <1>0, <1>6, <2>7, <2>9, Named
  <2>12. DiskType(d.used \cup {b}, e.data, C)
    BY <2>3, <2>5, <2>8, Zenon DEF DiskType
  <2>13. \A c \in d.used : e.data[c] = d.data[c]
    BY <1>1, <1>6, <2>3, Zenon DEF Disk
  <2>14. Consistent(d.used, d.data, B, F, N)
    BY <1>1, Zenon DEF B
  <2>15. /\ Consistent(d.used \cup {b}, e.data, C, F, N)
         /\ Grows(Slots(d.data, B, F), Slots(e.data, C, F), i)
    <3>1. Fills(d.used, d.data, B, F, i, k, b, e.data, C)
      BY <1>6, <2>3, <2>8, <2>10, <2>11, <2>12, <2>13, Zenon DEF Fills
    <3> QED
      BY <2>14, <3>1, Fill, Zenon
  <2>16. e.addrs[k] = b
    BY <1>0, <1>1, <2>3, Zenon DEF Disk
  <2> QED
    BY <1>6, <2>1, <2>3, <2>6, <2>15, <2>16, Zenon DEF Found, Good, SlotsOf, B, C
<1> QED
  BY <1>1, <1>4, <1>5, <1>6, Balloc, Zenon DEF g

(* Only the address that a call returns changes. *)
LEMMA Returns ==
  ASSUME NEW d, NEW A, NEW F, NEW N, NEW i, Good(d, A, F, N, i), NEW a \in Address,
         NEW e, e = [d EXCEPT !.addr = a]
  PROVE  /\ Good(e, A, F, N, i) /\ SlotsOf(e, A, F, i) = SlotsOf(d, A, F, i)
         /\ e.addr = a /\ e.addrs = d.addrs /\ e.logged = d.logged
<1>1. d \in Disk
  BY Zenon DEF Good
<1>2. e \in Disk /\ e.used = d.used /\ e.data = d.data /\ e.addrs = d.addrs /\ e.logged = d.logged
      /\ e.addr = a
  BY <1>1, Zenon DEF Disk
<1> QED
  BY <1>2, Zenon DEF Good, At, SlotsOf

(* Growing twice is growing. *)
LEMMA GrowsTwice ==
  ASSUME NEW i \in Inode, NEW R, NEW S, NEW T, Grows(R, S, i), Grows(S, T, i)
  PROVE  Grows(R, T, i)
  BY Zenon DEF Grows

(* What bmap() needs of its result: the slot of block bn holds it. *)
Maps(d, e, A, F, i, bn) ==
  /\ Grows(SlotsOf(d, A, F, i), SlotsOf(e, A, F, i), i)
  /\ e.addr # 0 => SlotsOf(e, A, F, i)[i][Pos(bn)] = e.addr
  /\ e.logged \subseteq d.logged \cup Marks(e.addrs[NDIRECT])
       \cup (IF e.addr # 0 /\ SlotsOf(d, A, F, i)[i][Pos(bn)] = 0 THEN Marks(e.addr) ELSE {})

(* The slots of the inode at hand. *)
LEMMA OwnSlots ==
  ASSUME NEW d, NEW A, NEW F, NEW N, NEW i \in Inode, Good(d, A, F, N, i), F[i] = 0
  PROVE  /\ \A k \in 0 .. NDIRECT : SlotsOf(d, A, F, i)[i][k] = d.addrs[k]
         /\ d.addrs[NDIRECT] # 0 => \A k \in Word :
              SlotsOf(d, A, F, i)[i][NDIRECT + 1 + k] = d.data[d.addrs[NDIRECT]][k]
         /\ \A k \in Index : SlotsOf(d, A, F, i)[i][k] \in Address
<1>1. d \in Disk /\ Accounted(d.used, SlotsOf(d, A, F, i))
  BY Zenon DEF Good, Consistent, SlotsOf
<1>2. At(d, A, i)[i] = d.addrs
  BY Zenon DEF At, Good
<1>3. \A k \in 0 .. NDIRECT : k \in Index /\ k <= NDIRECT
  BY Sizes DEF Index
<1>4. \A k \in Word : /\ NDIRECT + 1 + k \in Index /\ ~(NDIRECT + 1 + k <= NDIRECT)
                      /\ (NDIRECT + 1 + k) - NDIRECT - 1 = k /\ ~(0 >= NDIRECT + 1 + k)
  BY Sizes DEF Index, Word
<1>5. \A k \in 0 .. NDIRECT : SlotsOf(d, A, F, i)[i][k] = d.addrs[k]
  BY <1>2, <1>3, Zenon DEF SlotsOf, Slots
<1>6. ASSUME d.addrs[NDIRECT] # 0, NEW k \in Word
      PROVE  SlotsOf(d, A, F, i)[i][NDIRECT + 1 + k] = d.data[d.addrs[NDIRECT]][k]
  BY <1>2, <1>4, <1>6, Zenon DEF SlotsOf, Slots
<1>7. d.used \in SUBSET Block
  BY <1>1, Zenon DEF Disk
<1>8. \A k \in Index : SlotsOf(d, A, F, i)[i][k] \in Address
  BY <1>1, <1>7, Sizes DEF Accounted, Address
<1> QED
  BY <1>5, <1>6, <1>8, Zenon

(* bmap() of a direct block. *)
LEMMA BmapDirect ==
  ASSUME Wellordered, NEW d, NEW A, NEW F, NEW N, NEW i \in Inode, Good(d, A, F, N, i), F[i] = 0,
         NEW bn \in 0 .. MAXFILE - 1, bn < NDIRECT, NEW e, e = bmap(d, bn)
  PROVE  Good(e, A, F, N, i) /\ Maps(d, e, A, F, i, bn)
<1>1. e = Direct(d, bn) /\ bn \in 0 .. NDIRECT /\ Pos(bn) = bn
  BY Sizes DEF bmap, Pos
<1>2. /\ Good(e, A, F, N, i)
      /\ Grows(SlotsOf(d, A, F, i), SlotsOf(e, A, F, i), i)
      /\ e.addr # 0 => e.addrs[bn] = e.addr
      /\ e.logged = IF e.addr # 0 /\ d.addrs[bn] = 0 THEN d.logged \cup Marks(e.addr) ELSE d.logged
  <2>1. Finds(d, bn, e)
    BY <1>1, Zenon DEF Finds
  <2>2. Found(d, e, A, F, N, i, bn)
    BY <2>1, DirectStep, Zenon
  <2> QED
    BY <2>2, Zenon DEF Found
<1>3. SlotsOf(d, A, F, i)[i][bn] = d.addrs[bn] /\ SlotsOf(e, A, F, i)[i][bn] = e.addrs[bn]
  BY <1>1, <1>2, OwnSlots
<1> QED
  BY <1>1, <1>2, <1>3, Zenon DEF Maps

(* An empty entry k of the indirect block is given a free block b. *)
Enters(g, k, b, e) ==
  /\ g.addrs[NDIRECT] # 0 /\ k \in Word /\ g.data[g.addrs[NDIRECT]][k] = 0 /\ b \in Block \ g.used
  /\ e = [[g EXCEPT !.used = g.used \cup {b}, !.data = [g.data EXCEPT ![b] = Zeroes],
                    !.logged = g.logged \cup Marks(b), !.addr = b]
           EXCEPT !.data[g.addrs[NDIRECT]][k] = b,
                  !.logged = @ \cup {<<"block", g.addrs[NDIRECT]>>}]
Entered(g, e, A, F, N, i, k, b) ==
  /\ Good(e, A, F, N, i) /\ Grows(SlotsOf(g, A, F, i), SlotsOf(e, A, F, i), i)
  /\ SlotsOf(e, A, F, i)[i][NDIRECT + 1 + k] = b
  /\ e.addr = b /\ e.addrs = g.addrs
  /\ e.logged \subseteq g.logged \cup Marks(g.addrs[NDIRECT]) \cup Marks(b)

(* That fills the slot of the entry, and what was consistent stays so. *)
LEMMA NewEntry ==
  ASSUME NEW g, NEW A, NEW F, NEW N, NEW i \in Inode, Good(g, A, F, N, i), F[i] = 0,
         NEW k, NEW b, NEW e, Enters(g, k, b, e)
  PROVE  Entered(g, e, A, F, N, i, k, b)
<1> SUFFICES ASSUME
      g.addrs[NDIRECT] # 0 /\ k \in Word /\ g.data[g.addrs[NDIRECT]][k] = 0 /\ b \in Block \ g.used,
      e = [[g EXCEPT !.used = g.used \cup {b}, !.data = [g.data EXCEPT ![b] = Zeroes],
                     !.logged = g.logged \cup Marks(b), !.addr = b]
            EXCEPT !.data[g.addrs[NDIRECT]][k] = b,
                   !.logged = @ \cup {<<"block", g.addrs[NDIRECT]>>}]
    PROVE Entered(g, e, A, F, N, i, k, b)
  BY Zenon DEF Enters
<1> DEFINE x == g.addrs[NDIRECT]
           B == At(g, A, i)
           n == NDIRECT + 1 + k
<1>1. g \in Disk /\ Consistent(g.used, g.data, B, F, N)
  BY Zenon DEF Good
<1>2. DiskType(g.used, g.data, B) /\ Accounted(g.used, Slots(g.data, B, F))
  BY <1>1, Zenon DEF Consistent
<1>3. B \in [Inode -> [0 .. NDIRECT -> Address]] /\ B[i] = g.addrs /\ B[i][NDIRECT] = x
  BY <1>1, Zenon DEF Disk, At, Good
<1>4. x \in Block /\ x \in g.used /\ NDIRECT \in 0 .. NDIRECT
  BY <1>2, <1>3, Named
<1>5. /\ e.used = g.used \cup {b} /\ e.data = [[g.data EXCEPT ![b] = Zeroes] EXCEPT ![x][k] = b]
      /\ e.addrs = g.addrs /\ e.addr = b /\ e.logged = (g.logged \cup Marks(b)) \cup {<<"block", x>>}
      /\ e = [used |-> e.used, data |-> e.data, addrs |-> e.addrs, logged |-> e.logged, addr |-> e.addr]
  BY <1>1, Zenon DEF Disk
<1>6. Zeroes \in [Word -> Int] /\ b \in Int /\ b # x /\ b \in Address /\ x \in Address
  BY <1>4, Sizes, SMTT(30) DEF Zeroes, Word, Address
<1>7. e.data \in [Block -> [Word -> Int]]
  <2> DEFINE D1 == [g.data EXCEPT ![b] = Zeroes]
  <2>1. D1 \in [Block -> [Word -> Int]]
    BY <1>1, <1>6, Zenon DEF Disk
  <2>2. e.data = [D1 EXCEPT ![x] = [D1[x] EXCEPT ![k] = b]]
    BY <1>5, Zenon
  <2> HIDE DEF D1, x
  <2>3. [D1[x] EXCEPT ![k] = b] \in [Word -> Int]
    BY <1>4, <1>6, <2>1, Zenon
  <2> DEFINE v == [D1[x] EXCEPT ![k] = b]
             V == [Word -> Int]
  <2>4. D1 \in [Block -> V] /\ v \in V /\ e.data = [D1 EXCEPT ![x] = v]
    BY <2>1, <2>2, <2>3, Zenon
  <2> HIDE DEF v, V
  <2>5. e.data \in [Block -> V]
    BY <1>4, <2>4, ZenonT(30)
  <2> QED
    BY <2>5, Zenon DEF V
<1>8. \A c \in g.used : c # x => e.data[c] = g.data[c]
  BY <1>1, <1>4, <1>5 DEF Disk
<1>9. e.used \in SUBSET Block /\ e.addrs \in [0 .. NDIRECT -> Address]
  BY <1>1, <1>5 DEF Disk
<1>10. <<"block", x>> \in Marks(x)
  BY Zenon DEF Marks
<1>11. e.logged \in SUBSET Loggable
  <2>1. g.logged \in SUBSET Loggable
    BY <1>1, Zenon DEF Disk
  <2>2. Marks(x) \subseteq Loggable /\ Marks(b) \subseteq Loggable
    BY <1>6, MarksType, Zenon
  <2> QED
    BY <1>5, <1>10, <2>1, <2>2
<1>12. e \in Disk
  BY <1>5, <1>6, <1>7, <1>9, <1>11, Zenon DEF Disk
<1>13. At(e, A, i) = B
  BY <1>5, Zenon DEF At
<1> HIDE DEF B, x, n
<1>14. SetsEntry(g.used, g.data, B, F, i, k, b, e.data)
  BY <1>3, <1>4, <1>5, <1>6, Sizes, Zenon DEF SetsEntry
<1>15. /\ n \in Index
       /\ Slots(g.data, B, F)[i][n] = g.data[B[i][NDIRECT]][k]
       /\ Slots(e.data, B, F) = [Slots(g.data, B, F) EXCEPT ![i][n] = b]
  BY <1>2, <1>14, PutIndirect, SMTT(30) DEF n
<1>16. g.data[x][k] = 0
  BY Zenon DEF x
<1>17. DiskType(g.used \cup {b}, e.data, B)
  BY <1>3, <1>5, <1>7, <1>9, Zenon DEF DiskType
<1>18. Fills(g.used, g.data, B, F, i, n, b, e.data, B)
  BY <1>3, <1>8, <1>15, <1>16, <1>17, Zenon DEF Fills
<1>19. /\ Consistent(g.used \cup {b}, e.data, B, F, N)
       /\ Grows(Slots(g.data, B, F), Slots(e.data, B, F), i)
       /\ Slots(e.data, B, F)[i][n] = b
  <2>1. Consistent(g.used, g.data, B, F, N)
    BY <1>1, Zenon
  <2> QED
    BY <2>1, <1>18, Fill, SMTT(30)
<1>20. Good(e, A, F, N, i) /\ SlotsOf(e, A, F, i) = Slots(e.data, B, F)
  BY <1>5, <1>12, <1>13, <1>19, Zenon DEF Good, SlotsOf
<1> QED
  BY <1>5, <1>10, <1>19, <1>20, Zenon DEF Entered, SlotsOf, B, x, n

(* bmap() of a block that the indirect block lists: up to two allocations. *)
LEMMA BmapIndirect ==
  ASSUME Wellordered, NEW d, NEW A, NEW F, NEW N, NEW i \in Inode, Good(d, A, F, N, i), F[i] = 0,
         NEW bn \in 0 .. MAXFILE - 1, ~(bn < NDIRECT), NEW e, e = bmap(d, bn)
  PROVE  Good(e, A, F, N, i) /\ Maps(d, e, A, F, i, bn)
<1> DEFINE g == Direct(d, NDIRECT)
           k == bn - NDIRECT
           h == balloc(g)
<1>1. k \in Word /\ Pos(bn) = NDIRECT + 1 + k /\ Pos(bn) \in Index
  BY Sizes DEF Word, Pos, Index
<1>2. e = IF g.addr = 0 THEN g
          ELSE IF g.data[g.addr][k] # 0 THEN [g EXCEPT !.addr = g.data[g.addr][k]]
          ELSE IF h.addr = 0 THEN h
          ELSE [h EXCEPT !.data[g.addr][k] = h.addr, !.logged = @ \cup {<<"block", g.addr>>}]
  BY Zenon DEF bmap
<1>3. Finds(d, NDIRECT, g)
  BY Sizes DEF Finds
<1> HIDE DEF g, h, k
<1>4. Found(d, g, A, F, N, i, NDIRECT)
  BY <1>3, DirectStep, Zenon
<1>5. /\ Good(g, A, F, N, i) /\ Grows(SlotsOf(d, A, F, i), SlotsOf(g, A, F, i), i)
      /\ g.addr # 0 => g.addrs[NDIRECT] = g.addr
      /\ g.addr = 0 => g.logged = d.logged
      /\ g.logged \subseteq d.logged \cup Marks(g.addr) /\ g \in Disk
  BY <1>4, Zenon DEF Found, Good
<1> DEFINE S == SlotsOf(d, A, F, i)
           G == SlotsOf(g, A, F, i)
           T == SlotsOf(e, A, F, i)
<1>6. CASE g.addr = 0
  <2>1. e = g
    BY <1>2, <1>6, Zenon
  <2> QED
    BY <1>5, <1>6, <2>1, Zenon DEF Maps
<1>7. ASSUME g.addr # 0 PROVE G[i][Pos(bn)] = g.data[g.addr][k] /\ G[i][Pos(bn)] \in Address
  BY <1>1, <1>5, <1>7, OwnSlots
<1>8. CASE g.addr # 0 /\ g.data[g.addr][k] # 0
  <2>1. e = [g EXCEPT !.addr = g.data[g.addr][k]] /\ g.data[g.addr][k] \in Address
    BY <1>2, <1>7, <1>8, Zenon
  <2>2. /\ Good(e, A, F, N, i) /\ T = G /\ e.addr = g.data[g.addr][k]
        /\ e.addrs = g.addrs /\ e.logged = g.logged
    BY <1>5, <2>1, Returns
  <2> QED
    BY <1>5, <1>7, <1>8, <2>2, Zenon DEF Maps
<1>9. CASE g.addr # 0 /\ g.data[g.addr][k] = 0 /\ h = [g EXCEPT !.addr = 0]
  <2>1. 0 \in Address
    BY Sizes DEF Address
  <2>2. Good(h, A, F, N, i) /\ SlotsOf(h, A, F, i) = G /\ h.addr = 0
        /\ h.addrs = g.addrs /\ h.logged = g.logged
    BY <1>5, <1>9, <2>1, Returns
  <2>3. e = h
    BY <1>2, <1>9, <2>2, Zenon
  <2> QED
    BY <1>5, <1>9, <2>2, <2>3, Zenon DEF Maps
<1>10. ASSUME g.addr # 0, g.data[g.addr][k] = 0, NEW b \in Block \ g.used,
              h = [g EXCEPT !.used = g.used \cup {b}, !.data = [g.data EXCEPT ![b] = Zeroes],
                            !.logged = g.logged \cup Marks(b), !.addr = b]
       PROVE  Good(e, A, F, N, i) /\ Maps(d, e, A, F, i, bn)
  <2>1. h.addr = b /\ b # 0
    BY <1>5, <1>10, Sizes, Zenon DEF Disk
  <2>2. e = [h EXCEPT !.data[g.addrs[NDIRECT]][k] = b,
                      !.logged = @ \cup {<<"block", g.addrs[NDIRECT]>>}]
    BY <1>2, <1>5, <1>10, <2>1, Zenon
  <2>3. /\ Good(e, A, F, N, i) /\ Grows(G, T, i)
        /\ T[i][NDIRECT + 1 + k] = b
        /\ e.addr = b /\ e.addrs = g.addrs
        /\ e.logged \subseteq g.logged \cup Marks(g.addrs[NDIRECT]) \cup Marks(b)
    <3>1. Enters(g, k, b, e)
      BY <1>1, <1>5, <1>10, <2>2, Zenon DEF Enters
    <3>2. Entered(g, e, A, F, N, i, k, b)
      BY <1>5, <3>1, NewEntry, Zenon
    <3> QED
      BY <3>2, Zenon DEF Entered
  <2>4. Grows(S, T, i)
    BY <1>5, <2>3, GrowsTwice, Zenon
  <2>5. S[i][Pos(bn)] = 0
    BY <1>1, <1>5, <1>7, <1>10, Zenon DEF Grows
  <2> QED
    BY <1>1, <1>5, <1>10, <2>1, <2>3, <2>4, <2>5, Zenon DEF Maps
<1> QED
  BY <1>5, <1>6, <1>8, <1>9, <1>10, Balloc, Zenon DEF h

-----------------------------------------------------------------------------
(* Truncation. *)

(* What Victim() and a step of itrunc() do, on D, A and F.  Place(j) is the *)
(* slot that it empties.                                                    *)
VictimOf(D, A, i, j) ==
  IF j < NDIRECT THEN A[i][j]
  ELSE IF j = MAXFILE \/ A[i][NDIRECT] = 0 THEN A[i][NDIRECT]
  ELSE D[A[i][NDIRECT]][j - NDIRECT]

Place(j) == IF j < NDIRECT THEN j ELSE IF j = MAXFILE THEN NDIRECT ELSE j + 1

Cuts(D, A, F, i, j, b, E, B, H) ==
  /\ i \in Inode /\ F \in [Inode -> Nat] /\ j \in F[i] .. MAXFILE
  /\ b = VictimOf(D, A, i, j) /\ b # 0 /\ \A k \in F[i] .. j - 1 : VictimOf(D, A, i, k) = 0
  /\ E = [D EXCEPT ![b] = Stale] /\ H = [F EXCEPT ![i] = j + 1]
  /\ B = IF j \in NDIRECT .. MAXFILE - 1 THEN A ELSE [A EXCEPT ![i][min(j, NDIRECT)] = 0]

(* The block is the one in that slot. *)
LEMMA VictimSlot ==
  ASSUME NEW U, NEW D, NEW A, NEW F, DiskType(U, D, A), NEW i \in Inode, F \in [Inode -> Nat],
         NEW j \in F[i] .. MAXFILE
  PROVE  /\ Place(j) \in Index /\ j \in Nat
         /\ VictimOf(D, A, i, j) = Slots(D, A, F)[i][Place(j)]
<1>1. F[i] \in Nat /\ j \in Nat /\ j <= MAXFILE /\ j >= F[i]
  BY Sizes
<1>2. CASE j < NDIRECT
  BY <1>1, <1>2, Sizes DEF VictimOf, Place, Index, Slots
<1>3. CASE j = MAXFILE
  BY <1>1, <1>3, Sizes DEF VictimOf, Place, Index, Slots
<1>4. CASE ~(j < NDIRECT) /\ j # MAXFILE
  <2>1. /\ Place(j) = j + 1 /\ j + 1 \in Index /\ ~(j + 1 <= NDIRECT) /\ ~(F[i] >= j + 1)
        /\ (j + 1) - NDIRECT - 1 = j - NDIRECT
    BY <1>1, <1>4, Sizes DEF Place, Index
  <2> QED
    BY <1>1, <1>4, <2>1, Zenon DEF VictimOf, Slots
<1> QED
  BY <1>2, <1>3, <1>4, Zenon

(* A step of itrunc() empties one slot. *)
LEMMA CutSlot ==
  ASSUME NEW U, NEW D, NEW A, NEW F, DiskType(U, D, A), Accounted(U, Slots(D, A, F)),
         NEW i, NEW j, NEW b, NEW E, NEW B, NEW H, Cuts(D, A, F, i, j, b, E, B, H)
  PROVE  /\ Place(j) \in Index /\ Slots(D, A, F)[i][Place(j)] = b
         /\ Slots(E, B, H) = [Slots(D, A, F) EXCEPT ![i][Place(j)] = 0]
<1> DEFINE S == Slots(D, A, F)
           T == Slots(E, B, H)
           n == Place(j)
<1>1. /\ i \in Inode /\ F \in [Inode -> Nat] /\ j \in F[i] .. MAXFILE
      /\ b = VictimOf(D, A, i, j) /\ b # 0 /\ \A k \in F[i] .. j - 1 : VictimOf(D, A, i, k) = 0
      /\ E = [D EXCEPT ![b] = Stale] /\ H = [F EXCEPT ![i] = j + 1]
      /\ B = IF j \in NDIRECT .. MAXFILE - 1 THEN A ELSE [A EXCEPT ![i][min(j, NDIRECT)] = 0]
  BY Zenon DEF Cuts
<1>2. n \in Index /\ j \in Nat /\ S[i][n] = b
  BY <1>1, VictimSlot
<1>3. \A m \in Inode : NDIRECT \in Index /\ S[m][NDIRECT] = A[m][NDIRECT]
                       /\ (A[m][NDIRECT] # 0 => A[m][NDIRECT] \in Block)
  BY Named
<1>4. \A c \in Block : c # b => E[c] = D[c]
  BY <1>1, Zenon DEF DiskType
<1>5. A \in [Inode -> [0 .. NDIRECT -> Address]] /\ F[i] \in Nat /\ j <= MAXFILE /\ F[i] <= j
  BY <1>1, Sizes DEF DiskType
<1>6. \A m \in Inode, l \in Index :
        /\ T[m][l] = IF l <= NDIRECT THEN B[m][l]
                     ELSE IF B[m][NDIRECT] = 0 \/ H[m] >= l THEN 0
                     ELSE E[B[m][NDIRECT]][l - NDIRECT - 1]
        /\ S[m][l] = IF l <= NDIRECT THEN A[m][l]
                     ELSE IF A[m][NDIRECT] = 0 \/ F[m] >= l THEN 0
                     ELSE D[A[m][NDIRECT]][l - NDIRECT - 1]
  BY Zenon DEF Slots
<1>7. T = [m \in Inode |-> [l \in Index |-> T[m][l]]]
  BY Zenon DEF Slots
<1>8. S \in [Inode -> [Index -> Int]]
  BY SlotsType, Zenon
<1>9. \A m \in Inode, l \in Index : S[m][l] = b => m = i /\ l = n
  BY <1>1, <1>2 DEF Accounted
<1>10. n = IF j < NDIRECT THEN j ELSE IF j = MAXFILE THEN NDIRECT ELSE j + 1
  BY Zenon DEF Place
<1> HIDE DEF S, T, n
<1>11. ASSUME NEW m \in Inode, m # i, NEW l \in Index PROVE T[m][l] = S[m][l]
  <2>1. B[m] = A[m] /\ H[m] = F[m]
    BY <1>1, <1>5, <1>11, Zenon
  <2>2. A[m][NDIRECT] # 0 => E[A[m][NDIRECT]] = D[A[m][NDIRECT]]
    BY <1>3, <1>4, <1>9, <1>11
  <2> QED
    BY <1>6, <2>1, <2>2
(* Below the new mark the entries of the indirect block are already gone. *)
<1>12. ASSUME NEW l \in Index, ~(l <= NDIRECT), l <= j
       PROVE  S[i][l] = 0
  <2>1. l \in Nat /\ ~(l - 1 < NDIRECT) /\ l - 1 # MAXFILE /\ (l - 1) - NDIRECT = l - NDIRECT - 1
    BY <1>12, Sizes DEF Index
  <2>2. CASE F[i] >= l
    BY <1>1, <1>6, <1>12, <2>2, Zenon
  <2>3. CASE ~(F[i] >= l)
    <3>1. l - 1 \in F[i] .. j - 1
      BY <1>2, <1>5, <1>12, <2>1, <2>3
    <3>2. VictimOf(D, A, i, l - 1) = 0
      BY <1>1, <3>1, Zenon
    <3>3. A[i][NDIRECT] = 0 \/ D[A[i][NDIRECT]][l - NDIRECT - 1] = 0
      BY <2>1, <3>2, Zenon DEF VictimOf
    <3> QED
      BY <1>1, <1>6, <1>12, <3>3, Zenon
  <2> QED
    BY <2>2, <2>3, Zenon
<1>13. H[i] = j + 1
  BY <1>1, Zenon
<1>14. ASSUME NEW l \in Index PROVE T[i][l] = IF l = n THEN 0 ELSE S[i][l]
  <2>0. l \in Nat /\ l <= MAXFILE /\ NDIRECT \in Nat /\ MAXFILE \in Nat /\ NDIRECT < MAXFILE
    BY Sizes DEF Index
  <2>1. CASE j < NDIRECT
    <3>1. /\ B = [A EXCEPT ![i][j] = 0] /\ n = j /\ j \in 0 .. NDIRECT /\ NDIRECT \in 0 .. NDIRECT
          /\ NDIRECT # j
      BY <1>1, <1>2, <1>10, <2>0, <2>1 DEF min
    <3>2. B[i][NDIRECT] = A[i][NDIRECT] /\ \A q \in 0 .. NDIRECT : B[i][q] = IF q = j THEN 0 ELSE A[i][q]
      BY <1>1, <1>5, <3>1
    <3>3. A[i][NDIRECT] # 0 => E[A[i][NDIRECT]] = D[A[i][NDIRECT]]
      BY <1>1, <1>3, <1>4, <1>9, <3>1
    <3>4. CASE l <= NDIRECT
      <4>1. l \in 0 .. NDIRECT
        BY <2>0, <3>4
      <4> QED
        BY <1>1, <1>6, <3>1, <3>2, <3>4, <4>1, SMTT(30)
    <3>5. CASE ~(l <= NDIRECT)
      <4>1. ~(H[i] >= l) /\ ~(F[i] >= l) /\ l # n
        BY <1>2, <1>5, <1>13, <2>0, <2>1, <3>1, <3>5
      <4> QED
        BY <1>1, <1>6, <3>2, <3>3, <3>5, <4>1, SMTT(30)
    <3> QED
      BY <3>4, <3>5, Zenon
  <2>2. CASE ~(j < NDIRECT) /\ j # MAXFILE
    <3>1. B = A /\ n = j + 1 /\ n # NDIRECT /\ ~(n <= NDIRECT)
      BY <1>1, <1>2, <1>5, <1>10, <2>0, <2>2
    <3>2. A[i][NDIRECT] # 0 => E[A[i][NDIRECT]] = D[A[i][NDIRECT]]
      BY <1>1, <1>3, <1>4, <1>9, <3>1
    <3>3. CASE l <= NDIRECT
      BY <1>1, <1>6, <3>1, <3>3, SMTT(30)
    <3>4. CASE ~(l <= NDIRECT) /\ l <= j
      <4>1. H[i] >= l /\ l # n
        BY <1>2, <1>13, <2>0, <3>1, <3>4
      <4> QED
        BY <1>1, <1>6, <1>12, <3>4, <4>1, SMTT(30)
    <3>5. CASE ~(l <= NDIRECT) /\ ~(l <= j)
      <4>1. l = n <=> H[i] >= l
        BY <1>2, <1>13, <2>0, <3>1, <3>5
      <4>2. ~(F[i] >= l)
        BY <1>2, <1>5, <2>0, <3>5
      <4> QED
        BY <1>1, <1>6, <3>1, <3>2, <3>5, <4>1, <4>2, SMTT(30)
    <3> QED
      BY <3>3, <3>4, <3>5, Zenon
  <2>3. CASE j = MAXFILE
    <3>1. B = [A EXCEPT ![i][NDIRECT] = 0] /\ n = NDIRECT /\ NDIRECT \in 0 .. NDIRECT
      <4>1. min(j, NDIRECT) = NDIRECT /\ j \notin NDIRECT .. MAXFILE - 1 /\ ~(j < NDIRECT)
        BY <2>0, <2>3 DEF min
      <4> QED
        BY <1>1, <1>10, <2>0, <2>3, <4>1
    <3>2. B[i][NDIRECT] = 0 /\ \A q \in 0 .. NDIRECT : q # NDIRECT => B[i][q] = A[i][q]
      BY <1>1, <1>5, <3>1
    <3>3. CASE l <= NDIRECT
      <4>1. l \in 0 .. NDIRECT
        BY <2>0, <3>3
      <4> QED
        BY <1>1, <1>6, <3>1, <3>2, <3>3, <4>1, SMTT(30)
    <3>4. CASE ~(l <= NDIRECT)
      <4>1. l <= j /\ l # n
        BY <2>0, <2>3, <3>1, <3>4
      <4> QED
        BY <1>1, <1>6, <1>12, <3>2, <3>4, <4>1, SMTT(30)
    <3> QED
      BY <3>3, <3>4, Zenon
  <2> QED
    BY <2>1, <2>2, <2>3, Zenon
<1> QED
  <2>1. [S EXCEPT ![i][n] = 0] = [m \in Inode |-> [l \in Index |-> IF m = i /\ l = n THEN 0 ELSE S[m][l]]]
    BY <1>1, <1>2, <1>8, Zenon
  <2>2. \A m \in Inode, l \in Index : T[m][l] = IF m = i /\ l = n THEN 0 ELSE S[m][l]
    BY <1>11, <1>14, Zenon
  <2>3. T = [S EXCEPT ![i][n] = 0]
    BY <1>7, <2>1, <2>2
  <2> QED
    BY <1>2, <2>3, Zenon DEF S, T, n

(* The disk is consistent without that block, and the other inodes are as   *)
(* they were.                                                               *)
Cutoff(U, D, A, F, N, i, b, E, B, H) ==
  /\ Consistent(U \ {b}, E, B, H, N)
  /\ \A m \in Inode \ {i} : Slots(E, B, H)[m] = Slots(D, A, F)[m] /\ B[m] = A[m]

(* The disk stays consistent: what is being truncated has no contents. *)
LEMMA Cut ==
  ASSUME NEW U, NEW D, NEW A, NEW F, NEW N, Consistent(U, D, A, F, N),
         NEW i, NEW j, NEW b, NEW E, NEW B, NEW H, Cuts(D, A, F, i, j, b, E, B, H), N.reach[i] = 0
  PROVE  Cutoff(U, D, A, F, N, i, b, E, B, H)
<1> DEFINE S == Slots(D, A, F)
           T == Slots(E, B, H)
           n == Place(j)
<1>1. DiskType(U, D, A) /\ Accounted(U, S) /\ Contents(D, S, N)
  BY Zenon DEF Consistent
<1>2. /\ i \in Inode /\ b # 0 /\ E = [D EXCEPT ![b] = Stale]
      /\ B = IF j \in NDIRECT .. MAXFILE - 1 THEN A ELSE [A EXCEPT ![i][min(j, NDIRECT)] = 0]
  BY Zenon DEF Cuts
<1>3. n \in Index /\ S[i][n] = b /\ T = [S EXCEPT ![i][n] = 0]
  BY <1>1, CutSlot
<1>4. S \in [Inode -> [Index -> Int]] /\ U \in SUBSET Block
  BY <1>1, SlotsType, Zenon DEF DiskType
<1> HIDE DEF S, T, n
<1>5. Accounted(U \ {b}, T)
  BY <1>1, <1>2, <1>3, <1>4, EmptySlot, Zenon
<1>6. DiskType(U \ {b}, E, B)
  <2>1. E \in [Block -> [Word -> Int]]
    <3>1. Stale \in [Word -> Int]
      BY DEF Stale, Word
    <3> QED
      BY <1>1, <1>2, <3>1, Zenon DEF DiskType
  <2>2. ASSUME NEW k PROVE [A EXCEPT ![i][k] = 0] \in [Inode -> [0 .. NDIRECT -> Address]]
    <3>1. 0 \in Address /\ A \in [Inode -> [0 .. NDIRECT -> Address]]
      BY <1>1, Sizes DEF Address, DiskType
    <3>2. [A[i] EXCEPT ![k] = 0] \in [0 .. NDIRECT -> Address]
      BY <1>2, <3>1, Zenon
    <3> DEFINE V == [0 .. NDIRECT -> Address]
               v == [A[i] EXCEPT ![k] = 0]
    <3>3. A \in [Inode -> V] /\ v \in V /\ [A EXCEPT ![i][k] = 0] = [A EXCEPT ![i] = v]
      BY <3>1, <3>2, Zenon
    <3> HIDE DEF V, v
    <3>4. [A EXCEPT ![i] = v] \in [Inode -> V]
      BY <1>2, <3>3, Zenon
    <3> QED
      BY <3>3, <3>4, Zenon DEF V
  <2>3. B \in [Inode -> [0 .. NDIRECT -> Address]]
    BY <1>1, <1>2, <2>2, Zenon DEF DiskType
  <2> QED
    BY <1>4, <2>1, <2>3, Zenon DEF DiskType
<1>7. \A m \in Inode \ {i} : T[m] = S[m] /\ B[m] = A[m]
  BY <1>1, <1>2, <1>3, <1>4, Zenon DEF DiskType
<1>8. Contents(E, T, N)
  <2> SUFFICES ASSUME NEW m \in Inode, NEW bn \in 0 .. MAXFILE - 1, NEW w \in Word,
                      Due(N, m, Offset(bn, w))
               PROVE  T[m][Pos(bn)] # 0 /\ E[T[m][Pos(bn)]][w] = N.word[m][Offset(bn, w)]
    BY Zenon DEF Contents
  <2>1. m # i
    <3>1. bn \in Nat
      BY Sizes
    <3>2. Offset(bn, w) \in Nat
      BY <3>1, Order, Zenon
    <3> QED
      BY <3>2 DEF Due
  <2>2. S[m][Pos(bn)] # 0 /\ D[S[m][Pos(bn)]][w] = N.word[m][Offset(bn, w)]
    BY <1>1, Zenon DEF Contents
  <2>3. Pos(bn) \in Index
    BY Positions, Zenon
  <2>4. S[m][Pos(bn)] \in Block /\ S[m][Pos(bn)] # b
    BY <1>1, <1>2, <1>3, <1>4, <2>1, <2>2, <2>3 DEF Accounted
  <2>5. E[S[m][Pos(bn)]] = D[S[m][Pos(bn)]]
    BY <1>1, <1>2, <2>4, Zenon DEF DiskType
  <2> QED
    BY <1>7, <2>1, <2>2, <2>5, Zenon
<1> QED
  BY <1>5, <1>6, <1>7, <1>8, Zenon DEF Cutoff, Consistent, S, T

(* The contents of less than what is there. *)
LEMMA Less ==
  ASSUME NEW U, NEW D, NEW A, NEW F, NEW N, Consistent(U, D, A, F, N), NEW M, M.word = N.word,
         N.reach \in [Inode -> Nat], M.reach \in [Inode -> Nat],
         \A i \in Inode : M.reach[i] <= N.reach[i]
  PROVE  Consistent(U, D, A, F, M)
<1>1. DiskType(U, D, A) /\ Accounted(U, Slots(D, A, F)) /\ Contents(D, Slots(D, A, F), N)
  BY Zenon DEF Consistent
<1>2. \A i \in Inode, bn \in 0 .. MAXFILE - 1, w \in Word :
        Due(M, i, Offset(bn, w)) => Due(N, i, Offset(bn, w))
  <2> SUFFICES ASSUME NEW i \in Inode, NEW bn \in 0 .. MAXFILE - 1, NEW w \in Word
               PROVE  Offset(bn, w) < M.reach[i] => Offset(bn, w) < N.reach[i]
    BY Zenon DEF Due
  <2>1. bn \in Nat
    BY Sizes
  <2>2. Offset(bn, w) \in Nat
    BY <2>1, Order, Zenon
  <2>3. M.reach[i] \in Nat /\ N.reach[i] \in Nat /\ M.reach[i] <= N.reach[i]
    BY Zenon
  <2> QED
    BY <2>2, <2>3
<1>3. Contents(D, Slots(D, A, F), M)
  BY <1>1, <1>2, Zenon DEF Contents
<1> QED
  BY <1>1, <1>3, Zenon DEF Consistent

-----------------------------------------------------------------------------
(* Writing. *)

(* The words written are numbers. *)
LEMMA TagType ==
  ASSUME NEW v \in Int, NEW i \in Inode, NEW o \in Int
  PROVE  Tag(v, i, o) \in Int
<1>1. Len(FileSizes) \in Nat
  BY FileDataAssumption
<1>2. i \in Int
  BY <1>1 DEF Inode
<1> QED
  BY <1>2 DEF Tag

(* m offsets from word at of block bn on are in that block. *)
LEMMA InBlock ==
  ASSUME NEW bn \in Nat, NEW at \in Word, NEW m \in Nat, m <= BSIZE - at, NEW c \in Nat, NEW w \in Word
  PROVE  Offset(c, w) \in Offset(bn, at) .. Offset(bn, at) + m - 1 <=> c = bn /\ w \in at .. at + m - 1
<1>1. /\ BSIZE \in Nat /\ at \in Nat /\ w \in Nat /\ w < BSIZE /\ 0 \in Word
  BY Sizes DEF Word
<1>2. /\ Offset(bn, at) = Offset(bn, 0) + at /\ Offset(bn, 0) \in Nat
      /\ Offset(c, w) = Offset(c, 0) + w /\ Offset(c, 0) \in Nat
  BY Order, Zenon
<1>3. /\ c < bn => Offset(c, 0) + BSIZE <= Offset(bn, 0)
      /\ bn < c => Offset(bn, 0) + BSIZE <= Offset(c, 0)
  BY <1>1, Order, Zenon
<1> DEFINE x == Offset(bn, 0)
           y == Offset(c, 0)
<1>4. /\ x \in Nat /\ y \in Nat /\ (c < bn => y + BSIZE <= x) /\ (bn < c => x + BSIZE <= y)
      /\ (c = bn => x = y) /\ Offset(bn, at) = x + at /\ Offset(c, w) = y + w
  BY <1>2, <1>3, Zenon
<1> HIDE DEF x, y
<1>5. CASE c = bn
  <2>1. x = y
    BY <1>4, <1>5, Zenon
  <2> QED
    BY <1>1, <1>4, <1>5, <2>1
<1>6. CASE c < bn
  <2>1. y + w < x + at
    BY <1>1, <1>4, <1>6
  <2> QED
    BY <1>1, <1>4, <1>6, <2>1
<1>7. CASE bn < c
  <2>1. y + w > x + at + m - 1
    BY <1>1, <1>4, <1>7
  <2> QED
    BY <1>1, <1>4, <1>7, <2>1
<1> QED
  BY <1>5, <1>6, <1>7

(* m words are copied to offset o = Offset(bn, at) of inode i, whose block   *)
(* bn is b; they become what it should hold, as far as M reaches.           *)
Copies(D, A, F, N, i, bn, at, m, b, E, M) ==
  /\ i \in Inode \ {Root} /\ bn \in 0 .. MAXFILE - 1 /\ at \in Word /\ m \in Nat /\ m <= BSIZE - at
  /\ b = Slots(D, A, F)[i][Pos(bn)] /\ b # 0
  /\ N.reach \in [Inode -> Nat] /\ Offset(bn, at) <= N.reach[i]
  /\ \A w \in Word : w \in at .. at + m - 1 => M.word[i][Offset(bn, w)] \in Int
  /\ \A j \in Inode, c \in 0 .. MAXFILE - 1, w \in Word :
       ~(j = i /\ c = bn /\ w \in at .. at + m - 1)
         => M.word[j][Offset(c, w)] = N.word[j][Offset(c, w)]
  /\ E = [D EXCEPT ![b] = [w \in Word |-> IF w \in at .. at + m - 1 THEN M.word[i][Offset(bn, w)]
                                          ELSE D[b][w]]]
  /\ M.reach = [N.reach EXCEPT ![i] = IF Offset(bn, at) + m > N.reach[i] THEN Offset(bn, at) + m
                                      ELSE N.reach[i]]

(* The slots stay the same and the contents reach as far as was written. *)
LEMMA Copy ==
  ASSUME NEW U, NEW D, NEW A, NEW F, NEW N, Consistent(U, D, A, F, N),
         NEW i, NEW bn, NEW at, NEW m, NEW b, NEW E, NEW M, Copies(D, A, F, N, i, bn, at, m, b, E, M)
  PROVE  Consistent(U, E, A, F, M) /\ Slots(E, A, F) = Slots(D, A, F)
<1> DEFINE S == Slots(D, A, F)
           o == Offset(bn, at)
           base == Offset(bn, 0)
           R == N.reach
           new == [w \in Word |-> IF w \in at .. at + m - 1 THEN M.word[i][Offset(bn, w)] ELSE D[b][w]]
<1>1. /\ i \in Inode /\ i # Root /\ bn \in 0 .. MAXFILE - 1 /\ at \in Word /\ m \in Nat /\ m <= BSIZE - at
      /\ b = S[i][Pos(bn)] /\ b # 0 /\ R \in [Inode -> Nat] /\ o <= R[i] /\ E = [D EXCEPT ![b] = new]
      /\ M.reach = [R EXCEPT ![i] = IF o + m > R[i] THEN o + m ELSE R[i]]
  BY Zenon DEF Copies
<1>0. /\ \A w \in Word : w \in at .. at + m - 1 => M.word[i][Offset(bn, w)] \in Int
      /\ \A j \in Inode, c \in 0 .. MAXFILE - 1, w \in Word :
           ~(j = i /\ c = bn /\ w \in at .. at + m - 1)
             => M.word[j][Offset(c, w)] = N.word[j][Offset(c, w)]
  BY Zenon DEF Copies
<1>2. DiskType(U, D, A) /\ Accounted(U, S) /\ Contents(D, S, N)
  BY Zenon DEF Consistent
<1>3. Pos(bn) \in Index /\ Pos(bn) # NDIRECT /\ \A c \in 0 .. MAXFILE - 1 : Pos(c) = Pos(bn) => c = bn
  BY <1>1, Positions, Zenon
<1>4. Slots(E, A, F) = S
  <2>1. Rewrites(D, A, F, i, Pos(bn), new, E)
    BY <1>1, <1>3, Zenon DEF Rewrites
  <2>2. DiskType(U, D, A) /\ Accounted(U, Slots(D, A, F))
    BY <1>2, Zenon
  <2> HIDE DEF S, o, base, new
  <2>3. Slots(E, A, F) = Slots(D, A, F)
    BY <2>1, <2>2, SameSlots
  <2> QED
    BY <2>3, Zenon DEF S
<1>5. b \in Block
  <2> HIDE DEF S
  <2>1. S[i][Pos(bn)] \in U \cup {0}
    BY <1>1, <1>2, <1>3, Zenon DEF Accounted
  <2>2. U \subseteq Block
    BY <1>2, Zenon DEF DiskType
  <2> QED
    BY <1>1, <2>1, <2>2, Zenon
<1>6. bn \in Nat /\ at \in Nat /\ at < BSIZE /\ BSIZE \in Nat /\ base \in Nat /\ o = base + at /\ o \in Nat
  <2>1. bn \in Nat /\ at \in Nat /\ at < BSIZE /\ BSIZE \in Nat
    BY <1>1, Sizes DEF Word
  <2> QED
    BY <1>1, <2>1, Order, Zenon
<1> HIDE DEF S, o, base
<1>7. \A w \in Word : new[w] = IF w \in at .. at + m - 1 THEN M.word[i][Offset(bn, w)] ELSE D[b][w]
  BY Zenon
<1>8. new \in [Word -> Int]
  <2>2. \A w \in Word : D[b][w] \in Int
    BY <1>2, <1>5, Zenon DEF DiskType
  <2> QED
    BY <1>0, <2>2, Zenon
<1> HIDE DEF new
<1>9. DiskType(U, E, A)
  BY <1>1, <1>2, <1>8, Zenon DEF DiskType
<1>10. \A c \in Block : E[c] = IF c = b THEN new ELSE D[c]
  BY <1>1, <1>2, Zenon DEF DiskType
<1>11. Contents(E, S, M)
  <2> SUFFICES ASSUME NEW j \in Inode, NEW c \in 0 .. MAXFILE - 1, NEW w \in Word,
                      Offset(c, w) < M.reach[j], ~Hole(j, Offset(c, w))
               PROVE  S[j][Pos(c)] # 0 /\ E[S[j][Pos(c)]][w] = M.word[j][Offset(c, w)]
    BY Zenon DEF Contents, Due
  <2>0. c \in Nat /\ w \in Nat /\ w < BSIZE /\ Offset(c, w) \in Nat /\ Pos(c) \in Index
    <3>1. c \in Nat /\ w \in Nat /\ w < BSIZE
      BY Sizes DEF Word
    <3> QED
      BY <3>1, Order, Positions, Zenon
  <2>1. S[j][Pos(c)] = b /\ b # 0 => j = i /\ c = bn
    BY <1>1, <1>2, <1>3, <2>0 DEF Accounted
  <2>2. ASSUME Offset(c, w) < R[j]
        PROVE  /\ S[j][Pos(c)] # 0 /\ D[S[j][Pos(c)]][w] = N.word[j][Offset(c, w)]
               /\ S[j][Pos(c)] \in Block
    <3>0. Due(N, j, Offset(c, w))
      BY <2>2, Zenon DEF Due
    <3>1. S[j][Pos(c)] # 0 /\ D[S[j][Pos(c)]][w] = N.word[j][Offset(c, w)]
      BY <1>2, <3>0, Zenon DEF Contents
    <3>2. S[j][Pos(c)] \in U
      BY <1>2, <2>0, <3>1, Zenon DEF Accounted
    <3> QED
      BY <1>2, <3>1, <3>2, Zenon DEF DiskType
  <2> HIDE DEF R
  <2>3. CASE ~(j = i /\ c = bn)
    <3>1. Offset(c, w) < R[j]
      <4>1. CASE j # i
        BY <1>1, <4>1, Zenon
      <4>2. CASE j = i /\ c < bn
        <5>1. Offset(c, w) < base
          BY <1>6, <2>0, <4>2, Order, Zenon DEF base
        <5>2. R[i] \in Nat
          BY <1>1, Zenon
        <5> QED
          BY <1>1, <1>6, <2>0, <4>2, <5>1, <5>2
      <4>3. CASE j = i /\ bn < c
        <5>1. base + BSIZE <= Offset(c, 0)
          BY <1>1, <1>6, <2>0, <4>3, Order, Zenon DEF base
        <5>2. Offset(c, w) = Offset(c, 0) + w /\ Offset(c, 0) \in Nat
          BY <2>0, Order, Zenon
        <5>3. R[i] \in Nat /\ M.reach[i] = IF o + m > R[i] THEN o + m ELSE R[i]
          BY <1>1, Zenon
        <5>4. o + m <= Offset(c, w)
          BY <1>1, <1>6, <2>0, <5>1, <5>2
        <5>5. ~(o + m > Offset(c, w))
          BY <1>1, <1>6, <2>0, <5>4
        <5> QED
          BY <1>1, <1>6, <2>0, <4>3, <5>3, <5>5, Zenon
      <4> QED
        BY <1>6, <2>0, <2>3, <4>1, <4>2, <4>3
    <3>2. M.word[j][Offset(c, w)] = N.word[j][Offset(c, w)]
      BY <1>0, <2>3, Zenon
    <3> QED
      BY <1>1, <1>10, <2>1, <2>2, <2>3, <3>1, <3>2, Zenon
  <2>4. CASE j = i /\ c = bn
    <3>1. Offset(c, w) = base + w
      BY <1>6, <2>4, Order, Zenon DEF base
    <3>2. S[j][Pos(c)] = b /\ E[b] = new
      BY <1>1, <1>5, <1>10, <2>4, Zenon
    <3>3. CASE w \in at .. at + m - 1
      BY <1>1, <1>7, <2>4, <3>2, <3>3, Zenon
    <3>4. CASE w \notin at .. at + m - 1
      <4>1. Offset(c, w) < R[i]
        <5>1. R[i] \in Nat /\ M.reach[i] = IF o + m > R[i] THEN o + m ELSE R[i]
          BY <1>1, Zenon
        <5>2. w < at \/ w >= at + m
          BY <1>1, <1>6, <2>0, <3>4
        <5>3. Offset(c, w) < M.reach[i]
          BY <2>4, Zenon
        <5> QED
          BY <1>1, <1>6, <2>0, <3>1, <5>1, <5>2, <5>3
      <4>2. M.word[j][Offset(c, w)] = N.word[j][Offset(c, w)]
        BY <1>0, <3>4, Zenon
      <4> QED
        BY <1>7, <2>2, <2>4, <3>2, <3>4, <4>1, <4>2, Zenon
    <3> QED
      BY <1>1, <3>3, <3>4, Zenon
  <2> QED
    BY <2>3, <2>4, Zenon
<1> QED
  BY <1>2, <1>4, <1>9, <1>11, Zenon DEF Consistent, S

-----------------------------------------------------------------------------
(* Steps that leave the disk alone. *)

(* The inode and the offset of a process's open file. *)
LEMMA IpType ==
  ASSUME Types, NEW p \in Proc
  PROVE  /\ fd[p] \in Proc /\ Ip(p) \in Files /\ Ip(p) \in Inode /\ Ip(p) # Root
         /\ off[fd[p]] \in Nat /\ op[p] \in OpType /\ p # 0
  BY FileDataAssumption, Zenon DEF Types, Ip

(* The other processes, their open files and their files stay the same. *)
Others(p) == \A q \in Proc \ {p} : op'[q] = op[q] /\ fd'[q] = fd[q] /\ Ip(q)' = Ip(q)

(* An inode that p has not locked, before or after, stays as it is. *)
LEMMA Elsewhere ==
  ASSUME Types, NEW p \in Proc, Others(p), NEW j \in Inode,
         lock'[j] = lock[j], lock[j] # p, size'[j] = size[j]
  PROVE  Freed(j)' = Freed(j) /\ Reach(j)' = Reach(j)
<1>1. CASE lock[j] = 0
  BY <1>1, Zenon DEF Freed, Reach
<1>2. CASE lock[j] # 0
  <2>1. lock[j] \in Proc \ {p}
    BY <1>2, Zenon DEF Types
  <2>2. op'[lock[j]] = op[lock[j]]
    BY <2>1, Zenon DEF Others
  <2> QED
    BY <1>2, <2>2, Zenon DEF Freed, Reach
<1> QED
  BY <1>1, <1>2, Zenon

(* Gone and Filled are numbers. *)
LEMMA ReachType == Types => Filled \in [Inode -> Nat] /\ Gone \in [Inode -> Nat]
<1> SUFFICES ASSUME Types, NEW i \in Inode PROVE Reach(i) \in Nat /\ Freed(i) \in Nat
  BY Zenon DEF Filled, Gone
<1>1. CASE lock[i] = 0
  BY <1>1, Zenon DEF Reach, Freed, Types
<1>2. CASE lock[i] # 0
  <2>1. op[lock[i]] \in OpType /\ size[i] \in Nat
    BY <1>2, Zenon DEF Types
  <2>2. op[lock[i]].off \in Nat /\ op[lock[i]].tot \in Nat /\ op[lock[i]].j \in Nat
    BY <2>1, Zenon DEF OpType
  <2> QED
    BY <1>2, <2>1, <2>2 DEF Reach, Freed
<1> QED
  BY <1>1, <1>2, Zenon

(* The disk is the same, and the contents reach no further. *)
LEMMA Quiet ==
  ASSUME Types, Types', OnDisk, UNCHANGED <<used, data, addrs, written>>,
         \A j \in Inode : Freed(j)' = Freed(j) /\ Reach(j)' <= Reach(j)
  PROVE  OnDisk' /\ Now' = Now
<1>1. Gone' = Gone
  BY Zenon DEF Gone
<1>2. Filled \in [Inode -> Nat] /\ Filled' \in [Inode -> Nat]
  <2>1. Types' => (Filled \in [Inode -> Nat] /\ Gone \in [Inode -> Nat])'
    BY ReachType, PTL
  <2> QED
    BY <2>1, ReachType, Zenon
<1>3. \A j \in Inode : Filled'[j] <= Filled[j]
  BY Zenon DEF Filled
<1>4. Consistent(used, data, addrs, Gone, Wanted)
  BY Zenon DEF OnDisk
<1> DEFINE M == [reach |-> Filled', word |-> written]
<1>5. Consistent(used, data, addrs, Gone, M)
  <2>1. /\ M.word = Wanted.word /\ Wanted.reach \in [Inode -> Nat] /\ M.reach \in [Inode -> Nat]
        /\ \A j \in Inode : M.reach[j] <= Wanted.reach[j]
    BY <1>2, <1>3, Zenon DEF Wanted
  <2> HIDE DEF M
  <2> QED
    BY <1>4, <2>1, Less, Zenon
<1>6. Wanted' = M
  BY Zenon DEF Wanted
<1> QED
  BY <1>1, <1>5, <1>6, Zenon DEF OnDisk, Now

(* Others' transactions have logged no more than before. *)
LEMMA LogsKept ==
  ASSUME Logs, NEW p \in Proc, Others(p),
         \A q \in Proc \ {p} : op[q].pc \in Transfer => Now'[Ip(q)] = Now[Ip(q)]
  PROVE  \A q \in Proc \ {p} : op'[q].pc \in Transfer => op'[q].logged \subseteq May(q)'
<1> SUFFICES ASSUME NEW q \in Proc \ {p}, op'[q].pc \in Transfer
             PROVE  op'[q].logged \subseteq May(q)'
  BY Zenon
<1>1. op'[q] = op[q] /\ Ip(q)' = Ip(q)
  BY Zenon DEF Others
<1>2. May(q)' = May(q)
  BY <1>1, Zenon DEF May
<1> QED
  BY <1>1, <1>2, Zenon DEF Logs

(* A process that holds no lock, before or after. *)
Stays(p) ==
  /\ Others(p) /\ UNCHANGED <<used, data, addrs, size, lock, written>>
  /\ op[p].pc \notin Locked /\ op'[p].pc \notin Locked
  /\ op'[p].pc = "chunk" => op'[p].i < op'[p].n /\ op'[p].tot = 0 /\ op'[p].logged = {}
  /\ \A q \in Proc \ {p} : op[q].pc \in Transfer => off'[fd[q]] = off[fd[q]]

(* Its step keeps the invariant. *)
LEMMA Outside ==
  ASSUME Inv, Types', NEW p \in Proc, Stays(p)
  PROVE  Inv'
<1> SUFFICES ASSUME
      Others(p) /\ UNCHANGED <<used, data, addrs, size, lock, written>>,
      op[p].pc \notin Locked /\ op'[p].pc \notin Locked,
      op'[p].pc = "chunk" => op'[p].i < op'[p].n /\ op'[p].tot = 0 /\ op'[p].logged = {},
      \A q \in Proc \ {p} : op[q].pc \in Transfer => off'[fd[q]] = off[fd[q]]
    PROVE Inv'
  BY Zenon DEF Stays
<1>1. Types /\ Locks /\ Transfers /\ Truncations /\ OnDisk /\ Logs
  BY Zenon DEF Inv
<1>2. \A q \in Proc \ {p} : op'[q] = op[q] /\ fd'[q] = fd[q] /\ Ip(q)' = Ip(q)
                                /\ ip'[fd'[q]] = Ip(q)
  BY Zenon DEF Others, Ip
<1>3. "itrunc" \in Locked /\ \A x : x \in Transfer => x \in Locked
  BY Zenon DEF Locked, Transfer
<1>4. \A j \in Inode : lock[j] # p
  BY <1>1, IpType, Zenon DEF Locks
<1>5. Locks'
  <2>1. ASSUME NEW q \in Proc, op'[q].pc \in Locked PROVE lock'[Ip(q)'] = q
    <3>1. q # p
      BY <2>1, Zenon
    <3> QED
      BY <1>1, <1>2, <2>1, <3>1, Zenon DEF Locks
  <2>2. ASSUME NEW j \in Inode, lock'[j] # 0
        PROVE  op'[lock'[j]].pc \in Locked /\ ip'[fd'[lock'[j]]] = j
    <3>1. lock[j] \in Proc \ {p}
      BY <1>1, <1>4, <2>2, Zenon DEF Types
    <3>2. op'[lock[j]] = op[lock[j]] /\ ip'[fd'[lock[j]]] = Ip(lock[j])
      BY <1>2, <3>1, Zenon
    <3>3. op[lock[j]].pc \in Locked /\ Ip(lock[j]) = j
      BY <1>1, <2>2, Zenon DEF Locks
    <3> QED
      BY <3>2, <3>3, Zenon
  <2> QED
    BY <2>1, <2>2, Zenon DEF Locks, Ip
<1>6. Transfers'
  <2>1. ASSUME NEW q \in Proc
        PROVE  /\ op'[q].pc = "chunk" => op'[q].i < op'[q].n /\ op'[q].tot = 0 /\ op'[q].logged = {}
               /\ op'[q].pc \in Transfer =>
                    /\ op'[q].off = off'[fd'[q]] /\ op'[q].off <= size'[Ip(q)']
                    /\ op'[q].tot <= op'[q].n1 /\ op'[q].n1 <= MaxChunk
                    /\ op'[q].off + op'[q].n1 <= MAXFILE * BSIZE
    <3>1. CASE q = p
      BY <1>3, <3>1, Zenon
    <3>2. CASE q # p
      BY <1>1, <1>2, <3>2 DEF Transfers
    <3> QED
      BY <3>1, <3>2, Zenon
  <2>2. \A i \in Inode : size'[i] <= MAXFILE * BSIZE
    BY <1>1, Zenon DEF Transfers
  <2> QED
    BY <2>1, <2>2, Zenon DEF Transfers
<1>7. Truncations'
  <2> SUFFICES ASSUME NEW q \in Proc, op'[q].pc = "itrunc"
               PROVE  op'[q].j <= MAXFILE + 1 /\ (op'[q].j = MAXFILE + 1 => addrs'[Ip(q)'][NDIRECT] = 0)
    BY Zenon DEF Truncations
  <2>1. q # p
    BY <1>3, Zenon
  <2> QED
    BY <1>1, <1>2, <2>1 DEF Truncations
<1>8. OnDisk' /\ Now' = Now
  <2>1. \A j \in Inode : Freed(j)' = Freed(j) /\ Reach(j)' = Reach(j)
    BY <1>1, <1>4, Elsewhere, Zenon
  <2>2. \A j \in Inode : Reach(j) \in Nat
    BY <1>1, ReachType, Zenon DEF Filled
  <2>3. \A j \in Inode : Freed(j)' = Freed(j) /\ Reach(j)' <= Reach(j)
    BY <2>1, <2>2
  <2> QED
    BY <1>1, <2>3, Quiet, Zenon
<1>9. Logs'
  <2>1. \A q \in Proc \ {p} : op'[q].pc \in Transfer => op'[q].logged \subseteq May(q)'
    BY <1>1, <1>8, LogsKept, Zenon
  <2> QED
    BY <1>3, <2>1, Zenon DEF Logs
<1> QED
  BY <1>5, <1>6, <1>7, <1>8, <1>9, Zenon DEF Inv

(* A process locks the inode of its open file, to write or to truncate. *)
Takes(p, i) ==
  /\ Others(p) /\ UNCHANGED <<used, data, addrs, size, written>>
  /\ i \in Inode /\ Ip(p)' = i /\ lock[i] = 0 /\ lock' = [lock EXCEPT ![i] = p]
  /\ op[p].pc \notin Locked /\ op'[p].pc \in {"writei", "itrunc"}
  /\ op'[p].pc = "writei" =>
       /\ op'[p].off = off'[fd'[p]] /\ op'[p].off <= size[i] /\ op'[p].tot = 0
       /\ op'[p].n1 <= MaxChunk /\ op'[p].off + op'[p].n1 <= MAXFILE * BSIZE
       /\ op'[p].logged = {}
  /\ op'[p].pc = "itrunc" => op'[p].j = 0
  /\ \A q \in Proc \ {p} : op[q].pc \in Transfer => off'[fd[q]] = off[fd[q]]

(* Its step keeps the invariant. *)
LEMMA Lock ==
  ASSUME Inv, Types', NEW p \in Proc, NEW i, Takes(p, i)
  PROVE  Inv'
<1> SUFFICES ASSUME
      Others(p) /\ UNCHANGED <<used, data, addrs, size, written>>,
      i \in Inode /\ Ip(p)' = i /\ lock[i] = 0 /\ lock' = [lock EXCEPT ![i] = p],
      op[p].pc \notin Locked /\ op'[p].pc \in {"writei", "itrunc"},
      op'[p].pc = "writei" =>
        /\ op'[p].off = off'[fd'[p]] /\ op'[p].off <= size[i] /\ op'[p].tot = 0
        /\ op'[p].n1 <= MaxChunk /\ op'[p].off + op'[p].n1 <= MAXFILE * BSIZE
        /\ op'[p].logged = {},
      op'[p].pc = "itrunc" => op'[p].j = 0,
      \A q \in Proc \ {p} : op[q].pc \in Transfer => off'[fd[q]] = off[fd[q]]
    PROVE Inv'
  BY Zenon DEF Takes
<1>1. Types /\ Locks /\ Transfers /\ Truncations /\ OnDisk /\ Logs
  BY Zenon DEF Inv
<1>2. \A q \in Proc \ {p} : op'[q] = op[q] /\ fd'[q] = fd[q] /\ Ip(q)' = Ip(q)
                                /\ ip'[fd'[q]] = Ip(q)
  BY Zenon DEF Others, Ip
<1>3. op'[p].pc \in Locked /\ op'[p].pc # "chunk" /\ (op'[p].pc \in Transfer => op'[p].pc = "writei")
      /\ \A x : x \in Transfer => x \in Locked
  BY Zenon DEF Locked, Transfer
<1>4. \A j \in Inode : lock[j] # p
  BY <1>1, IpType, Zenon DEF Locks
<1>5. lock \in [Inode -> Proc \cup {0}] /\ \A j \in Inode : lock'[j] = IF j = i THEN p ELSE lock[j]
  BY <1>1, Zenon DEF Types
<1>6. op'[p].off \in Nat /\ op'[p].n1 \in Nat /\ op'[p].tot \in Nat /\ size[i] \in Nat
  BY <1>1, Zenon DEF Types, OpType
<1>7. Locks'
  <2>1. ASSUME NEW q \in Proc, op'[q].pc \in Locked PROVE lock'[Ip(q)'] = q
    <3>1. CASE q = p
      BY <1>5, <3>1, Zenon
    <3>2. CASE q # p
      <4>1. Ip(q) \in Inode /\ q # 0 /\ lock[Ip(q)] = q /\ Ip(q)' = Ip(q)
        BY <1>1, <1>2, <2>1, <3>2, IpType, Zenon DEF Locks
      <4> QED
        BY <1>5, <4>1, Zenon
    <3> QED
      BY <3>1, <3>2, Zenon
  <2>2. ASSUME NEW j \in Inode, lock'[j] # 0
        PROVE  op'[lock'[j]].pc \in Locked /\ ip'[fd'[lock'[j]]] = j
    <3>1. CASE j = i
      <4>1. lock'[j] = p
        BY <1>5, <3>1, Zenon
      <4> QED
        BY <1>3, <3>1, <4>1, Zenon DEF Ip
    <3>2. CASE j # i
      <4>1. lock'[j] = lock[j] /\ lock[j] \in Proc \ {p}
        BY <1>4, <1>5, <2>2, <3>2, Zenon
      <4>2. op'[lock[j]] = op[lock[j]] /\ ip'[fd'[lock[j]]] = Ip(lock[j])
        BY <1>2, <4>1, Zenon
      <4>3. op[lock[j]].pc \in Locked /\ Ip(lock[j]) = j
        BY <1>1, <2>2, <4>1, Zenon DEF Locks
      <4> QED
        BY <4>1, <4>2, <4>3, Zenon
    <3> QED
      BY <3>1, <3>2, Zenon
  <2> QED
    BY <2>1, <2>2, Zenon DEF Locks, Ip
<1>8. Transfers'
  <2>1. ASSUME NEW q \in Proc
        PROVE  /\ op'[q].pc = "chunk" => op'[q].i < op'[q].n /\ op'[q].tot = 0 /\ op'[q].logged = {}
               /\ op'[q].pc \in Transfer =>
                    /\ op'[q].off = off'[fd'[q]] /\ op'[q].off <= size'[Ip(q)']
                    /\ op'[q].tot <= op'[q].n1 /\ op'[q].n1 <= MaxChunk
                    /\ op'[q].off + op'[q].n1 <= MAXFILE * BSIZE
    <3>1. CASE q = p
      BY <1>3, <1>6, <3>1, SMTT(30)
    <3>2. CASE q # p
      BY <1>1, <1>2, <3>2 DEF Transfers
    <3> QED
      BY <3>1, <3>2, Zenon
  <2>2. \A j \in Inode : size'[j] <= MAXFILE * BSIZE
    BY <1>1, Zenon DEF Transfers
  <2> QED
    BY <2>1, <2>2, Zenon DEF Transfers
<1>9. Truncations'
  <2> SUFFICES ASSUME NEW q \in Proc, op'[q].pc = "itrunc"
               PROVE  op'[q].j <= MAXFILE + 1 /\ (op'[q].j = MAXFILE + 1 => addrs'[Ip(q)'][NDIRECT] = 0)
    BY Zenon DEF Truncations
  <2>1. CASE q = p
    BY <2>1, Sizes
  <2>2. CASE q # p
    BY <1>1, <1>2, <2>2 DEF Truncations
  <2> QED
    BY <2>1, <2>2, Zenon
<1>10. OnDisk' /\ Now' = Now
  <2>1. ASSUME NEW j \in Inode PROVE Freed(j)' = Freed(j) /\ Reach(j)' <= Reach(j)
    <3>0. Reach(j) \in Nat
      BY <1>1, ReachType, Zenon DEF Filled
    <3>1. CASE j # i
      <4>1. lock'[j] = lock[j] /\ lock[j] # p /\ size'[j] = size[j]
        BY <1>4, <1>5, <3>1, Zenon
      <4>2. Freed(j)' = Freed(j) /\ Reach(j)' = Reach(j)
        BY <1>1, <4>1, Elsewhere, Zenon
      <4> QED
        BY <3>0, <4>2
    <3>2. CASE j = i
      <4>1. lock'[i] = p /\ p # 0
        BY <1>1, <1>5, IpType, Zenon
      <4>2. Freed(i) = 0 /\ Reach(i) = size[i]
        BY Zenon DEF Freed, Reach
      <4>3. Freed(i)' = 0
        BY <4>1, Zenon DEF Freed
      <4>4. CASE op'[p].pc = "itrunc"
        BY <1>6, <3>2, <4>1, <4>2, <4>3, <4>4 DEF Reach
      <4>5. CASE op'[p].pc = "writei"
        <5>1. op'[p].off + op'[p].tot <= size[i]
          BY <1>6, <4>5, SMTT(30)
        <5>2. Reach(i)' = size[i]
          BY <1>6, <4>1, <4>5, <5>1 DEF Reach
        <5> QED
          BY <1>6, <3>2, <4>2, <4>3, <5>2, SMTT(30)
      <4> QED
        BY <4>4, <4>5, Zenon
    <3> QED
      BY <3>1, <3>2, Zenon
  <2> QED
    BY <1>1, <2>1, Quiet, Zenon
<1>11. Logs'
  <2>1. \A q \in Proc \ {p} : op'[q].pc \in Transfer => op'[q].logged \subseteq May(q)'
    BY <1>1, <1>10, LogsKept, Zenon
  <2>2. op'[p].pc \in Transfer => op'[p].logged \subseteq May(p)'
    BY <1>3, Zenon
  <2> QED
    BY <2>1, <2>2, Zenon DEF Logs
<1> QED
  BY <1>7, <1>8, <1>9, <1>10, <1>11, Zenon DEF Inv

(* The locals of a process between its system calls. *)
LEMMA IdleType ==
  Idle \in OpType /\ Idle.pc = "idle" /\ "idle" \notin Locked /\ "chunk" \notin Locked
  BY Zenon DEF Idle, OpType, Locked, Transfer

(* sys_write() keeps the invariant: the inode is not locked yet. *)
LEMMA SysWrite ==
  ASSUME Inv, NEW p \in Proc, NEW n \in Writes, sys_write(p, n)
  PROVE  Inv'
<1>1. Types /\ n \in Nat /\ n > 0
  BY FileDataAssumption DEF Inv
<1>0. writes' = writes + 1
  BY Zenon DEF sys_write
<1>7. writes' \in Nat
  BY <1>0, <1>1 DEF Types
<1> DEFINE v == [Idle EXCEPT !.pc = "chunk", !.v = writes', !.n = n]
<1>2. v \in OpType /\ v.pc = "chunk" /\ v.i = 0 /\ v.n = n /\ v.tot = 0 /\ v.logged = {}
  BY <1>1, <1>7, Zenon DEF Idle, OpType
<1>3. /\ op[p] = Idle /\ op' = [op EXCEPT ![p] = v]
      /\ UNCHANGED <<used, data, addrs, size, lock, fd, ip, off, written>>
  BY Zenon DEF sys_write
<1> HIDE DEF v
<1>4. Types'
  BY <1>1, <1>2, <1>3, <1>7, Zenon DEF Types
<1>5. Others(p) /\ op'[p] = v
  BY <1>1, <1>3, Zenon DEF Others, Types, Ip
<1>6. op[p].pc \notin Locked /\ op'[p].pc \notin Locked /\ op'[p].i < op'[p].n
  BY <1>1, <1>2, <1>3, <1>5, IdleType, Zenon
<1>9. Stays(p)
  BY <1>2, <1>3, <1>5, <1>6, Zenon DEF Stays
<1> QED
  BY <1>4, <1>9, Outside, Zenon

(* sys_read() keeps the invariant: a transfer through the same open file *)
(* would hold the inode's lock.                                          *)
LEMMA SysRead ==
  ASSUME Inv, NEW p \in Proc, NEW n \in Writes, sys_read(p, n)
  PROVE  Inv'
<1> DEFINE i == Ip(p)
           o == off[fd[p]]
           r == IF o > size[i] THEN 0 ELSE min(n, size[i] - o)
<1>1. Types /\ Locks /\ n \in Nat
  BY FileDataAssumption, Zenon DEF Inv
<1>2. /\ op[p] = Idle /\ lock[i] = 0 /\ off' = [off EXCEPT ![fd[p]] = @ + r]
      /\ UNCHANGED <<used, data, addrs, size, lock, fd, ip, op, written, writes>>
  BY Zenon DEF sys_read
<1>3. i \in Inode /\ fd[p] \in Proc /\ o \in Nat /\ size[i] \in Nat
  BY <1>1, IpType, Zenon DEF Types
<1>4. r \in Nat
  BY <1>1, <1>3 DEF min
<1> HIDE DEF r
<1>5. Types'
  BY <1>1, <1>2, <1>3, <1>4 DEF Types
<1>6. Others(p) /\ op'[p] = op[p]
  BY <1>2, Zenon DEF Others, Ip
<1>7. ASSUME NEW q \in Proc \ {p}, op[q].pc \in Transfer PROVE off'[fd[q]] = off[fd[q]]
  <2>1. lock[Ip(q)] = q /\ q # 0
    BY <1>1, <1>7, IpType, Zenon DEF Locks, Locked
  <2>2. fd[q] # fd[p] /\ fd[q] \in Proc
    BY <1>1, <1>2, <2>1, Zenon DEF Ip, Types
  <2> QED
    BY <1>1, <1>2, <2>2, Zenon DEF Types
<1>8. "idle" # "chunk"
  BY Zenon
<1>9. Stays(p)
  BY <1>2, <1>5, <1>6, <1>7, <1>8, IdleType, Zenon DEF Stays
<1> QED
  BY <1>5, <1>9, Outside, Zenon

(* A chunk is not empty: MAXOPBLOCKS is at least 6. *)
LEMMA ChunkType == MaxChunk \in Nat /\ MaxChunk > 0
<1>1. (MAXOPBLOCKS - 1 - 1 - 2) \div 2 \in Nat /\ (MAXOPBLOCKS - 1 - 1 - 2) \div 2 >= 1
  BY Sizes
<1> DEFINE k == (MAXOPBLOCKS - 1 - 1 - 2) \div 2
<1>2. k * BSIZE \in Nat /\ k * BSIZE > 0
  <2> HIDE DEF k
  <2>1. k \in Nat /\ k >= 1 /\ BSIZE \in Nat /\ BSIZE >= 1
    BY <1>1, Sizes DEF k
  <2> QED
    BY <2>1
<1> QED
  BY <1>2, Zenon DEF MaxChunk

(* filewrite() keeps the invariant: it leaves, or it locks the inode. *)
LEMMA FileWrite ==
  ASSUME Inv, NEW p \in Proc, filewrite(p)
  PROVE  Inv'
<1> DEFINE i == Ip(p)
           n1 == min(op[p].n - op[p].i, MaxChunk)
           o == off[fd[p]]
<1>1. Types /\ Locks /\ Transfers
  BY Zenon DEF Inv
<1>2. i \in Inode /\ fd[p] \in Proc /\ o \in Nat /\ size[i] \in Nat /\ op[p] \in OpType
  BY <1>1, IpType, Zenon DEF Types
<1>3. op[p].pc = "chunk" /\ UNCHANGED <<used, data, addrs, size, fd, ip, off, written, writes>>
  BY Zenon DEF filewrite
<1>4. op[p].i < op[p].n /\ op[p].tot = 0 /\ op[p].logged = {}
  BY <1>1, <1>3, Zenon DEF Transfers
<1>5. n1 \in Nat /\ n1 <= MaxChunk
  <2>1. op[p].i \in Nat /\ op[p].n \in Nat
    BY <1>2, Zenon DEF OpType
  <2> QED
    BY <1>4, <2>1, ChunkType DEF min
<1>6. CASE op' = [op EXCEPT ![p] = Idle] /\ UNCHANGED lock
  <2>1. Types'
    BY <1>1, <1>3, <1>6, IdleType, Zenon DEF Types
  <2>2. Others(p) /\ op'[p] = Idle
    BY <1>1, <1>3, <1>6, Zenon DEF Others, Types, Ip
  <2>3. "idle" # "chunk"
    BY Zenon
  <2>9. Stays(p)
    BY <1>3, <1>6, <2>1, <2>2, <2>3, IdleType, Zenon DEF Stays
  <2> QED
    BY <2>1, <2>9, Outside, Zenon
<1>7. CASE /\ ~(o > size[i] \/ o + n1 > MAXFILE * BSIZE) /\ ilock(p, i)
           /\ op' = [op EXCEPT ![p].pc = "writei", ![p].n1 = n1, ![p].off = o]
  <2> DEFINE v == [op[p] EXCEPT !.pc = "writei", !.n1 = n1, !.off = o]
  <2>1. op' = [op EXCEPT ![p] = v]
    BY <1>1, <1>7, Zenon DEF Types
  <2>2. /\ v \in OpType /\ v.pc = "writei" /\ v.n1 = n1 /\ v.off = o /\ v.tot = op[p].tot
        /\ v.logged = op[p].logged
    BY <1>2, <1>5, Zenon DEF OpType
  <2>3. lock[i] = 0 /\ lock' = [lock EXCEPT ![i] = p]
    BY <1>7, Zenon DEF ilock
  <2>4. o <= size[i] /\ o + n1 <= MAXFILE * BSIZE
    <3>1. MAXFILE * BSIZE \in Nat
      BY Sizes
    <3> DEFINE X == MAXFILE * BSIZE
    <3> HIDE DEF X, n1
    <3>2. X \in Nat /\ ~(o > size[i]) /\ ~(o + n1 > X)
      BY <1>7, <3>1, Zenon DEF X
    <3>3. o <= size[i] /\ o + n1 <= X
      BY <1>2, <1>5, <3>2
    <3> QED
      BY <3>3, Zenon DEF X
  <2> HIDE DEF v, n1
  <2>5. Types'
    BY <1>1, <1>2, <1>3, <2>1, <2>2, <2>3, Zenon DEF Types
  <2>6. Others(p) /\ op'[p] = v /\ Ip(p)' = i
    BY <1>1, <1>3, <2>1, Zenon DEF Others, Types, Ip
  <2>7. o = off'[fd'[p]]
    BY <1>3, Zenon
  <2>9. Takes(p, i)
    BY <1>2, <1>3, <1>4, <1>5, <2>2, <2>3, <2>4, <2>5, <2>6, <2>7, IdleType, Zenon
       DEF Takes
  <2> QED
    BY <2>5, <2>9, Lock, Zenon
<1> QED
  BY <1>6, <1>7, Zenon DEF filewrite

(* sys_open() keeps the invariant: no other process has the open file. *)
LEMMA SysOpen ==
  ASSUME Inv, NEW p \in Proc, NEW i \in Files, NEW trunc \in BOOLEAN, sys_open(p, i, trunc)
  PROVE  Inv'
<1>1. Types /\ i \in Inode
  BY FileDataAssumption, Zenon DEF Inv
<1>2. /\ op[p] = Idle /\ \A q \in Proc \ {p} : fd[q] # p
      /\ fd' = [fd EXCEPT ![p] = p] /\ ip' = [ip EXCEPT ![p] = i] /\ off' = [off EXCEPT ![p] = 0]
      /\ UNCHANGED <<used, data, addrs, size, written, writes>>
  BY Zenon DEF sys_open
<1>3. fd' \in [Proc -> Proc] /\ ip' \in [Proc -> Files] /\ off' \in [Proc -> Nat]
  BY <1>1, <1>2, Zenon DEF Types
<1>4. /\ \A q \in Proc \ {p} : fd'[q] = fd[q] /\ Ip(q)' = Ip(q) /\ off'[fd[q]] = off[fd[q]]
      /\ Ip(p)' = i
  <2>1. \A q \in Proc \ {p} : fd[q] \in Proc /\ fd[q] # p
    BY <1>1, <1>2, Zenon DEF Types
  <2> QED
    BY <1>1, <1>2, <2>1, Zenon DEF Types, Ip
<1>5. CASE UNCHANGED <<lock, op>>
  <2>1. Types' /\ Others(p) /\ op'[p] = Idle
    BY <1>1, <1>2, <1>3, <1>4, <1>5, Zenon DEF Types, Others
  <2>2. "idle" # "chunk"
    BY Zenon
  <2>3. op[p].pc \notin Locked /\ op'[p].pc \notin Locked /\ op'[p].pc # "chunk"
    BY <1>2, <2>1, <2>2, IdleType, Zenon
  <2>9. Stays(p)
    BY <1>2, <1>4, <1>5, <2>1, <2>3, Zenon DEF Stays
  <2> QED
    BY <2>1, <2>9, Outside, Zenon
<1>6. CASE ilock(p, i) /\ op' = [op EXCEPT ![p] = [Idle EXCEPT !.pc = "itrunc"]]
  <2> DEFINE v == [Idle EXCEPT !.pc = "itrunc"]
  <2>1. v \in OpType /\ v.pc = "itrunc" /\ v.j = 0
    BY Zenon DEF Idle, OpType
  <2>2. lock[i] = 0 /\ lock' = [lock EXCEPT ![i] = p] /\ op' = [op EXCEPT ![p] = v]
    BY <1>6, Zenon DEF ilock
  <2> HIDE DEF v
  <2>3. Types' /\ Others(p) /\ op'[p] = v
    BY <1>1, <1>2, <1>3, <1>4, <2>1, <2>2 DEF Types, Others
  <2>4. "itrunc" # "writei"
    BY Zenon
  <2>9. Takes(p, i)
    BY <1>1, <1>2, <1>4, <2>1, <2>2, <2>3, <2>4, IdleType, Zenon DEF Takes
  <2> QED
    BY <2>3, <2>9, Lock, Zenon
<1> QED
  BY <1>5, <1>6, Zenon DEF sys_open

(* Two processes that hold a lock work on different inodes. *)
LEMMA Apart ==
  ASSUME Types, Locks, NEW p \in Proc, NEW q \in Proc \ {p}, op[p].pc \in Locked, op[q].pc \in Locked
  PROVE  Ip(q) # Ip(p)
  BY Zenon DEF Locks

(* A process that unlocks its inode, after writing or truncating. *)
Drops(p) ==
  /\ Others(p) /\ UNCHANGED <<addrs, fd, ip>>
  /\ op[p].pc \in Locked /\ op'[p].pc \notin Locked /\ lock' = [lock EXCEPT ![Ip(p)] = 0]
  /\ \A j \in Inode \ {Ip(p)} : size'[j] = size[j] /\ Now'[j] = Now[j]
  /\ size'[Ip(p)] <= MAXFILE * BSIZE
  /\ op'[p].pc = "chunk" => op'[p].i < op'[p].n /\ op'[p].tot = 0 /\ op'[p].logged = {}
  /\ \A q \in Proc \ {p} : op[q].pc \in Transfer => off'[fd[q]] = off[fd[q]]

(* Its step keeps the invariant if the disk stays consistent. *)
LEMMA Unlock ==
  ASSUME Inv, Types', NEW p \in Proc, Drops(p), OnDisk'
  PROVE  Inv'
<1> SUFFICES ASSUME
      Others(p), UNCHANGED <<addrs, fd, ip>>,
      op[p].pc \in Locked, op'[p].pc \notin Locked, lock' = [lock EXCEPT ![Ip(p)] = 0],
      \A j \in Inode \ {Ip(p)} : size'[j] = size[j] /\ Now'[j] = Now[j],
      size'[Ip(p)] <= MAXFILE * BSIZE,
      op'[p].pc = "chunk" => op'[p].i < op'[p].n /\ op'[p].tot = 0 /\ op'[p].logged = {},
      \A q \in Proc \ {p} : op[q].pc \in Transfer => off'[fd[q]] = off[fd[q]]
    PROVE Inv'
  BY Zenon DEF Drops
<1>1. Types /\ Locks /\ Transfers /\ Truncations /\ Logs
  BY Zenon DEF Inv
<1>2. \A q \in Proc \ {p} : op'[q] = op[q] /\ fd'[q] = fd[q] /\ Ip(q)' = Ip(q)
                            /\ ip'[fd'[q]] = Ip(q) /\ Ip(q) \in Inode
  BY <1>1, IpType, Zenon DEF Others, Ip
<1>3. "itrunc" \in Locked /\ \A x : x \in Transfer => x \in Locked
  BY Zenon DEF Locked, Transfer
<1>4. lock[Ip(p)] = p /\ Ip(p) \in Inode
  BY <1>1, IpType, Zenon DEF Locks
<1>5. \A j \in Inode : lock'[j] = IF j = Ip(p) THEN 0 ELSE lock[j]
  BY <1>1, Zenon DEF Types
<1>6. \A q \in Proc \ {p} : op[q].pc \in Locked => Ip(q) # Ip(p)
  BY <1>1, Apart, Zenon
<1>7. Locks'
  <2>1. ASSUME NEW q \in Proc, op'[q].pc \in Locked PROVE lock'[Ip(q)'] = q
    BY <1>1, <1>2, <1>5, <1>6, <2>1 DEF Locks
  <2>2. ASSUME NEW j \in Inode, lock'[j] # 0
        PROVE  op'[lock'[j]].pc \in Locked /\ ip'[fd'[lock'[j]]] = j
    <3>1. lock'[j] = lock[j] /\ j # Ip(p)
      BY <1>5, <2>2, Zenon
    <3>2. op[lock[j]].pc \in Locked /\ Ip(lock[j]) = j
      BY <1>1, <2>2, <3>1, Zenon DEF Locks
    <3>3. lock[j] \in Proc \ {p}
      BY <1>1, <2>2, <3>1, <3>2, Zenon DEF Types
    <3> QED
      BY <1>2, <3>1, <3>2, <3>3
  <2> QED
    BY <2>1, <2>2, Zenon DEF Locks, Ip
<1>8. Transfers'
  <2>1. ASSUME NEW q \in Proc
        PROVE  /\ op'[q].pc = "chunk" => op'[q].i < op'[q].n /\ op'[q].tot = 0 /\ op'[q].logged = {}
               /\ op'[q].pc \in Transfer =>
                    /\ op'[q].off = off'[fd'[q]] /\ op'[q].off <= size'[Ip(q)']
                    /\ op'[q].tot <= op'[q].n1 /\ op'[q].n1 <= MaxChunk
                    /\ op'[q].off + op'[q].n1 <= MAXFILE * BSIZE
    <3>1. CASE q = p
      BY <1>3, <3>1, Zenon
    <3>2. CASE q # p
      <4>1. op[q].pc \in Transfer => size'[Ip(q)] = size[Ip(q)]
        BY <1>2, <1>3, <1>6, <3>2
      <4> QED
        BY <1>1, <1>2, <3>2, <4>1 DEF Transfers
    <3> QED
      BY <3>1, <3>2, Zenon
  <2>2. \A j \in Inode : size'[j] <= MAXFILE * BSIZE
    BY <1>1, Zenon DEF Transfers
  <2> QED
    BY <2>1, <2>2, Zenon DEF Transfers
<1>9. Truncations'
  <2> SUFFICES ASSUME NEW q \in Proc, op'[q].pc = "itrunc"
               PROVE  op'[q].j <= MAXFILE + 1 /\ (op'[q].j = MAXFILE + 1 => addrs'[Ip(q)'][NDIRECT] = 0)
    BY Zenon DEF Truncations
  <2>1. q # p
    BY <1>3, Zenon
  <2> QED
    BY <1>1, <1>2, <2>1 DEF Truncations
<1>10. Logs'
  <2>1. \A q \in Proc \ {p} : op[q].pc \in Transfer => Now'[Ip(q)] = Now[Ip(q)]
    BY <1>2, <1>3, <1>6, Zenon
  <2>2. \A q \in Proc \ {p} : op'[q].pc \in Transfer => op'[q].logged \subseteq May(q)'
    BY <1>1, <2>1, LogsKept, Zenon
  <2> QED
    BY <1>3, <2>2, Zenon DEF Logs
<1> QED
  BY <1>7, <1>8, <1>9, <1>10, Zenon DEF Inv

(* A process that goes on with its inode locked. *)
Works(p) ==
  /\ Others(p) /\ UNCHANGED <<size, lock, fd, ip, off>>
  /\ op[p].pc \in Locked /\ op'[p].pc \in Locked
  /\ \A j \in Inode \ {Ip(p)} : Now'[j] = Now[j] /\ addrs'[j] = addrs[j]
  /\ op'[p].pc \in Transfer =>
       /\ op[p].pc \in Transfer /\ op'[p].off = op[p].off /\ op'[p].n1 = op[p].n1
       /\ op'[p].tot <= op'[p].n1 /\ op'[p].logged \subseteq May(p)'
  /\ op'[p].pc = "itrunc" =>
       op'[p].j <= MAXFILE + 1 /\ (op'[p].j = MAXFILE + 1 => addrs'[Ip(p)][NDIRECT] = 0)

(* Its step keeps the invariant if the disk stays consistent. *)
LEMMA Work ==
  ASSUME Inv, Types', NEW p \in Proc, Works(p), OnDisk'
  PROVE  Inv'
<1> SUFFICES ASSUME
      Others(p), UNCHANGED <<size, lock, fd, ip, off>>,
      op[p].pc \in Locked, op'[p].pc \in Locked,
      \A j \in Inode \ {Ip(p)} : Now'[j] = Now[j] /\ addrs'[j] = addrs[j],
      op'[p].pc \in Transfer =>
        /\ op[p].pc \in Transfer /\ op'[p].off = op[p].off /\ op'[p].n1 = op[p].n1
        /\ op'[p].tot <= op'[p].n1 /\ op'[p].logged \subseteq May(p)',
      op'[p].pc = "itrunc" =>
        op'[p].j <= MAXFILE + 1 /\ (op'[p].j = MAXFILE + 1 => addrs'[Ip(p)][NDIRECT] = 0)
    PROVE Inv'
  BY Zenon DEF Works
<1>1. Types /\ Locks /\ Transfers /\ Truncations /\ Logs
  BY Zenon DEF Inv
<1>2. \A q \in Proc \ {p} : op'[q] = op[q] /\ Ip(q) \in Inode
  BY <1>1, IpType, Zenon DEF Others
<1>3. \A q \in Proc : Ip(q)' = Ip(q)
  BY Zenon DEF Ip
<1>4. "itrunc" \in Locked /\ "chunk" \notin Locked /\ \A x : x \in Transfer => x \in Locked
  BY Zenon DEF Locked, Transfer
<1>5. \A q \in Proc \ {p} : op[q].pc \in Locked => Ip(q) # Ip(p)
  BY <1>1, Apart, Zenon
<1>6. Locks'
  <2>1. ASSUME NEW q \in Proc, op'[q].pc \in Locked PROVE lock'[Ip(q)'] = q
    BY <1>1, <1>2, <1>3, <2>1 DEF Locks
  <2>2. ASSUME NEW j \in Inode, lock'[j] # 0
        PROVE  op'[lock'[j]].pc \in Locked /\ ip'[fd'[lock'[j]]] = j
    <3>1. op[lock[j]].pc \in Locked /\ Ip(lock[j]) = j
      BY <1>1, <2>2, Zenon DEF Locks
    <3>2. lock[j] \in Proc
      BY <1>1, <2>2, Zenon DEF Types
    <3> QED
      BY <1>2, <3>1, <3>2, Zenon DEF Ip
  <2> QED
    BY <2>1, <2>2, Zenon DEF Locks, Ip
<1>7. Transfers'
  <2>1. ASSUME NEW q \in Proc
        PROVE  /\ op'[q].pc = "chunk" => op'[q].i < op'[q].n /\ op'[q].tot = 0 /\ op'[q].logged = {}
               /\ op'[q].pc \in Transfer =>
                    /\ op'[q].off = off'[fd'[q]] /\ op'[q].off <= size'[Ip(q)']
                    /\ op'[q].tot <= op'[q].n1 /\ op'[q].n1 <= MaxChunk
                    /\ op'[q].off + op'[q].n1 <= MAXFILE * BSIZE
    <3>1. CASE q = p
      BY <1>1, <1>3, <1>4, <3>1, Zenon DEF Transfers
    <3>2. CASE q # p
      BY <1>1, <1>2, <1>3, <3>2, SMTT(30) DEF Transfers
    <3> QED
      BY <3>1, <3>2, Zenon
  <2>2. \A j \in Inode : size'[j] <= MAXFILE * BSIZE
    BY <1>1, Zenon DEF Transfers
  <2> QED
    BY <2>1, <2>2, Zenon DEF Transfers
<1>8. Truncations'
  <2> SUFFICES ASSUME NEW q \in Proc, op'[q].pc = "itrunc"
               PROVE  op'[q].j <= MAXFILE + 1 /\ (op'[q].j = MAXFILE + 1 => addrs'[Ip(q)'][NDIRECT] = 0)
    BY Zenon DEF Truncations
  <2>1. CASE q = p
    BY <1>3, <2>1, Zenon
  <2>2. CASE q # p
    <3>1. op'[q] = op[q] /\ Ip(q)' = Ip(q) /\ addrs'[Ip(q)] = addrs[Ip(q)]
      BY <1>2, <1>3, <1>4, <1>5, <2>2
    <3> QED
      BY <1>1, <3>1 DEF Truncations
  <2> QED
    BY <2>1, <2>2, Zenon
<1>9. Logs'
  <2>1. \A q \in Proc \ {p} : op[q].pc \in Transfer => Now'[Ip(q)] = Now[Ip(q)]
    BY <1>2, <1>4, <1>5, Zenon
  <2>2. \A q \in Proc \ {p} : op'[q].pc \in Transfer => op'[q].logged \subseteq May(q)'
    BY <1>1, <2>1, LogsKept, Zenon
  <2> QED
    BY <2>2, Zenon DEF Logs
<1> QED
  BY <1>6, <1>7, <1>8, <1>9, Zenon DEF Inv

(* Where p holds the lock, its call says how far the contents reach. *)
LEMMA Holder ==
  ASSUME Inv, NEW p \in Proc, op[p].pc \in Locked
  PROVE  /\ lock[Ip(p)] = p /\ Ip(p) \in Inode /\ Ip(p) # Root /\ p # 0
         /\ Freed(Ip(p)) = IF op[p].pc = "itrunc" THEN op[p].j ELSE 0
         /\ op[p].pc = "itrunc" => Reach(Ip(p)) = 0
         /\ op[p].pc \in Transfer =>
              Reach(Ip(p)) = IF op[p].off + op[p].tot > size[Ip(p)] THEN op[p].off + op[p].tot
                             ELSE size[Ip(p)]
<1>1. Types /\ Locks
  BY Zenon DEF Inv
<1>2. lock[Ip(p)] = p /\ Ip(p) \in Inode /\ Ip(p) # Root /\ p # 0
  BY <1>1, IpType, Zenon DEF Locks
<1>3. op[p].pc \in Transfer => op[p].pc # "itrunc"
  BY Zenon DEF Transfer
<1> QED
  BY <1>2, <1>3 DEF Freed, Reach

(* writei_end() keeps the invariant: the size becomes what was written. *)
LEMMA WriteiEnd ==
  ASSUME Inv, NEW p \in Proc, writei_end(p)
  PROVE  Inv'
<1> DEFINE i == Ip(p)
           o == op[p].off + op[p].tot
           sum == op[p].i + op[p].tot
           v == IF op[p].tot = op[p].n1 /\ sum < op[p].n
                THEN [Idle EXCEPT !.pc = "chunk", !.v = op[p].v, !.n = op[p].n, !.i = sum] ELSE Idle
<1>1. Types /\ Locks /\ Transfers /\ OnDisk
  BY Zenon DEF Inv
<1>2. /\ op[p].pc = "iupdate" \/ (op[p].pc = "writei" /\ op[p].tot = op[p].n1)
      /\ size' = [size EXCEPT ![i] = IF o > @ THEN o ELSE @]
      /\ off' = [off EXCEPT ![fd[p]] = @ + op[p].tot]
      /\ lock' = [lock EXCEPT ![i] = 0]
      /\ op' = [op EXCEPT ![p] = v]
      /\ UNCHANGED <<used, data, addrs, fd, ip, written, writes>>
  BY <1>1, Zenon DEF writei_end, iunlock, Types
<1>3. op[p].pc \in Transfer /\ op[p].pc \in Locked
  BY <1>2, Zenon DEF Transfer, Locked
<1>4. /\ i \in Inode /\ fd[p] \in Proc /\ off[fd[p]] \in Nat /\ p # 0 /\ size[i] \in Nat
      /\ op[p].n \in Nat /\ op[p].i \in Nat /\ op[p].tot \in Nat /\ op[p].off \in Nat /\ op[p].n1 \in Nat
      /\ op[p].v \in Nat
  <2>1. i \in Inode /\ fd[p] \in Proc /\ off[fd[p]] \in Nat /\ p # 0 /\ op[p] \in OpType
    BY <1>1, IpType, Zenon
  <2> QED
    BY <1>1, <2>1, Zenon DEF Types, OpType
<1>5. v \in OpType /\ v.pc \notin Locked /\ (v.pc = "chunk" => v.i < v.n /\ v.tot = 0 /\ v.logged = {})
  <2>1. CASE op[p].tot = op[p].n1 /\ sum < op[p].n
    <3>1. sum \in Nat
      BY <1>4
    <3> DEFINE m == op[p].n
               k == op[p].v
    <3>3. v = [Idle EXCEPT !.pc = "chunk", !.v = k, !.n = m, !.i = sum] /\ m \in Nat /\ k \in Nat
      BY <1>4, <2>1, Zenon
    <3> HIDE DEF sum, m, k, v
    <3>2. v \in OpType /\ v.pc = "chunk" /\ v.n = m /\ v.i = sum /\ v.tot = 0 /\ v.logged = {}
      BY <3>1, <3>3, Zenon DEF Idle, OpType
    <3> QED
      BY <2>1, <3>2, IdleType, Zenon DEF m
  <2>2. CASE ~(op[p].tot = op[p].n1 /\ sum < op[p].n)
    <3>1. v = Idle
      BY <2>2, Zenon
    <3> QED
      BY <3>1, IdleType, Zenon
  <2> QED
    BY <2>1, <2>2, Zenon
<1> HIDE DEF v
<1>6. o \in Nat /\ o <= MAXFILE * BSIZE /\ size[i] <= MAXFILE * BSIZE
  <2>1. MAXFILE * BSIZE \in Nat
    BY Sizes
  <2> DEFINE X == MAXFILE * BSIZE
  <2> HIDE DEF X
  <2>2. op[p].tot <= op[p].n1 /\ op[p].off + op[p].n1 <= X /\ size[i] <= X /\ X \in Nat
    BY <1>1, <1>3, <1>4, <2>1, Zenon DEF Transfers, X
  <2>3. o \in Nat /\ o <= X /\ size[i] <= X
    BY <1>4, <2>2
  <2> QED
    BY <2>3, Zenon DEF X
<1>7. Freed(i) = 0 /\ Reach(i) = (IF o > size[i] THEN o ELSE size[i]) /\ lock[i] = p
  BY <1>3, Holder, Zenon DEF Transfer
<1> HIDE DEF o
<1>8. size'[i] = (IF o > size[i] THEN o ELSE size[i]) /\ \A j \in Inode \ {i} : size'[j] = size[j]
  BY <1>1, <1>2, <1>4, Zenon DEF Types
<1>9. Types'
  BY <1>1, <1>2, <1>4, <1>5, <1>6 DEF Types
<1>10. Others(p) /\ op'[p] = v
  BY <1>1, <1>2, Zenon DEF Others, Types, Ip
<1>11. ASSUME NEW q \in Proc \ {p}, op[q].pc \in Transfer PROVE off'[fd[q]] = off[fd[q]]
  <2>1. Ip(q) # i
    BY <1>1, <1>3, <1>11, Apart, Zenon DEF Locked
  <2>2. fd[q] # fd[p] /\ fd[q] \in Proc
    BY <1>1, <2>1, Zenon DEF Ip, Types
  <2> QED
    BY <1>1, <1>2, <2>2, Zenon DEF Types
<1>12. \A j \in Inode : lock'[j] = IF j = i THEN 0 ELSE lock[j]
  BY <1>1, <1>2, Zenon DEF Types
<1>13. \A j \in Inode : j # i => lock[j] # p
  BY <1>1, <1>4, Zenon DEF Locks
<1>14. ASSUME NEW j \in Inode PROVE Freed(j)' = Freed(j) /\ Reach(j)' <= Reach(j)
  <2>1. Reach(j) \in Nat
    BY <1>1, ReachType, Zenon DEF Filled
  <2>2. CASE j = i
    <3>1. lock'[j] = 0
      BY <1>12, <2>2, Zenon
    <3>2. Freed(j)' = 0 /\ Reach(j)' = size'[j]
      BY <3>1, Zenon DEF Freed, Reach
    <3> QED
      BY <1>7, <1>8, <2>1, <2>2, <3>2
  <2>3. CASE j # i
    <3>1. lock'[j] = lock[j] /\ lock[j] # p /\ size'[j] = size[j]
      BY <1>8, <1>12, <1>13, <2>3, Zenon
    <3>2. Freed(j)' = Freed(j) /\ Reach(j)' = Reach(j)
      BY <1>1, <1>10, <3>1, Elsewhere, Zenon
    <3> QED
      BY <2>1, <3>2
  <2> QED
    BY <2>2, <2>3, Zenon
<1>15. OnDisk' /\ Now' = Now
  BY <1>1, <1>2, <1>9, <1>14, Quiet, Zenon
<1>16. size'[i] <= MAXFILE * BSIZE
  BY <1>6, <1>8, Zenon
<1>17. Drops(p)
  BY <1>2, <1>3, <1>5, <1>8, <1>10, <1>11, <1>15, <1>16, Zenon DEF Drops
<1> QED
  BY <1>9, <1>15, <1>17, Unlock, Zenon

(* When the truncation is over nothing is left of the inode's blocks. *)
LEMMA ItruncEnd ==
  ASSUME Inv, NEW p \in Proc, itrunc_end(p)
  PROVE  Inv'
<1> DEFINE i == Ip(p)
<1>1. Types /\ Locks /\ Transfers /\ Truncations /\ OnDisk
  BY Zenon DEF Inv
<1>2. /\ op[p].pc = "itrunc" /\ \A j \in op[p].j .. MAXFILE : Victim(i, j) = 0
      /\ size' = [size EXCEPT ![i] = 0] /\ lock' = [lock EXCEPT ![i] = 0]
      /\ op' = [op EXCEPT ![p] = Idle] /\ UNCHANGED <<used, data, addrs, fd, ip, off, written, writes>>
  BY Zenon DEF itrunc_end, iunlock
<1>3. op[p].pc \in Locked
  BY <1>2, Zenon DEF Locked
<1>4. i \in Inode /\ p # 0 /\ lock[i] = p /\ Freed(i) = op[p].j /\ Reach(i) = 0
  BY <1>2, <1>3, Holder, Zenon
<1>5. op[p].j \in Nat
  BY <1>1, Zenon DEF Types, OpType
<1>6. addrs[i][NDIRECT] = 0
  <2>1. op[p].j <= MAXFILE + 1 /\ (op[p].j = MAXFILE + 1 => addrs[i][NDIRECT] = 0)
    BY <1>1, <1>2, Zenon DEF Truncations
  <2>2. CASE op[p].j <= MAXFILE
    <3>1. MAXFILE \in op[p].j .. MAXFILE /\ ~(MAXFILE < NDIRECT)
      BY <1>5, <2>2, Sizes
    <3> QED
      BY <1>2, <3>1, Zenon DEF Victim
  <2>3. CASE ~(op[p].j <= MAXFILE)
    BY <1>5, <2>1, <2>3, Sizes
  <2> QED
    BY <2>2, <2>3, Zenon
<1>7. Types'
  BY <1>1, <1>2, <1>4, IdleType, Zenon DEF Types
<1>8. Others(p) /\ op'[p] = Idle
  BY <1>1, <1>2, Zenon DEF Others, Types, Ip
<1>9. \A j \in Inode : lock'[j] = (IF j = i THEN 0 ELSE lock[j]) /\ size'[j] = (IF j = i THEN 0 ELSE size[j])
  BY <1>1, <1>2, Zenon DEF Types
<1>10. \A j \in Inode : j # i => lock[j] # p
  BY <1>1, <1>4, Zenon DEF Locks
<1>11. \A j \in Inode : Reach(j)' = Reach(j) /\ (j # i => Freed(j)' = Freed(j))
  <2> SUFFICES ASSUME NEW j \in Inode PROVE Reach(j)' = Reach(j) /\ (j # i => Freed(j)' = Freed(j))
    BY Zenon
  <2>1. CASE j = i
    <3>1. lock'[j] = 0 /\ size'[j] = 0
      BY <1>9, <2>1, Zenon
    <3>2. Reach(j)' = 0
      BY <3>1, Zenon DEF Reach
    <3> QED
      BY <1>4, <2>1, <3>2, Zenon
  <2>2. CASE j # i
    <3>1. lock'[j] = lock[j] /\ lock[j] # p /\ size'[j] = size[j]
      BY <1>9, <1>10, <2>2, Zenon
    <3> QED
      BY <1>1, <1>8, <3>1, Elsewhere, Zenon
  <2> QED
    BY <2>1, <2>2, Zenon
<1>12. Wanted' = Wanted
  BY <1>2, <1>11, Zenon DEF Filled, Wanted
<1>13. Now' = Now
  <2>1. ASSUME NEW j \in Inode, NEW k \in Index
        PROVE  Slots(data, addrs, Gone')[j][k] = Slots(data, addrs, Gone)[j][k]
    <3>1. CASE j = i
      BY <1>6, <3>1, Zenon DEF Slots
    <3>2. CASE j # i
      <4>1. Gone'[j] = Gone[j]
        BY <1>11, <3>2, Zenon DEF Gone
      <4> QED
        BY <4>1, Zenon DEF Slots
    <3> QED
      BY <3>1, <3>2, Zenon
  <2>2. Slots(data, addrs, Gone') = [j \in Inode |-> [k \in Index |-> Slots(data, addrs, Gone')[j][k]]]
    BY Zenon DEF Slots
  <2>3. Slots(data, addrs, Gone) = [j \in Inode |-> [k \in Index |-> Slots(data, addrs, Gone)[j][k]]]
    BY Zenon DEF Slots
  <2>4. Slots(data, addrs, Gone') = Slots(data, addrs, Gone)
    BY <2>1, <2>2, <2>3, Zenon
  <2> QED
    BY <1>2, <2>4, Zenon DEF Now
<1>14. OnDisk'
  <2>1. Slots(data', addrs', Gone') = Slots(data, addrs, Gone)
    BY <1>13, Zenon DEF Now
  <2> QED
    BY <1>1, <1>2, <1>12, <2>1, Zenon DEF OnDisk, Consistent
<1>15. size'[i] <= MAXFILE * BSIZE
  <2>1. MAXFILE * BSIZE \in Nat
    BY Sizes
  <2>2. size'[i] = 0
    BY <1>4, <1>9, Zenon
  <2> QED
    BY <2>1, <2>2
<1>16. op'[p].pc \notin Locked /\ op'[p].pc # "chunk"
  BY <1>8, IdleType, Zenon
<1>17. Drops(p)
  BY <1>2, <1>3, <1>8, <1>9, <1>13, <1>15, <1>16, Zenon DEF Drops
<1> QED
  BY <1>7, <1>14, <1>17, Unlock, Zenon

(* itrunc() keeps the invariant: it empties the next slot. *)
LEMMA Itrunc ==
  ASSUME Inv, NEW p \in Proc, itrunc(p)
  PROVE  Inv'
<1> DEFINE i == Ip(p)
<1>1. Types /\ Locks /\ Truncations /\ OnDisk
  BY Zenon DEF Inv
<1>2. PICK j \in op[p].j .. MAXFILE :
        /\ Victim(i, j) # 0 /\ \A k \in op[p].j .. j - 1 : Victim(i, k) = 0
        /\ bfree(Victim(i, j))
        /\ addrs' = IF j \in NDIRECT .. MAXFILE - 1 THEN addrs
                    ELSE [addrs EXCEPT ![i][min(j, NDIRECT)] = 0]
        /\ op' = [op EXCEPT ![p].j = j + 1]
  BY Zenon DEF itrunc
<1>3. op[p].pc = "itrunc" /\ UNCHANGED <<size, lock, fd, ip, off, written, writes>>
  BY Zenon DEF itrunc
<1>4. op[p].pc \in Locked
  BY <1>3, Zenon DEF Locked
<1>5. i \in Inode /\ p # 0 /\ lock[i] = p /\ Freed(i) = op[p].j /\ Reach(i) = 0
  BY <1>3, <1>4, Holder, Zenon
<1>6. op[p] \in OpType /\ op[p].j \in Nat /\ j \in Nat /\ j <= MAXFILE /\ MAXFILE \in Nat
  <2>1. op[p] \in OpType /\ op[p].j \in Nat
    BY <1>1, Zenon DEF Types, OpType
  <2> QED
    BY <2>1, Sizes
<1> DEFINE v == [op[p] EXCEPT !.j = j + 1]
           b == Victim(i, j)
<1>7. v \in OpType /\ v.pc = "itrunc" /\ v.j = j + 1
  BY <1>3, <1>6 DEF OpType
<1>8. op' = [op EXCEPT ![p] = v]
  BY <1>1, <1>2, Zenon DEF Types
<1> HIDE DEF v
<1>9. Types'
  BY <1>1, <1>3, <1>7, <1>8, Zenon DEF Types
<1>10. Others(p) /\ op'[p] = v
  BY <1>1, <1>3, <1>8, Zenon DEF Others, Types, Ip
<1>11. \A m \in Inode : m # i => lock[m] # p
  BY <1>1, <1>5, Zenon DEF Locks
<1>12. ASSUME NEW m \in Inode
       PROVE  Reach(m)' = Reach(m) /\ Freed(m)' = IF m = i THEN j + 1 ELSE Freed(m)
  <2>1. CASE m = i
    <3>1. lock'[m] = p
      BY <1>3, <1>5, <2>1, Zenon
    <3>2. Reach(m)' = 0 /\ Freed(m)' = j + 1
      BY <1>5, <1>7, <1>10, <3>1, Zenon DEF Reach, Freed
    <3> QED
      BY <1>5, <2>1, <3>2, Zenon
  <2>2. CASE m # i
    <3>1. lock'[m] = lock[m] /\ lock[m] # p /\ size'[m] = size[m]
      BY <1>3, <1>11, <2>2, Zenon
    <3> QED
      BY <1>1, <1>10, <2>2, <3>1, Elsewhere, Zenon
  <2> QED
    BY <2>1, <2>2, Zenon
<1>13. Wanted' = Wanted /\ Gone' = [Gone EXCEPT ![i] = j + 1] /\ Wanted.reach[i] = 0 /\ Gone[i] = op[p].j
  BY <1>3, <1>5, <1>12, Zenon DEF Wanted, Filled, Gone
<1>14. Gone \in [Inode -> Nat]
  BY <1>1, ReachType, Zenon
<1>15. used' = used \ {b} /\ data' = [data EXCEPT ![b] = Stale]
  BY <1>2, Zenon DEF bfree
<1>16. \A k : Victim(i, k) = VictimOf(data, addrs, i, k)
  BY Zenon DEF Victim, VictimOf
<1>17. Cuts(data, addrs, Gone, i, j, b, data', addrs', Gone')
  BY <1>2, <1>5, <1>13, <1>14, <1>15, <1>16, Zenon DEF Cuts
<1> HIDE DEF b
<1>18. Consistent(used, data, addrs, Gone, Wanted)
  BY <1>1, Zenon DEF OnDisk
<1>19. /\ Consistent(used \ {b}, data', addrs', Gone', Wanted)
       /\ \A m \in Inode \ {i} : Slots(data', addrs', Gone')[m] = Slots(data, addrs, Gone)[m]
                                 /\ addrs'[m] = addrs[m]
  <2>1. Wanted.reach[i] = 0
    BY <1>13, Zenon
  <2> DEFINE k == i
             E == data'
             B == addrs'
             H == Gone'
  <2>2. Cuts(data, addrs, Gone, k, j, b, E, B, H) /\ Wanted.reach[k] = 0
    BY <1>17, <2>1, Zenon
  <2> HIDE DEF k, E, B, H
  <2>3. Cutoff(used, data, addrs, Gone, Wanted, k, b, E, B, H)
    BY <1>18, <2>2, Cut, Zenon
  <2> QED
    BY <2>3, Zenon DEF Cutoff, k, E, B, H
<1>20. OnDisk'
  BY <1>13, <1>15, <1>19, Zenon DEF OnDisk
<1>21. v.j <= MAXFILE + 1 /\ (v.j = MAXFILE + 1 => addrs'[i][NDIRECT] = 0)
  <2>1. v.j <= MAXFILE + 1
    BY <1>6, <1>7
  <2>2. ASSUME v.j = MAXFILE + 1 PROVE addrs'[i][NDIRECT] = 0
    <3>1. j = MAXFILE /\ j \notin NDIRECT .. MAXFILE - 1 /\ min(j, NDIRECT) = NDIRECT
      BY <1>6, <1>7, <2>2, Sizes DEF min
    <3>2. addrs' = [addrs EXCEPT ![i][NDIRECT] = 0]
      BY <1>2, <3>1, Zenon
    <3>3. addrs \in [Inode -> [0 .. NDIRECT -> Address]] /\ NDIRECT \in 0 .. NDIRECT
      BY <1>18, Sizes DEF Consistent, DiskType
    <3> QED
      BY <1>5, <3>2, <3>3, Zenon
  <2> QED
    BY <2>1, <2>2, Zenon
<1>22. "itrunc" \notin Transfer
  BY Zenon DEF Transfer
<1>23. Works(p)
  BY <1>3, <1>4, <1>7, <1>10, <1>19, <1>21, <1>22, Zenon DEF Works, Now
<1> QED
  BY <1>9, <1>20, <1>23, Work, Zenon

-----------------------------------------------------------------------------
(* writei() *)

(* A later offset is in no earlier block. *)
LEMMA DivMonotone ==
  ASSUME NEW a \in Nat, NEW b \in Nat, a <= b
  PROVE  a \div BSIZE <= b \div BSIZE
<1> DEFINE qa == a \div BSIZE
           qb == b \div BSIZE
           ra == a % BSIZE
           rb == b % BSIZE
<1>1. qa \in Nat /\ ra \in Word /\ Offset(qa, ra) = a
  BY Within, Zenon
<1>2. qb \in Nat /\ rb \in Word /\ Offset(qb, rb) = b
  BY Within, Zenon
<1> HIDE DEF qa, qb, ra, rb
<1>3. Offset(qa, ra) = Offset(qa, 0) + ra /\ Offset(qa, 0) \in Nat /\ ra \in Nat
  BY <1>1, Order, Sizes DEF Word
<1>4. qb < qa => Offset(qb, rb) < Offset(qa, 0)
  BY <1>1, <1>2, Order, Zenon
<1>5. ~(qb < qa)
  BY <1>1, <1>2, <1>3, <1>4
<1>6. qa <= qb
  BY <1>1, <1>2, <1>5
<1> QED
  BY <1>6, Zenon DEF qa, qb

(* The blocks of a chunk are blocks of a file. *)
LEMMA ChunkBlocks ==
  ASSUME NEW o \in Nat, NEW n \in Nat, NEW t \in Nat, t < n, o + n <= MAXFILE * BSIZE
  PROVE  /\ (o + t) \div BSIZE \in First(o) .. Final(o, n)
         /\ First(o) \in Nat /\ Final(o, n) \in 0 .. MAXFILE - 1
<1>1. o + t \in Nat /\ o + n - 1 \in Nat /\ o <= o + t /\ o + t <= o + n - 1
  OBVIOUS
<1>2. o \div BSIZE \in Nat /\ (o + t) \div BSIZE \in Nat
  BY <1>1, Within, Zenon
<1>3. (o + n - 1) \div BSIZE \in 0 .. MAXFILE - 1
  <2>1. MAXFILE * BSIZE \in Nat
    BY Sizes
  <2>2. o + n - 1 < MAXFILE * BSIZE
    <3> DEFINE X == MAXFILE * BSIZE
    <3> HIDE DEF X
    <3>1. X \in Nat /\ o + n <= X
      BY <2>1, Zenon DEF X
    <3>2. o + n - 1 < X
      BY <3>1
    <3> QED
      BY <3>2, Zenon DEF X
  <2> DEFINE y == o + n - 1
  <2> HIDE DEF y
  <2>3. y \in Nat /\ y < MAXFILE * BSIZE
    BY <1>1, <2>2, Zenon DEF y
  <2>4. y \div BSIZE \in 0 .. MAXFILE - 1
    BY <2>3, BlockInFile, Zenon
  <2> QED
    BY <2>4, Zenon DEF y
<1>4. o \div BSIZE <= (o + t) \div BSIZE /\ (o + t) \div BSIZE <= (o + n - 1) \div BSIZE
  <2> DEFINE x == o + t
             y == o + n - 1
  <2> HIDE DEF x, y
  <2>1. x \in Nat /\ y \in Nat /\ o <= x /\ x <= y
    BY <1>1, Zenon DEF x, y
  <2>2. o \div BSIZE <= x \div BSIZE /\ x \div BSIZE <= y \div BSIZE
    BY <2>1, DivMonotone, Zenon
  <2> QED
    BY <2>2, Zenon DEF x, y
<1> DEFINE A == o \div BSIZE
           B == (o + t) \div BSIZE
           C == (o + n - 1) \div BSIZE
<1> HIDE DEF A, B, C
<1>5. A \in Nat /\ B \in Nat /\ C \in 0 .. MAXFILE - 1 /\ A <= B /\ B <= C
  BY <1>2, <1>3, <1>4, Zenon DEF A, B, C
<1>6. B \in A .. C
  BY <1>5, Sizes
<1> QED
  BY <1>5, <1>6, Zenon DEF A, B, C, First, Final

(* What may be logged only grows, and has the indirect block. *)
LEMMA MayGrow ==
  ASSUME NEW o \in Nat, NEW n \in Nat, n > 0, o + n <= MAXFILE * BSIZE, NEW s, NEW t,
         \A k \in Index : s[k] # 0 => t[k] = s[k]
  PROVE  MayLog(s, o, n) \subseteq MayLog(t, o, n) /\ Marks(t[NDIRECT]) \subseteq MayLog(t, o, n)
<1>1. First(o) \in Nat /\ Final(o, n) \in 0 .. MAXFILE - 1
  BY ChunkBlocks, Zenon
<1>2. FirstNew(o) \in Nat
  BY <1>1 DEF FirstNew
<1>3. ASSUME NEW lo \in Nat PROVE Touched(s, lo, Final(o, n)) \subseteq Touched(t, lo, Final(o, n))
  <2> SUFFICES ASSUME NEW c \in Block, NEW k \in lo .. Final(o, n), s[Pos(k)] = c
               PROVE  t[Pos(k)] = c
    BY Zenon DEF Touched
  <2>1. k \in 0 .. MAXFILE - 1
    BY <1>1, Sizes
  <2>2. Pos(k) \in Index /\ c # 0
    BY <2>1, Positions, Sizes, Zenon
  <2> QED
    BY <2>2, Zenon
<1>4. Marks(s[NDIRECT]) \subseteq Marks(t[NDIRECT])
  <2>1. NDIRECT \in Index
    BY Sizes DEF Index
  <2> QED
    BY <2>1, Zenon DEF Marks
<1> QED
  BY <1>1, <1>2, <1>3, <1>4, Zenon DEF MayLog

(* It has block bn of the chunk, and its bitmap block when the block is new. *)
LEMMA MayMore ==
  ASSUME NEW o \in Nat, NEW n \in Nat, n > 0, o + n <= MAXFILE * BSIZE, NEW t,
         NEW bn \in First(o) .. Final(o, n), NEW b \in Block, t[Pos(bn)] = b
  PROVE  /\ <<"block", b>> \in MayLog(t, o, n)
         /\ bn >= FirstNew(o) => Marks(b) \subseteq MayLog(t, o, n)
<1>1. First(o) \in Nat /\ Final(o, n) \in 0 .. MAXFILE - 1
  BY ChunkBlocks, Zenon
<1>2. FirstNew(o) \in Nat
  BY <1>1 DEF FirstNew
<1>3. b \in Touched(t, First(o), Final(o, n))
  BY Zenon DEF Touched
<1>4. <<"block", b>> \in MayLog(t, o, n)
  BY <1>3, Zenon DEF MayLog
<1>5. ASSUME bn >= FirstNew(o) PROVE Marks(b) \subseteq MayLog(t, o, n)
  <2>1. bn \in FirstNew(o) .. Final(o, n)
    BY <1>1, <1>2, <1>5
  <2>2. b \in Touched(t, FirstNew(o), Final(o, n))
    BY <2>1, Zenon DEF Touched
  <2>3. BBLOCK(b) \in MayLog(t, o, n)
    BY <2>2, Zenon DEF MayLog
  <2> QED
    BY <1>4, <2>3, Zenon DEF Marks
<1> QED
  BY <1>4, <1>5, Zenon

(* A block of the chunk that was not there is past the words before it. *)
LEMMA NewBlock ==
  ASSUME NEW D, NEW S, NEW N, Contents(D, S, N), NEW i \in Inode \ {Root}, N.reach[i] \in Nat,
         NEW o \in Nat, o <= N.reach[i],
         NEW bn \in 0 .. MAXFILE - 1, First(o) <= bn, S[i][Pos(bn)] = 0
  PROVE  bn >= FirstNew(o)
<1> DEFINE r == o % BSIZE
<1>1. First(o) \in Nat /\ r \in Word /\ Offset(First(o), r) = o
  BY Within, Zenon DEF First
<1>2. FirstNew(o) = IF r = 0 THEN First(o) ELSE First(o) + 1
  BY Zenon DEF FirstNew
<1> HIDE DEF r
<1>3. bn \in Nat /\ r \in Nat /\ 0 \in Word
  BY <1>1, Sizes DEF Word
<1>4. CASE bn = First(o) /\ r # 0
  <2>1. Offset(bn, r) = Offset(bn, 0) + r /\ Offset(bn, 0) \in Nat
    BY <1>1, <1>3, Order, Zenon
  <2>2. Offset(bn, 0) < N.reach[i]
    BY <1>1, <1>3, <1>4, <2>1
  <2>3. S[i][Pos(bn)] # 0
    BY <1>3, <2>2, Zenon DEF Contents, Due, Hole
  <2> QED
    BY <2>3, Zenon
<1>5. CASE ~(bn = First(o) /\ r # 0)
  BY <1>1, <1>2, <1>3, <1>5
<1> QED
  BY <1>4, <1>5, Zenon

(* What bmap() does for writei(): d is its result, for block bn of p's chunk. *)
Mapped(p, bn, d) ==
  /\ bn = (op[p].off + op[p].tot) \div BSIZE
  /\ d = bmap(On(Ip(p), op[p].logged), bn)

(* The disk stays consistent and grows; the block returned is in its slot; what *)
(* is logged may be.                                                            *)
LEMMA BmapStep ==
  ASSUME Wellordered, Inv, NEW p \in Proc, op[p].pc \in Transfer, op[p].tot < op[p].n1,
         NEW bn, NEW d, Mapped(p, bn, d)
  PROVE  /\ Good(d, addrs, Gone, Wanted, Ip(p))
         /\ Grows(Now, SlotsOf(d, addrs, Gone, Ip(p)), Ip(p))
         /\ bn \in 0 .. MAXFILE - 1
         /\ d.addr # 0 => SlotsOf(d, addrs, Gone, Ip(p))[Ip(p)][Pos(bn)] = d.addr
         /\ LET M == MayLog(SlotsOf(d, addrs, Gone, Ip(p))[Ip(p)], op[p].off, op[p].n1) IN
            d.logged \subseteq M /\ (d.addr # 0 => <<"block", d.addr>> \in M)
<1> DEFINE i == Ip(p)
           o == op[p].off
           n == op[p].n1
           g == On(i, op[p].logged)
<1>1. Types /\ Transfers /\ OnDisk /\ Logs
  BY Zenon DEF Inv
<1>2. op[p].pc \in Locked
  BY Zenon DEF Locked
<1>3. i \in Inode \ {Root} /\ Gone[i] = 0 /\ Wanted.reach[i] \in Nat /\ o <= Wanted.reach[i]
  <2>1. /\ i \in Inode \ {Root} /\ Freed(i) = 0
        /\ Reach(i) = IF o + op[p].tot > size[i] THEN o + op[p].tot ELSE size[i]
    BY <1>2, Holder, Zenon DEF Transfer
  <2>2. o \in Nat /\ op[p].tot \in Nat /\ size[i] \in Nat
    BY <1>1, <2>1, Zenon DEF Types, OpType
  <2>3. Reach(i) \in Nat /\ o <= Reach(i)
    BY <2>1, <2>2
  <2> QED
    BY <2>1, <2>3, Zenon DEF Gone, Filled, Wanted
<1>4. /\ o \in Nat /\ n \in Nat /\ op[p].tot \in Nat /\ n > 0 /\ o + n <= MAXFILE * BSIZE
      /\ op[p].logged \in SUBSET Loggable
  <2>1. o \in Nat /\ n \in Nat /\ op[p].tot \in Nat /\ op[p].logged \in SUBSET Loggable
    BY <1>1, Zenon DEF Types, OpType
  <2> QED
    BY <1>1, <2>1 DEF Transfers
<1>5. bn \in First(o) .. Final(o, n) /\ First(o) \in Nat /\ Final(o, n) \in 0 .. MAXFILE - 1
  BY <1>4, ChunkBlocks, Zenon DEF Mapped
<1>6. bn \in 0 .. MAXFILE - 1 /\ First(o) <= bn
  BY <1>5, Sizes
<1>7. Consistent(used, data, addrs, Gone, Wanted)
  BY <1>1, Zenon DEF OnDisk
<1>8. DiskType(used, data, addrs)
  BY <1>7, Zenon DEF Consistent
<1>9. g \in Disk /\ At(g, addrs, i) = addrs /\ g.logged = op[p].logged
  <2>1. 0 \in Address
    BY Sizes DEF Address
  <2>2. addrs[i] \in [0 .. NDIRECT -> Address]
    BY <1>3, <1>8, Zenon DEF DiskType
  <2>3. g \in Disk
    BY <1>4, <1>8, <2>1, <2>2, Zenon DEF On, Disk, DiskType
  <2>4. g.addrs = addrs[i] /\ g.logged = op[p].logged
    BY Zenon DEF On
  <2>5. [addrs EXCEPT ![i] = addrs[i]] = addrs
    BY <1>3, <1>8, Zenon DEF DiskType
  <2> QED
    BY <2>3, <2>4, <2>5, Zenon DEF At
<1>10. g.used = used /\ g.data = data
  BY Zenon DEF On
<1>11. d = bmap(g, bn)
  BY Zenon DEF Mapped
<1> HIDE DEF g
<1>12. Good(g, addrs, Gone, Wanted, i) /\ SlotsOf(g, addrs, Gone, i) = Now
  BY <1>3, <1>7, <1>8, <1>9, <1>10, Zenon DEF Good, SlotsOf, Now, DiskType
<1>13. Good(d, addrs, Gone, Wanted, i) /\ Maps(g, d, addrs, Gone, i, bn)
  <2>1. CASE bn < NDIRECT
    BY <1>3, <1>6, <1>11, <1>12, <2>1, BmapDirect, Zenon
  <2>2. CASE ~(bn < NDIRECT)
    BY <1>3, <1>6, <1>11, <1>12, <2>2, BmapIndirect, Zenon
  <2> QED
    BY <2>1, <2>2, Zenon
<1> DEFINE T == SlotsOf(d, addrs, Gone, i)
           M == MayLog(T[i], o, n)
<1>14. /\ Grows(Now, T, i)
       /\ d.addr # 0 => T[i][Pos(bn)] = d.addr
       /\ d.logged \subseteq op[p].logged \cup Marks(d.addrs[NDIRECT])
            \cup (IF d.addr # 0 /\ Now[i][Pos(bn)] = 0 THEN Marks(d.addr) ELSE {})
  BY <1>9, <1>12, <1>13, Zenon DEF Maps
<1>15. T[i][NDIRECT] = d.addrs[NDIRECT]
  <2>1. NDIRECT \in 0 .. NDIRECT
    BY Sizes
  <2> QED
    BY <1>3, <1>13, <2>1, OwnSlots, SMTT(30)
<1>16. d.addr \in Address
  BY <1>13, Zenon DEF Good, Disk
<1>17. \A k \in Index : Now[i][k] # 0 => T[i][k] = Now[i][k]
  BY <1>14, Zenon DEF Grows
<1> HIDE DEF T
<1>18. MayLog(Now[i], o, n) \subseteq M /\ Marks(d.addrs[NDIRECT]) \subseteq M
  BY <1>4, <1>15, <1>17, MayGrow, Zenon
<1>19. op[p].logged \subseteq MayLog(Now[i], o, n)
  BY <1>1, Zenon DEF Logs, May
<1>20. ASSUME d.addr # 0
       PROVE  <<"block", d.addr>> \in M /\ (Now[i][Pos(bn)] = 0 => Marks(d.addr) \subseteq M)
  <2>1. d.addr \in Block /\ T[i][Pos(bn)] = d.addr
    BY <1>14, <1>16, <1>20, Sizes DEF Address
  <2>2. <<"block", d.addr>> \in M /\ (bn >= FirstNew(o) => Marks(d.addr) \subseteq M)
    BY <1>4, <1>5, <2>1, MayMore, Zenon
  <2>3. Contents(data, Now, Wanted)
    BY <1>7, Zenon DEF Consistent, Now
  <2>4. Now[i][Pos(bn)] = 0 => bn >= FirstNew(o)
    BY <1>3, <1>4, <1>6, <2>3, NewBlock, Zenon
  <2> QED
    BY <2>2, <2>4, Zenon
<1>21. d.logged \subseteq M
  BY <1>14, <1>18, <1>19, <1>20, SMTT(30)
<1> QED
  BY <1>6, <1>13, <1>14, <1>20, <1>21, Zenon DEF T

(* writei() keeps the invariant, whether the copy succeeds or not. *)
LEMMA Writei ==
  ASSUME Wellordered, Inv, NEW p \in Proc, writei(p)
  PROVE  Inv'
<1> DEFINE i == Ip(p)
           o == op[p].off + op[p].tot
           bn == o \div BSIZE
           at == o % BSIZE
           d == bmap(On(i, op[p].logged), bn)
           m == min(op[p].n1 - op[p].tot, BSIZE - at)
           T == SlotsOf(d, addrs, Gone, i)
<1>1. Types /\ Locks /\ Transfers /\ OnDisk
  BY Zenon DEF Inv
<1>2. /\ op[p].pc = "writei" /\ op[p].tot < op[p].n1
      /\ used' = d.used /\ addrs' = [addrs EXCEPT ![i] = d.addrs]
      /\ UNCHANGED <<size, lock, fd, ip, off, writes>>
  BY Zenon DEF writei
<1>3. \/ /\ data' = d.data /\ written' = written
         /\ op' = [op EXCEPT ![p].pc = "iupdate", ![p].logged = d.logged]
      \/ /\ d.addr # 0
         /\ \E c \in 0 .. m - 1 : either_copyin(d.data, d.addr, i, o, c, Torn)
         /\ op' = [op EXCEPT ![p].pc = "iupdate", ![p].logged = d.logged]
      \/ /\ d.addr # 0
         /\ either_copyin(d.data, d.addr, i, o, m, op[p].v)
         /\ op' = [op EXCEPT ![p].tot = @ + m, ![p].logged = d.logged \cup {<<"block", d.addr>>}]
  BY Zenon DEF writei
<1>4. op[p].pc \in Transfer /\ op[p].pc \in Locked /\ op[p].pc # "itrunc"
  BY <1>2, Zenon DEF Transfer, Locked
<1>5. Mapped(p, bn, d)
  BY Zenon DEF Mapped
<1>6. o \in Nat
  BY <1>1 DEF Types, OpType
<1>7. at \in Word /\ Offset(bn, at) = o
  BY <1>6, Within, Zenon
<1> HIDE DEF bn, d, at, T
<1>8. /\ Good(d, addrs, Gone, Wanted, i) /\ Grows(Now, T, i) /\ bn \in 0 .. MAXFILE - 1
      /\ d.addr # 0 => T[i][Pos(bn)] = d.addr
      /\ d.logged \subseteq MayLog(T[i], op[p].off, op[p].n1)
      /\ d.addr # 0 => <<"block", d.addr>> \in MayLog(T[i], op[p].off, op[p].n1)
  BY <1>2, <1>4, <1>5, BmapStep, Zenon DEF T
<1>9. d \in Disk /\ Consistent(d.used, d.data, addrs', Gone, Wanted) /\ T = Slots(d.data, addrs', Gone)
  BY <1>2, <1>8, Zenon DEF Good, T, SlotsOf, At
<1>10. d.logged \in SUBSET Loggable /\ d.addr \in Address
  BY <1>9, Zenon DEF Disk
<1>11. /\ lock[i] = p /\ i \in Inode /\ i # Root /\ p # 0 /\ Freed(i) = 0
       /\ Reach(i) = IF o > size[i] THEN o ELSE size[i]
  BY <1>4, Holder, Zenon
<1>12. /\ op[p] \in OpType /\ op[p].off \in Nat /\ op[p].tot \in Nat /\ op[p].n1 \in Nat /\ size[i] \in Nat
       /\ op[p].v \in Nat
  <2>1. op[p] \in OpType
    BY <1>1, Zenon DEF Types
  <2> QED
    BY <1>1, <1>11, <2>1, Zenon DEF Types, OpType
<1>13. \A j \in Inode : j # i => lock[j] # p
  BY <1>1, <1>11, Zenon DEF Locks
<1>14. \A j \in Inode \ {i} : T[j] = Now[j] /\ addrs'[j] = addrs[j]
  <2>1. DiskType(used, data, addrs)
    BY <1>1, Zenon DEF OnDisk, Consistent
  <2> QED
    BY <1>2, <1>8, <2>1, Zenon DEF Grows, DiskType
(* However the step ends, these are left to show. *)
<1>15. ASSUME NEW v \in OpType, op' = [op EXCEPT ![p] = v], v.pc \in Transfer, v.off = op[p].off,
              v.n1 = op[p].n1, v.tot <= v.n1, v.logged \subseteq MayLog(T[i], op[p].off, op[p].n1),
              NEW M, M = [Filled EXCEPT ![i] = IF v.off + v.tot > size[i] THEN v.off + v.tot ELSE size[i]],
              Consistent(used', data', addrs', Gone, [reach |-> M, word |-> written']),
              Slots(data', addrs', Gone) = T, written' \in [Inode -> [Offsets -> Int]]
       PROVE  Inv'
  <2>1. Types'
    BY <1>1, <1>2, <1>15, Zenon DEF Types
  <2>2. Others(p) /\ op'[p] = v
    BY <1>1, <1>2, <1>15, Zenon DEF Others, Types, Ip
  <2>3. v.pc # "itrunc" /\ v.pc \in Locked
    BY <1>15, Zenon DEF Transfer, Locked
  <2>4. ASSUME NEW j \in Inode PROVE Freed(j)' = Freed(j) /\ Reach(j)' = M[j]
    <3>1. CASE j = i
      <4>1. lock'[j] = p /\ size'[j] = size[i]
        BY <1>2, <1>11, <3>1, Zenon
      <4>2. /\ Freed(j)' = 0
            /\ Reach(j)' = IF v.off + v.tot > size[i] THEN v.off + v.tot ELSE size[i]
        BY <1>11, <2>2, <2>3, <4>1, Zenon DEF Freed, Reach
      <4> QED
        BY <1>11, <1>15, <3>1, <4>2, Zenon DEF Filled
    <3>2. CASE j # i
      <4>1. lock'[j] = lock[j] /\ lock[j] # p /\ size'[j] = size[j]
        BY <1>2, <1>13, <3>2, Zenon
      <4>2. Freed(j)' = Freed(j) /\ Reach(j)' = Reach(j)
        BY <1>1, <2>2, <4>1, Elsewhere, Zenon
      <4> QED
        BY <1>15, <3>2, <4>2, Zenon DEF Filled
    <3> QED
      BY <3>1, <3>2, Zenon
  <2>5. Gone' = Gone
    BY <2>4, Zenon DEF Gone
  <2>6. Filled' = M
    <3>1. M = [j \in Inode |-> M[j]]
      BY <1>15, Zenon DEF Filled
    <3> QED
      BY <2>4, <3>1, Zenon DEF Filled
  <2>7. OnDisk' /\ Now' = T
    BY <1>15, <2>5, <2>6, Zenon DEF OnDisk, Now, Wanted
  <2>8. May(p)' = MayLog(T[i], op[p].off, op[p].n1)
    <3>1. Ip(p)' = i
      BY <1>2 DEF Ip
    <3> QED
      BY <1>15, <2>2, <2>7, <3>1, Zenon DEF May
  <2>9. Works(p)
    BY <1>2, <1>4, <1>14, <1>15, <2>2, <2>3, <2>7, <2>8, Zenon DEF Works
  <2> QED
    BY <2>1, <2>7, <2>9, Work, Zenon
<1>16. Filled \in [Inode -> Nat] /\ Filled[i] = Reach(i)
  BY <1>1, <1>11, ReachType, Zenon DEF Filled
(* The loop ends before anything is copied, or behind what was. *)
<1>17. ASSUME op' = [op EXCEPT ![p].pc = "iupdate", ![p].logged = d.logged],
              Consistent(used', data', addrs', Gone, [reach |-> Filled, word |-> written']),
              Slots(data', addrs', Gone) = T, written' \in [Inode -> [Offsets -> Int]]
       PROVE  Inv'
  <2> DEFINE v == [op[p] EXCEPT !.pc = "iupdate", !.logged = d.logged]
             M == [Filled EXCEPT ![i] = IF v.off + v.tot > size[i] THEN v.off + v.tot ELSE size[i]]
  <2>1. op' = [op EXCEPT ![p] = v]
    BY <1>1, <1>17, Zenon DEF Types
  <2>2. /\ v \in OpType /\ v.pc = "iupdate" /\ v.off = op[p].off /\ v.n1 = op[p].n1
        /\ v.tot = op[p].tot /\ v.logged = d.logged
    BY <1>10, <1>12, Zenon DEF OpType
  <2>3. M = Filled
    <3>1. Filled[i] = IF v.off + v.tot > size[i] THEN v.off + v.tot ELSE size[i]
      BY <1>11, <2>2, Zenon DEF Filled
    <3>2. Filled = [j \in Inode |-> Filled[j]]
      BY Zenon DEF Filled
    <3> QED
      BY <1>11, <3>1, <3>2, Zenon
  <2>4. Consistent(used', data', addrs', Gone, [reach |-> M, word |-> written'])
    BY <1>17, <2>3, Zenon
  <2>5. v.pc \in Transfer
    BY <2>2 DEF Transfer
  <2>6. v.tot <= v.n1 /\ v.logged \subseteq MayLog(T[i], op[p].off, op[p].n1)
    BY <1>2, <1>8, <1>12, <2>2
  <2> HIDE DEF v
  <2> QED
    BY <1>15, <1>17, <2>1, <2>2, <2>4, <2>5, <2>6, Zenon
<1>18. m \in Nat /\ m <= BSIZE - at /\ op[p].tot + m <= op[p].n1 /\ BSIZE - at \in Int
  <2>1. at \in Nat /\ BSIZE \in Nat /\ at < BSIZE
    BY <1>7, Sizes DEF Word
  <2> QED
    BY <1>2, <1>12, <2>1 DEF min
<1> HIDE DEF m, o
(* c words of version e are copied. *)
<1>19. ASSUME NEW c \in Nat, c <= m, NEW e \in Int, d.addr # 0,
              either_copyin(d.data, d.addr, i, o, c, e),
              NEW M, M = [Filled EXCEPT ![i] = IF o + c > Filled[i] THEN o + c ELSE Filled[i]]
       PROVE  /\ Consistent(used', data', addrs', Gone, [reach |-> M, word |-> written'])
              /\ Slots(data', addrs', Gone) = T /\ written' \in [Inode -> [Offsets -> Int]]
  <2>1. /\ data' = [d.data EXCEPT ![d.addr] = [w \in 0 .. BSIZE - 1 |->
                      IF w \in at .. at + c - 1 THEN Tag(e, i, o - at + w) ELSE d.data[d.addr][w]]]
        /\ written' = [written EXCEPT ![i] = [x \in Offsets |->
                         IF x \in o .. o + c - 1 THEN Tag(e, i, x) ELSE written[i][x]]]
    BY <1>19, Zenon DEF either_copyin, at
  <2>2. written \in [Inode -> [Offsets -> Int]]
    BY <1>1, Zenon DEF Types
  <2>3. written' \in [Inode -> [Offsets -> Int]]
    <3>1. \A x \in Offsets : Tag(e, i, x) \in Int
      <4>1. \A x \in Offsets : x \in Int
        BY Sizes DEF Offsets
      <4> QED
        BY <1>11, <4>1, TagType, Zenon
    <3>2. [x \in Offsets |-> IF x \in o .. o + c - 1 THEN Tag(e, i, x) ELSE written[i][x]]
            \in [Offsets -> Int]
      BY <1>11, <2>2, <3>1, Zenon
    <3> QED
      BY <2>1, <2>2, <3>2, Zenon
  <2>4. \A f \in 0 .. MAXFILE - 1, w \in Word : Offset(f, w) \in Offsets
    <3> SUFFICES ASSUME NEW f \in 0 .. MAXFILE - 1, NEW w \in Word
                 PROVE  Offset(f, w) \in Offsets
      BY Zenon
    <3>1. f \in Nat /\ MAXFILE \in Nat /\ f < MAXFILE /\ 0 \in Word /\ w \in Nat /\ w < BSIZE /\ BSIZE \in Nat
      BY Sizes DEF Word
    <3>2. /\ Offset(f, 0) + BSIZE <= Offset(MAXFILE, 0) /\ Offset(f, w) = Offset(f, 0) + w
          /\ Offset(f, 0) \in Nat /\ Offset(MAXFILE, 0) \in Nat
      BY <3>1, Order, Zenon
    <3>3. Offset(MAXFILE, 0) = MAXFILE * BSIZE
      BY <3>1, Sizes DEF Offset
    <3> DEFINE X == MAXFILE * BSIZE
               y == Offset(f, 0)
    <3>4. y + BSIZE <= X /\ Offset(f, w) = y + w /\ y \in Nat /\ X \in Nat
      BY <3>2, <3>3, Zenon
    <3> HIDE DEF X, y
    <3>5. y + w \in 0 .. X - 1
      BY <3>1, <3>4
    <3> QED
      BY <3>4, <3>5, Zenon DEF Offsets, X
  <2>5. c <= BSIZE - at /\ bn \in Nat
    BY <1>8, <1>18, <1>19, Sizes
  <2>6. ASSUME NEW f \in 0 .. MAXFILE - 1, NEW w \in Word
        PROVE  /\ f = bn /\ w \in at .. at + c - 1 => written'[i][Offset(f, w)] = Tag(e, i, Offset(f, w))
               /\ ~(f = bn /\ w \in at .. at + c - 1) => written'[i][Offset(f, w)] = written[i][Offset(f, w)]
    <3>1. f \in Nat
      BY Sizes
    <3>2. Offset(f, w) \in o .. o + c - 1 <=> f = bn /\ w \in at .. at + c - 1
      BY <1>7, <2>5, <3>1, InBlock, Zenon
    <3>3. written'[i][Offset(f, w)] = IF Offset(f, w) \in o .. o + c - 1 THEN Tag(e, i, Offset(f, w))
                                      ELSE written[i][Offset(f, w)]
      BY <1>11, <2>1, <2>2, <2>4, Zenon
    <3> QED
      BY <3>2, <3>3, Zenon
  <2>7. \A w \in Word : o - at + w = Offset(bn, w)
    <3> SUFFICES ASSUME NEW w \in Word PROVE o - at + w = Offset(bn, w)
      BY Zenon
    <3>1. 0 \in Word /\ at \in Nat /\ w \in Nat
      BY <1>7, Sizes DEF Word
    <3>2. Offset(bn, at) = Offset(bn, 0) + at /\ Offset(bn, w) = Offset(bn, 0) + w /\ Offset(bn, 0) \in Nat
      BY <1>7, <2>5, <3>1, Order, Zenon
    <3> DEFINE y == Offset(bn, 0)
    <3>3. o = y + at /\ Offset(bn, w) = y + w /\ y \in Nat
      BY <1>7, <3>2, Zenon
    <3> HIDE DEF y
    <3>4. o - at + w = y + w
      BY <3>1, <3>3
    <3> QED
      BY <3>3, <3>4, Zenon
  <2> DEFINE D == d.data
             b == d.addr
             A == addrs'
             E == data'
             k == i
             G == [reach |-> M, word |-> written']
  <2>8. E = [D EXCEPT ![b] = [w \in Word |-> IF w \in at .. at + c - 1 THEN G.word[k][Offset(bn, w)]
                                             ELSE D[b][w]]]
    <3>1. [w \in 0 .. BSIZE - 1 |->
             IF w \in at .. at + c - 1 THEN Tag(e, i, o - at + w) ELSE d.data[d.addr][w]]
            = [w \in Word |-> IF w \in at .. at + c - 1 THEN written'[i][Offset(bn, w)]
                              ELSE d.data[d.addr][w]]
      <4>1. \A w \in Word : w \in at .. at + c - 1 => written'[i][Offset(bn, w)] = Tag(e, i, o - at + w)
        BY <1>8, <2>6, <2>7, Zenon
      <4> QED
        BY <4>1, Zenon DEF Word
    <3> QED
      BY <2>1, <3>1, Zenon
  <2>9. \A w \in Word : w \in at .. at + c - 1 => G.word[k][Offset(bn, w)] \in Int
    BY <1>8, <1>11, <2>3, <2>4, Zenon
  <2>10. \A j \in Inode, f \in 0 .. MAXFILE - 1, w \in Word :
           ~(j = k /\ f = bn /\ w \in at .. at + c - 1)
             => G.word[j][Offset(f, w)] = Wanted.word[j][Offset(f, w)]
    <3> SUFFICES ASSUME NEW j \in Inode, NEW f \in 0 .. MAXFILE - 1, NEW w \in Word,
                        ~(j = k /\ f = bn /\ w \in at .. at + c - 1)
                 PROVE  written'[j][Offset(f, w)] = written[j][Offset(f, w)]
      BY Zenon DEF Wanted
    <3>1. CASE j = i
      BY <2>6, <3>1, Zenon
    <3>2. CASE j # i
      BY <2>1, <2>2, <3>2, Zenon
    <3> QED
      BY <3>1, <3>2, Zenon
  <2>11. Offset(bn, at) <= Filled[i]
    BY <1>6, <1>7, <1>11, <1>12, <1>16, SMTT(30)
  <2>12. /\ Wanted.reach \in [Inode -> Nat] /\ Offset(bn, at) <= Wanted.reach[k]
         /\ G.reach = [Wanted.reach EXCEPT ![k] = IF Offset(bn, at) + c > Wanted.reach[k]
                                                  THEN Offset(bn, at) + c ELSE Wanted.reach[k]]
    BY <1>7, <1>16, <1>19, <2>11, Zenon DEF Wanted
  <2>13. b = Slots(D, A, Gone)[k][Pos(bn)] /\ b # 0
    BY <1>8, <1>9, <1>19, Zenon
  <2>14. k \in Inode \ {Root} /\ bn \in 0 .. MAXFILE - 1 /\ at \in Word
    BY <1>7, <1>8, <1>11, Zenon
  <2>15. Consistent(used', D, A, Gone, Wanted)
    BY <1>2, <1>9, SMTT(30)
  <2> HIDE DEF D, b, A, E, k, G
  <2>16. Copies(D, A, Gone, Wanted, k, bn, at, c, b, E, G)
    BY <2>5, <2>8, <2>9, <2>10, <2>12, <2>13, <2>14, Zenon DEF Copies
  <2>17. Consistent(used', E, A, Gone, G) /\ Slots(E, A, Gone) = Slots(D, A, Gone)
    BY <2>15, <2>16, Copy
  <2> QED
    BY <1>9, <2>3, <2>17, Zenon DEF D, A, E, G
<1>20. CASE /\ data' = d.data /\ written' = written
            /\ op' = [op EXCEPT ![p].pc = "iupdate", ![p].logged = d.logged]
  <2>1. Consistent(used', data', addrs', Gone, [reach |-> Filled, word |-> written'])
    BY <1>2, <1>9, <1>20, Zenon DEF Wanted
  <2>2. Slots(data', addrs', Gone) = T /\ written' \in [Inode -> [Offsets -> Int]]
    BY <1>1, <1>9, <1>20, Zenon DEF Types
  <2> QED
    BY <1>17, <1>20, <2>1, <2>2, Zenon
<1>21. CASE /\ d.addr # 0
            /\ \E c \in 0 .. m - 1 : either_copyin(d.data, d.addr, i, o, c, Torn)
            /\ op' = [op EXCEPT ![p].pc = "iupdate", ![p].logged = d.logged]
  <2>1. PICK c \in 0 .. m - 1 : either_copyin(d.data, d.addr, i, o, c, Torn)
    BY <1>21, Zenon
  <2>2. c \in Nat /\ c <= m /\ Torn \in Int
    BY <1>18 DEF Torn
  <2> DEFINE M == [Filled EXCEPT ![i] = IF o + c > Filled[i] THEN o + c ELSE Filled[i]]
             G == [reach |-> M, word |-> written']
             L == [reach |-> Filled, word |-> written']
  <2>3. /\ Consistent(used', data', addrs', Gone, G)
        /\ Slots(data', addrs', Gone) = T /\ written' \in [Inode -> [Offsets -> Int]]
    BY <1>19, <1>21, <2>1, <2>2, Zenon
  <2>4. M \in [Inode -> Nat] /\ \A j \in Inode : Filled[j] <= M[j]
    <3>1. o + c \in Nat /\ Filled[i] \in Nat
      BY <1>6, <1>11, <1>16, <2>2
    <3> DEFINE z == IF o + c > Filled[i] THEN o + c ELSE Filled[i]
    <3>2. z \in Nat /\ Filled[i] <= z
      BY <3>1
    <3> HIDE DEF z
    <3>3. M = [Filled EXCEPT ![i] = z]
      BY Zenon DEF z
    <3> HIDE DEF M
    <3>4. M \in [Inode -> Nat] /\ \A j \in Inode : M[j] = IF j = i THEN z ELSE Filled[j]
      BY <1>16, <3>2, <3>3, Zenon
    <3>5. \A j \in Inode : Filled[j] <= Filled[j]
      BY <1>16
    <3> QED
      BY <3>2, <3>4, <3>5, Zenon
  <2>5. /\ L.word = G.word /\ G.reach \in [Inode -> Nat] /\ L.reach \in [Inode -> Nat]
        /\ \A j \in Inode : L.reach[j] <= G.reach[j]
    BY <1>16, <2>4, Zenon
  <2> HIDE DEF G, L
  <2>6. Consistent(used', data', addrs', Gone, L)
    BY <2>3, <2>5, Less, Zenon
  <2> QED
    BY <1>17, <1>21, <2>3, <2>6, Zenon DEF L
<1>22. CASE /\ d.addr # 0
            /\ either_copyin(d.data, d.addr, i, o, m, op[p].v)
            /\ op' = [op EXCEPT ![p].tot = @ + m, ![p].logged = d.logged \cup {<<"block", d.addr>>}]
  <2> DEFINE v == [op[p] EXCEPT !.tot = @ + m, !.logged = d.logged \cup {<<"block", d.addr>>}]
             M == [Filled EXCEPT ![i] = IF v.off + v.tot > size[i] THEN v.off + v.tot ELSE size[i]]
  <2>1. op' = [op EXCEPT ![p] = v]
    BY <1>1, <1>22, Zenon DEF Types
  <2>3. <<"block", d.addr>> \in Loggable
    BY <1>10 DEF Loggable, Address
  <2>4. /\ v \in OpType /\ v.pc = "writei" /\ v.off = op[p].off /\ v.n1 = op[p].n1
        /\ v.tot = op[p].tot + m /\ v.logged = d.logged \cup {<<"block", d.addr>>}
    <3> DEFINE L == d.logged \cup {<<"block", d.addr>>}
               t == op[p].tot + m
    <3>1. L \in SUBSET Loggable /\ t \in Nat
      BY <1>10, <1>12, <1>18, <2>3
    <3>2. v = [op[p] EXCEPT !.tot = t, !.logged = L]
      BY Zenon
    <3> HIDE DEF L, t, v
    <3>3. /\ v \in OpType /\ v.pc = op[p].pc /\ v.off = op[p].off /\ v.n1 = op[p].n1
          /\ v.tot = t /\ v.logged = L
      BY <1>12, <3>1, <3>2, Zenon DEF OpType
    <3> QED
      BY <1>2, <3>3, Zenon DEF L, t
  <2>6. v.off + v.tot = o + m
    BY <1>12, <1>18, <2>4 DEF o
  <2> HIDE DEF v
  <2>7. M = [Filled EXCEPT ![i] = IF o + m > Filled[i] THEN o + m ELSE Filled[i]]
    <3>1. (IF v.off + v.tot > size[i] THEN v.off + v.tot ELSE size[i])
            = (IF o + m > Filled[i] THEN o + m ELSE Filled[i])
      BY <1>6, <1>11, <1>12, <1>16, <1>18, <2>6
    <3> QED
      BY <3>1, Zenon
  <2> HIDE DEF M
  <2>8. m \in Nat /\ m <= m /\ op[p].v \in Int
    BY <1>12, <1>18
  <2>14. /\ Consistent(used', data', addrs', Gone, [reach |-> M, word |-> written'])
         /\ Slots(data', addrs', Gone) = T /\ written' \in [Inode -> [Offsets -> Int]]
    BY <1>19, <1>22, <2>7, <2>8, Zenon
  <2>15. v.pc \in Transfer
    BY <2>4, Zenon DEF Transfer
  <2>16. v.tot <= v.n1 /\ v.logged \subseteq MayLog(T[i], op[p].off, op[p].n1)
    BY <1>8, <1>18, <1>22, <2>4, Zenon
  <2> QED
    BY <1>15, <2>1, <2>4, <2>14, <2>15, <2>16, Zenon DEF M
<1> QED
  BY <1>3, <1>20, <1>21, <1>22, Zenon

-----------------------------------------------------------------------------
(* Init and Next. *)

(* The image of mkfs satisfies the invariant if it is consistent. *)
LEMMA InitInv ==
  ASSUME ImageConsistent, Init
  PROVE  Inv
<1>1. /\ used = 1 .. Image.freeblock - 1 /\ data = Image.data /\ addrs = Image.addrs
      /\ size = Image.size /\ lock = [i \in Inode |-> 0] /\ fd \in [Proc -> Proc]
      /\ ip \in [Proc -> Files] /\ off = [f \in Proc |-> 0] /\ op = [p \in Proc |-> Idle]
      /\ written = Original /\ writes = 0
  BY Zenon DEF Init
<1>2. size \in [Inode -> 0 .. MAXFILE * BSIZE] /\ MAXFILE * BSIZE \in Nat
  BY <1>1, Sizes DEF ImageConsistent
<1>3. Consistent(used, data, addrs, [i \in Inode |-> 0], [reach |-> size, word |-> written])
  BY <1>1, Zenon DEF ImageConsistent
<1>4. Types
  <2>1. size \in [Inode -> Nat]
    BY <1>2
  <2>2. Original \in [Inode -> [Offsets -> Int]]
    <3>1. ASSUME NEW i \in Inode, NEW o \in Offsets PROVE Tag(0, i, o) \in Int
      <4>1. o \in Int /\ 0 \in Int
        BY Sizes DEF Offsets
      <4> QED
        BY <4>1, TagType, Zenon
    <3>2. 0 \in Int
      OBVIOUS
    <3> QED
      BY <3>1, <3>2, Zenon DEF Original
  <2>3. writes \in Nat
    BY <1>1
  <2> QED
    BY <1>1, <2>1, <2>2, <2>3, IdleType, Zenon DEF Types
<1>5. \A p \in Proc : op[p].pc = "idle" /\ op[p].pc \notin Locked
  BY <1>1, IdleType, Zenon
<1>6. \A x : x \in Transfer \cup {"itrunc"} => x \in Locked
  BY Zenon DEF Transfer, Locked
<1>7. Locks /\ Truncations /\ Logs
  BY <1>1, <1>5, <1>6, Zenon DEF Locks, Truncations, Logs
<1>8. Transfers
  <2>1. \A i \in Inode : size[i] <= MAXFILE * BSIZE
    <3> DEFINE X == MAXFILE * BSIZE
    <3>1. size \in [Inode -> 0 .. X] /\ X \in Nat
      BY <1>2, Zenon
    <3> HIDE DEF X
    <3>2. \A i \in Inode : size[i] <= X
      BY <3>1
    <3> QED
      BY <3>2, Zenon DEF X
  <2> QED
    BY <1>5, <1>6, <2>1, Zenon DEF Transfers
<1>9. Gone = [i \in Inode |-> 0]
  BY <1>1, Zenon DEF Gone, Freed
<1>10. Filled = size
  <2>1. \A i \in Inode : Reach(i) = size[i]
    BY <1>1, Zenon DEF Reach
  <2> QED
    BY <1>4, <2>1, Zenon DEF Filled, Types
<1>11. OnDisk
  BY <1>3, <1>9, <1>10, Zenon DEF OnDisk, Wanted
<1> QED
  BY <1>4, <1>7, <1>8, <1>11, Zenon DEF Inv

(* Every step keeps the invariant. *)
LEMMA NextInv ==
  ASSUME Wellordered, Inv, [Next]_vars
  PROVE  Inv'
<1>1. ASSUME NEW p \in Proc, NEW n \in Writes, sys_write(p, n) PROVE Inv'
  BY <1>1, SysWrite, SMTT(30)
<1>2. ASSUME NEW p \in Proc, NEW n \in Writes, sys_read(p, n) PROVE Inv'
  BY <1>2, SysRead, Zenon
<1>3. ASSUME NEW p \in Proc, filewrite(p) PROVE Inv'
  BY <1>3, FileWrite, Zenon
<1>4. ASSUME NEW p \in Proc, writei(p) PROVE Inv'
  BY <1>4, Writei, Zenon
<1>5. ASSUME NEW p \in Proc, writei_end(p) PROVE Inv'
  BY <1>5, WriteiEnd, Zenon
<1>6. ASSUME NEW p \in Proc, NEW i \in Files, NEW trunc \in BOOLEAN, sys_open(p, i, trunc) PROVE Inv'
  BY <1>6, SysOpen, Zenon
<1>7. ASSUME NEW p \in Proc, itrunc(p) PROVE Inv'
  BY <1>7, Itrunc, Zenon
<1>8. ASSUME NEW p \in Proc, itrunc_end(p) PROVE Inv'
  BY <1>8, ItruncEnd, Zenon
<1>9. CASE UNCHANGED vars
  <2>1. UNCHANGED <<used, data, addrs, size, lock, fd, ip, off, op, written, writes>>
    BY <1>9, Zenon DEF vars
  <2>2. Gone' = Gone /\ Wanted' = Wanted
    BY <2>1, Zenon DEF Gone, Filled, Wanted, Freed, Reach
  <2>3. Now' = Now
    BY <2>1, <2>2, Zenon DEF Now
  <2>4. \A p \in Proc : Ip(p)' = Ip(p)
    BY <2>1, Zenon DEF Ip
  <2>5. Types' /\ OnDisk'
    BY <2>1, <2>2, Zenon DEF Inv, Types, OnDisk
  <2>6. Locks'
    BY <2>1, Zenon DEF Inv, Locks, Ip
  <2>7. Transfers' /\ Truncations'
    BY <2>1, Zenon DEF Inv, Transfers, Truncations, Ip
  <2>8. Logs'
    BY <2>1, <2>3, Zenon DEF Inv, Logs, May, Ip
  <2> QED
    BY <2>5, <2>6, <2>7, <2>8, Zenon DEF Inv
<1> QED
  BY <1>1, <1>2, <1>3, <1>4, <1>5, <1>6, <1>7, <1>8, <1>9, Zenon DEF Next

-----------------------------------------------------------------------------
(* What the invariant says of the files and of their places. *)

(* The invariant implies ReadsBack: an inode that is not locked has no *)
(* truncation under way, and its contents reach its size.              *)
LEMMA ReadsInv ==
  ASSUME Inv
  PROVE  ReadsBack
<1> SUFFICES ASSUME NEW i \in Inode, lock[i] = 0, NEW o \in 0 .. size[i] - 1, ~Hole(i, o)
             PROVE  LET bn == o \div BSIZE
                        b == IF bn < NDIRECT THEN addrs[i][bn] ELSE data[addrs[i][NDIRECT]][bn - NDIRECT]
                    IN  b \in Block /\ data[b][o % BSIZE] = written[i][o]
  BY Zenon DEF ReadsBack
<1> DEFINE bn == o \div BSIZE
           w == o % BSIZE
           b == IF bn < NDIRECT THEN addrs[i][bn] ELSE data[addrs[i][NDIRECT]][bn - NDIRECT]
<1>1. Types /\ Transfers /\ OnDisk
  BY Zenon DEF Inv
<1>2. size[i] \in Nat /\ size[i] <= MAXFILE * BSIZE /\ MAXFILE * BSIZE \in Nat
  BY <1>1, Sizes DEF Types, Transfers
<1>3. o \in Nat /\ o < size[i] /\ o < MAXFILE * BSIZE
  <2> DEFINE X == MAXFILE * BSIZE
  <2> HIDE DEF X
  <2>1. size[i] \in Nat /\ size[i] <= X /\ X \in Nat
    BY <1>2, Zenon DEF X
  <2>2. o \in Nat /\ o < size[i] /\ o < X
    BY <2>1
  <2> QED
    BY <2>2, Zenon DEF X
<1>4. bn \in 0 .. MAXFILE - 1 /\ w \in Word /\ Offset(bn, w) = o
  BY <1>3, BlockInFile, Within, Zenon
<1> HIDE DEF bn, w
<1>5. Wanted.reach[i] = size[i] /\ Wanted.word[i][o] = written[i][o] /\ Gone[i] = 0
  BY Zenon DEF Wanted, Filled, Gone, Reach, Freed
<1>6. /\ DiskType(used, data, addrs) /\ Accounted(used, Now) /\ Contents(data, Now, Wanted)
  BY <1>1, Zenon DEF OnDisk, Consistent, Now
<1>7. Now[i][Pos(bn)] # 0 /\ data[Now[i][Pos(bn)]][w] = written[i][o]
  BY <1>3, <1>4, <1>5, <1>6, Zenon DEF Contents, Due
<1>8. Pos(bn) \in Index
  BY <1>4, Positions, Zenon
<1>9. Now[i][Pos(bn)] \in Block
  BY <1>6, <1>7, <1>8, Zenon DEF Accounted, DiskType
<1>10. Now[i][Pos(bn)] = b
  <2>1. CASE bn < NDIRECT
    <3>1. Pos(bn) = bn /\ bn <= NDIRECT
      BY <1>4, <2>1, Sizes DEF Pos
    <3> QED
      BY <1>8, <2>1, <3>1, Zenon DEF Now, Slots
  <2>2. CASE ~(bn < NDIRECT)
    <3>1. /\ Pos(bn) = bn + 1 /\ ~(bn + 1 <= NDIRECT) /\ ~(0 >= bn + 1)
          /\ (bn + 1) - NDIRECT - 1 = bn - NDIRECT
      BY <1>4, <2>2, Sizes DEF Pos
    <3>2. Now[i][bn + 1] = IF addrs[i][NDIRECT] = 0 THEN 0 ELSE data[addrs[i][NDIRECT]][bn - NDIRECT]
      BY <1>5, <1>8, <3>1, Zenon DEF Now, Slots
    <3> QED
      BY <1>7, <2>2, <3>1, <3>2, Zenon
  <2> QED
    BY <2>1, <2>2, Zenon
<1>11. b \in Block /\ data[b][w] = written[i][o]
  BY <1>7, <1>9, <1>10, Zenon
<1> QED
  BY <1>11, Zenon DEF bn, w

(* BlocksAccounted counts slots: the places of the inodes are the slots that *)
(* name a block.                                                            *)
LEMMA PlacesAreSlots ==
  ASSUME Inv, NEW x
  PROVE  x \in UNION {Places(i) : i \in Inode}
           <=> \E i \in Inode, k \in Index : Now[i][k] # 0 /\ x = <<i, k, Now[i][k]>>
<1>1. Types /\ DiskType(used, data, addrs)
  BY Zenon DEF Inv, OnDisk, Consistent
<1>2. ASSUME NEW i \in Inode
      PROVE  x \in Places(i) <=> \E k \in Index : Now[i][k] # 0 /\ x = <<i, k, Now[i][k]>>
  <2> DEFINE ind == addrs[i][NDIRECT]
  <2>1. ind \in Address /\ (ind \notin Block <=> ind = 0)
    <3>1. NDIRECT \in 0 .. NDIRECT
      BY Sizes
    <3>2. ind \in 0 .. NB
      BY <1>1, <3>1, Zenon DEF DiskType, Address
    <3> QED
      BY <3>2, Sizes, SMTT(30) DEF Address
  <2>2. Freed(i) \in Nat /\ Gone[i] = Freed(i)
    BY <1>1, ReachType, Zenon DEF Gone
  <2>3. \A k \in 0 .. NDIRECT : k \in Index /\ Now[i][k] = addrs[i][k]
    BY Sizes DEF Now, Slots, Index
  <2>4. ASSUME NEW k \in 0 .. NINDIRECT - 1
        PROVE  /\ NDIRECT + 1 + k \in Index
               /\ Now[i][NDIRECT + 1 + k] =
                    IF ind = 0 \/ ~(Freed(i) <= NDIRECT + k) THEN 0 ELSE data[ind][k]
    <3>1. /\ NDIRECT + 1 + k \in Index /\ ~(NDIRECT + 1 + k <= NDIRECT)
          /\ (NDIRECT + 1 + k) - NDIRECT - 1 = k
          /\ Freed(i) >= NDIRECT + 1 + k <=> ~(Freed(i) <= NDIRECT + k)
      BY <2>2, Sizes DEF Index, NINDIRECT
    <3> QED
      BY <2>2, <3>1, Zenon DEF Now, Slots
  <2>5. \A k \in Index : k \notin 0 .. NDIRECT => \E l \in 0 .. NINDIRECT - 1 : k = NDIRECT + 1 + l
    <3> SUFFICES ASSUME NEW k \in Index, k \notin 0 .. NDIRECT
                 PROVE  \E l \in 0 .. NINDIRECT - 1 : k = NDIRECT + 1 + l
      BY Zenon
    <3>1. k - NDIRECT - 1 \in 0 .. NINDIRECT - 1 /\ k = NDIRECT + 1 + (k - NDIRECT - 1)
      BY Sizes DEF Index, NINDIRECT
    <3> QED
      BY <3>1, Zenon
  <2>6. ASSUME x \in Places(i) PROVE \E k \in Index : Now[i][k] # 0 /\ x = <<i, k, Now[i][k]>>
    <3>1. CASE \E k \in 0 .. NDIRECT : addrs[i][k] # 0 /\ x = <<i, k, addrs[i][k]>>
      BY <2>3, <3>1, Zenon
    <3>2. CASE /\ ind \in Block
               /\ \E k \in 0 .. NINDIRECT - 1 :
                    /\ data[ind][k] # 0 /\ Freed(i) <= NDIRECT + k
                    /\ x = <<i, NDIRECT + 1 + k, data[ind][k]>>
      BY <2>1, <2>4, <3>2, Zenon
    <3> QED
      BY <2>6, <3>1, <3>2, Zenon DEF Places
  <2>7. ASSUME NEW k \in Index, Now[i][k] # 0, x = <<i, k, Now[i][k]>> PROVE x \in Places(i)
    <3>1. CASE k \in 0 .. NDIRECT
      BY <2>3, <2>7, <3>1, Zenon DEF Places
    <3>2. CASE k \notin 0 .. NDIRECT
      <4>1. PICK l \in 0 .. NINDIRECT - 1 : k = NDIRECT + 1 + l
        BY <2>5, <3>2, Zenon
      <4>2. /\ ind \in Block /\ Freed(i) <= NDIRECT + l /\ Now[i][k] = data[ind][l]
        BY <2>1, <2>4, <2>7, <4>1, Zenon
      <4> QED
        BY <2>7, <4>1, <4>2, Zenon DEF Places
    <3> QED
      BY <3>1, <3>2, Zenon
  <2> QED
    BY <2>6, <2>7, Zenon
<1> QED
  BY <1>2, Zenon

(* A chunk of filewrite() touches at most K + 1 blocks, of which K may be    *)
(* new, where its transaction has room for 2 * K + 4.                       *)
LEMMA ChunkSpan ==
  ASSUME NEW o \in Nat, NEW n \in Nat, n <= MaxChunk
  PROVE  \E K \in Nat :
           /\ 2 * K + 4 <= MAXOPBLOCKS /\ First(o) \in Nat /\ FirstNew(o) \in Nat
           /\ Final(o, n) \in Int /\ Final(o, n) < First(o) + (K + 1)
           /\ Final(o, n) < FirstNew(o) + K
<1> DEFINE K == (MAXOPBLOCKS - 1 - 1 - 2) \div 2
           F == o \div BSIZE
           r == o % BSIZE
           y == o + n - 1
           L == y \div BSIZE
           s == y % BSIZE
<1>1. K \in Nat /\ 2 * K + 4 <= MAXOPBLOCKS
  BY Sizes
<1>2. F \in Nat /\ r \in Word /\ Offset(F, r) = o
  BY Within, Zenon
<1>3. BSIZE \in Nat \ {0} /\ 0 \in Word
  BY Sizes DEF Word
<1>4. L \in Int /\ s \in 0 .. BSIZE - 1 /\ y = BSIZE * L + s
  <2>1. y \in Int
    OBVIOUS
  <2> HIDE DEF y
  <2> QED
    BY <1>3, <2>1
<1>5. n <= K * BSIZE
  BY Zenon DEF MaxChunk
<1>6. First(o) = F /\ Final(o, n) = L /\ FirstNew(o) = IF r = 0 THEN F ELSE F + 1
  BY Zenon DEF First, Final, FirstNew
<1>7. y \in Int /\ y = o + n - 1
  OBVIOUS
<1> HIDE DEF K, F, r, y, L, s
<1>8. Offset(F, r) = Offset(F, 0) + r /\ Offset(F, 0) \in Nat /\ r \in 0 .. BSIZE - 1
  BY <1>2, Order, Zenon DEF Word
<1>9. F + K \in Nat /\ Offset(F + K, 0) = Offset(F, 0) + K * BSIZE /\ K * BSIZE \in Nat
  <2>1. (F + K) * BSIZE + 0 = F * BSIZE + 0 + K * BSIZE
    BY <1>1, <1>2, <1>3
  <2> QED
    BY <1>1, <1>2, <1>3, <2>1 DEF Offset
<1>10. CASE L < 0
  BY <1>1, <1>2, <1>4, <1>6, <1>8, <1>10
<1>11. CASE ~(L < 0)
  <2>1. L \in Nat /\ Offset(L, 0) = BSIZE * L
    BY <1>3, <1>4, <1>11, SMTT(30) DEF Offset
  <2>2. Offset(L, 0) \in Nat /\ Offset(F + K, 0) \in Nat
    BY <1>3, <1>9, <2>1, Order, Zenon
  <2>3. Offset(L, 0) <= o + n - 1
    BY <1>4, <1>7, <2>1, <2>2
  <2>4. F + K < L => Offset(F + K, 0) + BSIZE <= Offset(L, 0)
    BY <1>3, <1>9, <2>1, Order, Zenon
  <2> DEFINE X == K * BSIZE
             Y == Offset(F + K, 0)
             Z == Offset(L, 0)
             W == Offset(F, 0)
  <2>5. /\ X \in Nat /\ Y \in Nat /\ Z \in Nat /\ W \in Nat /\ Y = W + X /\ o = W + r /\ n <= X
        /\ Z <= o + n - 1 /\ (F + K < L => Y + BSIZE <= Z) /\ (F + K = L => Y = Z)
    BY <1>2, <1>5, <1>8, <1>9, <2>2, <2>3, <2>4, Zenon
  <2> HIDE DEF X, Y, Z, W
  <2>6. ~(F + K < L)
    BY <1>3, <1>8, <2>5, SMTT(30)
  <2>7. r = 0 => F + K # L
    BY <2>5
  <2> QED
    BY <1>1, <1>2, <1>6, <1>9, <2>1, <2>6, <2>7, SMTT(30)
<1> QED
  BY <1>10, <1>11, Zenon

-----------------------------------------------------------------------------
(* The theorems, with what the library says of finite sets.  It comes in    *)
(* here only: the provers are slower where it is in sight.                  *)
INSTANCE FiniteSetTheorems

(* A set of numbers that is not empty has a least element. *)
LEMMA Least == Wellordered
<1> SUFFICES ASSUME NEW S \in SUBSET Nat, S # {}
             PROVE  \E m \in S : \A n \in S : m <= n
  BY Zenon DEF Wellordered
<1>1. PICK m \in S : \A e \in S : <<e, m>> \notin OpToRel(<, Nat)
  BY NatLessThanWellFounded, WFMin, Zenon
<1>2. \A e \in S : ~(e < m)
  BY <1>1, Zenon DEF OpToRel
<1> QED
  BY <1>2

(* Inv is an invariant. *)
THEOREM Invariant ==
  ASSUME ImageConsistent
  PROVE  Spec => []Inv
<1>0. Wellordered
  BY Least, Zenon
<1>1. Init => Inv
  BY InitInv, Zenon
<1>2. Inv /\ [Next]_vars => Inv'
  BY <1>0, NextInv, Zenon
<1> QED
  BY <1>1, <1>2, PTL DEF Spec

(* OffsetStable for every instance: no step moves the offset of an open file *)
(* that a writei() is using, since filewrite() and fileread() read it and    *)
(* add to it under the inode's lock.                                         *)
THEOREM OffsetsStable ==
  ASSUME ImageConsistent
  PROVE  Spec => []OffsetStable
<1>1. Inv => OffsetStable
  BY Zenon DEF Inv, Transfers, Transfer, OffsetStable
<1> QED
  BY <1>1, Invariant, PTL

(* ReadsBack for every instance: between transfers and truncations every   *)
(* word below the size of a file is the last one written at its offset, or *)
(* torn by a later copy that failed, in a block that is allocated to the   *)
(* file; the one exception is the block mkfs may leave out of the root.    *)
THEOREM FilesReadBack ==
  ASSUME ImageConsistent
  PROVE  Spec => []ReadsBack
<1>1. Inv => ReadsBack
  BY ReadsInv, Zenon
<1> QED
  BY <1>1, Invariant, PTL

(* The invariant implies BlocksAccounted: the places and the used blocks *)
(* are in bijection.                                                     *)
LEMMA AccountedInv ==
  ASSUME Inv
  PROVE  BlocksAccounted
<1> DEFINE places == UNION {Places(i) : i \in Inode}
<1>1. Accounted(used, Now) /\ used \in SUBSET Block
  BY Zenon DEF Inv, OnDisk, Consistent, DiskType, Now
<1>2. \A x : x \in places <=> \E i \in Inode, k \in Index : Now[i][k] # 0 /\ x = <<i, k, Now[i][k]>>
  BY PlacesAreSlots, Zenon
<1> HIDE DEF places
<1>3. 0 \notin used
  BY <1>1, Sizes, Zenon
<1>4. \A x \in places : x[3] \in used
  BY <1>1, <1>2, SMTT(30) DEF Accounted
<1>5. \A x, y \in places : x[3] = y[3] => x = y
  BY <1>1, <1>2, SMTT(30) DEF Accounted
<1>6. \A b \in used : \E x \in places : x[3] = b
  <2> SUFFICES ASSUME NEW b \in used PROVE \E x \in places : x[3] = b
    BY Zenon
  <2>1. PICK i \in Inode, k \in Index : Now[i][k] = b
    BY <1>1, Zenon DEF Accounted
  <2>2. <<i, k, Now[i][k]>> \in places
    BY <1>2, <1>3, <2>1, Zenon
  <2> QED
    BY <2>1, <2>2, Zenon
<1>7. {x[3] : x \in places} = used
  BY <1>4, <1>6, Zenon
<1>8. IsFiniteSet(used)
  <2>1. IsFiniteSet(1 .. NB)
    BY Sizes, FS_Interval, SMTT(30)
  <2> QED
    BY <1>1, <2>1, Sizes, FS_Subset, Zenon
<1>9. ExistsBijection(used, places)
  <2> DEFINE f == [b \in used |-> CHOOSE x \in places : x[3] = b]
  <2>1. \A b \in used : f[b] \in places /\ f[b][3] = b
    BY <1>6, Zenon
  <2>2. f \in [used -> places]
    BY <2>1, Zenon
  <2> HIDE DEF f
  <2>3. \A b, c \in used : f[b] = f[c] => b = c
    BY <2>1, Zenon
  <2>4. \A x \in places : \E b \in used : f[b] = x
    BY <1>4, <1>5, <2>1, Zenon
  <2> QED
    BY <2>2, <2>3, <2>4, Zenon
       DEF ExistsBijection, Bijection, Injection, IsInjective, Surjection
<1>10. Cardinality(places) = Cardinality(used)
  BY <1>8, <1>9, FS_Bijection, Zenon
<1> QED
  BY <1>7, <1>10, Zenon DEF BlocksAccounted, places

(* BlocksAccounted for every instance: balloc(), bmap(), writei() and      *)
(* itrunc() keep the bitmap exact, also when the disk is full, when a copy *)
(* fails, and in the middle of a truncation.                               *)
THEOREM BitmapAlwaysExact ==
  ASSUME ImageConsistent
  PROVE  Spec => []BlocksAccounted
<1>1. Inv => BlocksAccounted
  BY AccountedInv, Zenon
<1> QED
  BY <1>1, Invariant, PTL

(* N consecutive numbers name at most N elements of X. *)
NamedBy(lo, hi, N, f, X) ==
  /\ lo \in Int /\ hi \in Int /\ N \in Nat /\ hi < lo + N
  /\ \A x \in X : \E k \in lo .. hi : x = f[k]

(* So there are at most N. *)
LEMMA Few ==
  ASSUME NEW lo, NEW hi, NEW N, NEW f, NEW X, NamedBy(lo, hi, N, f, X)
  PROVE  IsFiniteSet(X) /\ Cardinality(X) <= N
<1> DEFINE J == {k \in lo .. hi : f[k] \in X}
           g == [k \in J |-> f[k]]
<1>0. /\ lo \in Int /\ hi \in Int /\ N \in Nat /\ hi < lo + N
      /\ \A x \in X : \E k \in lo .. hi : x = f[k]
  BY Zenon DEF NamedBy
<1>1. IsFiniteSet(lo .. hi) /\ Cardinality(lo .. hi) <= N
  <2>1. IsFiniteSet(lo .. hi) /\ Cardinality(lo .. hi) = IF lo > hi THEN 0 ELSE hi - lo + 1
    BY <1>0, FS_Interval, Zenon
  <2> QED
    BY <1>0, <2>1
<1>2. /\ IsFiniteSet(J) /\ Cardinality(J) <= Cardinality(lo .. hi)
      /\ Cardinality(J) \in Nat /\ Cardinality(lo .. hi) \in Nat
  <2>1. J \in SUBSET (lo .. hi)
    BY Zenon
  <2> HIDE DEF J
  <2>2. IsFiniteSet(J) /\ Cardinality(J) <= Cardinality(lo .. hi)
    BY <1>1, <2>1, FS_Subset, Zenon
  <2> QED
    BY <1>1, <2>2, FS_CardinalityType, Zenon
<1>3. g \in Surjection(J, X)
  BY <1>0, Zenon DEF Surjection
<1> HIDE DEF J, g
<1>4. IsFiniteSet(X) /\ Cardinality(X) <= Cardinality(J)
  BY <1>2, <1>3, FS_Surjection, Zenon
<1>5. Cardinality(X) \in Nat
  BY <1>4, FS_CardinalityType, Zenon
<1> QED
  BY <1>0, <1>1, <1>2, <1>4, <1>5

(* A union has no more elements than its parts. *)
LEMMA Together ==
  ASSUME NEW S, NEW T, NEW m \in Nat, NEW n \in Nat,
         IsFiniteSet(S), Cardinality(S) <= m, IsFiniteSet(T), Cardinality(T) <= n
  PROVE  IsFiniteSet(S \cup T) /\ Cardinality(S \cup T) <= m + n
<1>1. /\ IsFiniteSet(S \cup T)
      /\ Cardinality(S \cup T) = Cardinality(S) + Cardinality(T) - Cardinality(S \cap T)
  BY FS_Union, Zenon
<1>2. IsFiniteSet(S \cap T)
  BY FS_Intersection, Zenon
<1>3. Cardinality(S) \in Nat /\ Cardinality(T) \in Nat /\ Cardinality(S \cap T) \in Nat
  BY <1>2, FS_CardinalityType, Zenon
<1> QED
  BY <1>1, <1>3

(* The blocks in MayLog are at most MAXOPBLOCKS, with the inode's. *)
LEMMA MayLogBound ==
  ASSUME NEW s, NEW o \in Nat, NEW n \in Nat, n <= MaxChunk, NEW i, NEW L,
         L \subseteq MayLog(s, o, n) \cup {i}
  PROVE  Cardinality(L) <= MAXOPBLOCKS
<1>1. PICK K \in Nat :
           /\ 2 * K + 4 <= MAXOPBLOCKS /\ First(o) \in Nat /\ FirstNew(o) \in Nat
           /\ Final(o, n) \in Int /\ Final(o, n) < First(o) + (K + 1)
           /\ Final(o, n) < FirstNew(o) + K
  BY ChunkSpan, ZenonT(30)
<1> DEFINE lo == First(o)
           mid == FirstNew(o)
           hi == Final(o, n)
           B == {<<"block", b>> : b \in Touched(s, lo, hi)}
           M == {BBLOCK(b) : b \in Touched(s, mid, hi)}
           I == Marks(s[NDIRECT])
           f == [k \in lo .. hi |-> <<"block", s[Pos(k)]>>]
           g == [k \in mid .. hi |-> BBLOCK(s[Pos(k)])]
<1>2. MayLog(s, o, n) = B \cup M \cup I
  BY Zenon DEF MayLog
<1>3. \A x \in B : \E k \in lo .. hi : x = f[k]
  BY Zenon DEF Touched
<1>4. \A x \in M : \E k \in mid .. hi : x = g[k]
  BY Zenon DEF Touched
<1>5. IsFiniteSet(I) /\ Cardinality(I) <= 2
  <2> DEFINE a == BBLOCK(s[NDIRECT])
             b == <<"block", s[NDIRECT]>>
  <2>1. I = {} \/ I = {a} \cup {b}
    BY Zenon DEF Marks
  <2> HIDE DEF I, a, b
  <2>2. IsFiniteSet({}) /\ Cardinality({}) = 0
    BY FS_EmptySet, Zenon
  <2>3. IsFiniteSet({a}) /\ Cardinality({a}) = 1
    BY FS_Singleton, Zenon
  <2>4. IsFiniteSet({a} \cup {b}) /\ Cardinality({a} \cup {b}) <= 2
    BY <2>3, FS_AddElement, SMTT(30)
  <2> QED
    BY <2>1, <2>2, <2>4
<1>6. lo \in Int /\ mid \in Int /\ hi \in Int /\ hi < lo + (K + 1) /\ hi < mid + K /\ K + 1 \in Nat
  BY <1>1, SMTT(30)
<1>7. K \in Nat /\ 2 * K + 4 <= MAXOPBLOCKS
  BY <1>1, Zenon
<1> HIDE DEF lo, mid, hi, B, M, I, f, g
<1>8. IsFiniteSet(B) /\ Cardinality(B) <= K + 1
  <2>1. NamedBy(lo, hi, K + 1, f, B)
    BY <1>3, <1>6, Zenon DEF NamedBy
  <2> QED
    BY <2>1, Few, Zenon
<1>9. IsFiniteSet(M) /\ Cardinality(M) <= K
  <2>1. NamedBy(mid, hi, K, g, M)
    BY <1>4, <1>6, <1>7, Zenon DEF NamedBy
  <2> QED
    BY <2>1, Few, Zenon
<1>10. IsFiniteSet(B \cup M) /\ Cardinality(B \cup M) <= (K + 1) + K
  BY <1>6, <1>8, <1>9, Together, ZenonT(30)
<1> DEFINE BM == B \cup M
           k == (K + 1) + K
<1>11. k \in Nat /\ IsFiniteSet(BM) /\ Cardinality(BM) <= k
  BY <1>6, <1>10, SMTT(30)
<1>12. MayLog(s, o, n) = BM \cup I
  BY <1>2, Zenon
<1>13. k + 2 + 1 <= MAXOPBLOCKS
  BY <1>7, SMTT(30)
<1> HIDE DEF BM, k
<1>14. IsFiniteSet(BM \cup I) /\ Cardinality(BM \cup I) <= k + 2
  BY <1>5, <1>11, Together, Zenon
<1>15. /\ IsFiniteSet(MayLog(s, o, n) \cup {i})
       /\ Cardinality(MayLog(s, o, n) \cup {i}) <= k + 2 + 1
  <2> DEFINE S == MayLog(s, o, n)
  <2>1. IsFiniteSet(S) /\ Cardinality(S) <= k + 2
    BY <1>12, <1>14, Zenon
  <2> HIDE DEF S
  <2>2. IsFiniteSet(S \cup {i}) /\ Cardinality(S \cup {i}) <= Cardinality(S) + 1 /\ Cardinality(S) \in Nat
    <3>1. Cardinality(S) \in Nat
      BY <2>1, FS_CardinalityType, Zenon
    <3>2. /\ IsFiniteSet(S \cup {i})
          /\ Cardinality(S \cup {i}) = IF i \in S THEN Cardinality(S) ELSE Cardinality(S) + 1
      BY <2>1, FS_AddElement, Zenon
    <3> QED
      BY <3>1, <3>2
  <2>3. Cardinality(S \cup {i}) \in Nat
    BY <2>2, FS_CardinalityType, Zenon
  <2>4. IsFiniteSet(S \cup {i}) /\ Cardinality(S \cup {i}) <= k + 2 + 1
    BY <1>11, <2>1, <2>2, <2>3, SMTT(30)
  <2> QED
    BY <2>4, Zenon DEF S
<1> DEFINE S == MayLog(s, o, n) \cup {i}
<1>16. IsFiniteSet(S) /\ Cardinality(S) <= k + 2 + 1 /\ L \in SUBSET S
  BY <1>15, Zenon
<1> HIDE DEF S
<1>17. IsFiniteSet(L) /\ Cardinality(L) <= Cardinality(S)
  BY <1>16, FS_Subset, Zenon
<1>18. Cardinality(L) \in Nat /\ Cardinality(S) \in Nat
  BY <1>16, <1>17, FS_CardinalityType, Zenon
<1> QED
  BY <1>11, <1>13, <1>16, <1>17, <1>18, Sizes, SMTT(30)

(* The invariant implies WithinReservation. *)
LEMMA ReservationInv ==
  ASSUME Inv
  PROVE  WithinReservation
<1> SUFFICES ASSUME NEW p \in Proc, op[p].pc \in Transfer
             PROVE  Cardinality(op[p].logged \cup {<<"inode", Ip(p)>>}) <= MAXOPBLOCKS
  BY Zenon DEF WithinReservation, Transfer
<1> DEFINE s == Now[Ip(p)]
           o == op[p].off
           n == op[p].n1
           i == <<"inode", Ip(p)>>
           L == op[p].logged \cup {i}
<1>1. o \in Nat /\ n \in Nat
  BY Zenon DEF Inv, Types, OpType
<1>2. n <= MaxChunk
  BY Zenon DEF Inv, Transfers
<1>3. L \subseteq MayLog(s, o, n) \cup {i}
  BY Zenon DEF Inv, Logs, May
<1> HIDE DEF s, o, n, i, L
<1>4. Cardinality(L) <= MAXOPBLOCKS
  BY <1>1, <1>2, <1>3, MayLogBound, Zenon
<1> QED
  BY <1>4, Zenon DEF i, L

(* WithinReservation for every instance: a chunk of filewrite() logs at    *)
(* most MAXOPBLOCKS blocks, wherever it starts and however its blocks fall *)
(* on the bitmap.                                                          *)
THEOREM ChunksFitReservation ==
  ASSUME ImageConsistent
  PROVE  Spec => []WithinReservation
<1>1. Inv => WithinReservation
  BY ReservationInv, Zenon
<1> QED
  BY <1>1, Invariant, PTL
=============================================================================
