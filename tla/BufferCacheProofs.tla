-------------------------- MODULE BufferCacheProofs --------------------------
(***************************************************************************)
(* The properties of BufferCache for any processes, buffers and blocks.    *)
(*                                                                         *)
(* The reference counts are exact because a block has one buffer (Cached   *)
(* once, kept while counted); a reader sees the latest value because a     *)
(* buffer that is valid holds it, and a block whose buffer is not valid    *)
(* has it on disk.                                                         *)
(***************************************************************************)
EXTENDS BufferCache, FiniteSetTheorems, WellFoundedInduction, TLAPS

Label == {"idle", "bget", "read", "have", "dirty", "written", "brelse"}

(* The lines between acquiresleep() and releasesleep(), and those of them   *)
(* at which bread() has returned.                                           *)
Holding == {"read", "have", "dirty", "written"}
Having == {"have", "dirty", "written"}

Types ==
  /\ blockno \in [Buf -> Block \cup {None}] /\ valid \in [Buf -> BOOLEAN]
  /\ refcnt \in [Buf -> Nat] /\ data \in [Buf -> Val]
  /\ holder \in [Buf -> User \cup {None}] /\ asleep \in [User -> Buf \cup {None}]
  /\ disk \in [Block -> Val] /\ latest \in [Block -> Val]
  /\ pc \in [User -> Label] /\ want \in [User -> Block \cup {None}] /\ b \in [User -> Buf \cup {None}]
  /\ pinned \in SUBSET Block

(* Every buffer is on the list; the log has its limit. *)
List == lru \in [1 .. Cardinality(Buf) -> Buf] /\ \A x \in Buf : \E i \in DOMAIN lru : lru[i] = x
Pins == IsFiniteSet(pinned) /\ Cardinality(pinned) <= MaxPins

(* A user has a buffer from bget() to brelse(), the one of its block. *)
Users ==
  \A p \in User :
    /\ pc[p] = "idle" <=> b[p] = None
    /\ pc[p] # "idle" => want[p] \in Block /\ blockno[b[p]] = want[p]

(* No two buffers cache one block; those the log has pinned are cached. *)
Buffers ==
  /\ \A x, y \in Buf : blockno[x] = blockno[y] /\ blockno[x] # None => x = y
  /\ \A n \in pinned : \E x \in Buf : blockno[x] = n /\ valid[x]

(* The references to x: by users and by the log. *)
ByUser(x) == {p \in User : b[p] = x}
ByLog(x) == {n \in pinned : blockno[x] = n}
Counts == \A x \in Buf : refcnt[x] = Cardinality(ByUser(x)) + Cardinality(ByLog(x))

(* A buffer's lock is held by the process between acquiresleep() and        *)
(* releasesleep(); who sleeps on it waits in bget().                        *)
Locks ==
  /\ \A p \in User : pc[p] \in Holding => holder[b[p]] = p
  /\ \A x \in Buf : holder[x] # None => b[holder[x]] = x /\ pc[holder[x]] \in Holding
  /\ \A p \in User : asleep[p] # None =>
       pc[p] = "bget" /\ asleep[p] = b[p] /\ holder[b[p]] # None

(* A valid buffer has the latest value; where no log record and no change   *)
(* under way stands for it, the disk has it.                                *)
Valid ==
  /\ \A x \in Buf : valid[x] => blockno[x] \in Block /\ data[x] = latest[blockno[x]]
  /\ \A p \in User : pc[p] \in Having => valid[b[p]]
  /\ \A p \in User : pc[p] = "read" => ~valid[b[p]]

Changing(n) == \E p \in User : want[p] = n /\ pc[p] = "dirty"

OnDisk ==
  /\ \A p \in User : pc[p] = "written" => disk[want[p]] = latest[want[p]]
  /\ \A n \in Block : n \in pinned \/ Changing(n) \/ disk[n] = latest[n]

Contents == Valid /\ OnDisk

Inv == Types /\ List /\ Pins /\ Users /\ Buffers /\ Counts /\ Locks /\ Contents

-----------------------------------------------------------------------------
(* The references to a buffer are finite sets. *)
LEMMA FiniteUsers ==
  ASSUME BufferCacheAssumption
  PROVE  IsFiniteSet(User)
<1>1. IsFiniteSet({1} \cup {2})
  BY FS_Singleton, FS_AddElement, Zenon
<1>2. {1, 2} = {1} \cup {2}
  BY Zenon
<1> QED
  BY <1>1, <1>2, FS_Product, Zenon DEF BufferCacheAssumption, User

LEMMA Finite ==
  ASSUME BufferCacheAssumption, Inv, NEW x \in Buf
  PROVE  /\ IsFiniteSet(ByUser(x)) /\ Cardinality(ByUser(x)) \in Nat
         /\ IsFiniteSet(ByLog(x)) /\ Cardinality(ByLog(x)) \in Nat
<1>1. ByUser(x) \in SUBSET User /\ ByLog(x) \in SUBSET pinned
  BY Zenon DEF ByUser, ByLog
<1>2. IsFiniteSet(ByUser(x)) /\ IsFiniteSet(ByLog(x))
  BY <1>1, FiniteUsers, FS_Subset, Zenon DEF Inv, Pins
<1> QED
  BY <1>2, FS_CardinalityType, Zenon

(* The log refers to the buffer of each pinned block, once. *)
LEMMA PinsCount ==
  ASSUME NEW x \in Buf
  PROVE  Cardinality(ByLog(x)) = IF blockno[x] \in pinned THEN 1 ELSE 0
<1>1. CASE blockno[x] \in pinned
  <2>1. ByLog(x) = {blockno[x]}
    BY <1>1, Zenon DEF ByLog
  <2> QED
    BY <1>1, <2>1, FS_Singleton, Zenon
<1>2. CASE blockno[x] \notin pinned
  <2>1. ByLog(x) = {}
    BY <1>2, Zenon DEF ByLog
  <2> QED
    BY <1>2, <2>1, FS_EmptySet, Zenon
<1> QED
  BY <1>1, <1>2, Zenon

(* A buffer whose refcnt is 0 is nobody's, and its block is not pinned. *)
LEMMA Unreferenced ==
  ASSUME BufferCacheAssumption, Inv, NEW x \in Buf, refcnt[x] = 0
  PROVE  (\A p \in User : b[p] # x) /\ blockno[x] \notin pinned
<1>1. Cardinality(ByUser(x)) = 0 /\ Cardinality(ByLog(x)) = 0
  BY Finite DEF Inv, Counts
<1>2. ByUser(x) = {} /\ ByLog(x) = {}
  BY <1>1, Finite, FS_EmptySet, Zenon DEF Inv
<1> QED
  BY <1>2, Zenon DEF ByUser, ByLog

(* A process that refers to a buffer is counted. *)
LEMMA Referenced ==
  ASSUME BufferCacheAssumption, Inv, NEW p \in User, b[p] \in Buf
  PROVE  refcnt[b[p]] >= Cardinality(ByUser(b[p])) /\ Cardinality(ByUser(b[p])) >= 1
<1>1. p \in ByUser(b[p])
  BY Zenon DEF ByUser
<1>2. Cardinality(ByUser(b[p])) # 0
  BY <1>1, Finite, FS_EmptySet, Zenon DEF Inv
<1> QED
  BY <1>2, Finite DEF Inv, Counts

(* A non-empty set of positions has a last one. *)
LEMMA HasLast ==
  ASSUME NEW N \in Nat, NEW S \in SUBSET (1 .. N), S # {}
  PROVE  \E i \in S : \A j \in S : j <= i
<1> DEFINE T == {N - i : i \in S}
<1>1. T \subseteq Nat /\ T # {}
  <2>1. \A i \in S : N - i \in Nat
    OBVIOUS
  <2> QED
    BY <2>1, Zenon
<1>2. PICK d \in T : \A c \in T : ~ (<<c, d>> \in OpToRel(<, Nat))
  BY <1>1, NatLessThanWellFounded, WFMin, Zenon
<1>3. \A c \in T : ~(c < d)
  BY <1>1, <1>2, Zenon DEF OpToRel
<1>4. PICK i \in S : d = N - i
  BY Zenon
<1>5. \A j \in S : j <= i
  BY <1>3, <1>4
<1> QED
  BY <1>5, Zenon

(* The buffer bget() recycles is one that nobody refers to. *)
LEMMA VictimFree ==
  ASSUME BufferCacheAssumption, Inv, Unused # {}
  PROVE  Victim \in Buf /\ refcnt[Victim] = 0
<1>1. Cardinality(Buf) \in Nat
  BY FS_CardinalityType, Zenon DEF BufferCacheAssumption
<1>2. Unused \in SUBSET (1 .. Cardinality(Buf))
  BY Zenon DEF Inv, List, Unused
<1>3. \E i \in Unused : \A j \in Unused : j <= i
  BY <1>1, <1>2, HasLast, Zenon
<1> DEFINE i == CHOOSE i \in Unused : \A j \in Unused : j <= i
<1>4. i \in Unused
  BY <1>3, Zenon
<1> HIDE DEF i
<1>5. lru[i] \in Buf /\ refcnt[lru[i]] = 0
  BY <1>4, Zenon DEF Unused, Inv, List
<1> QED
  BY <1>5, Zenon DEF Victim, i

-----------------------------------------------------------------------------
(* binit() leaves every buffer unused. *)
LEMMA InitInv ==
  ASSUME BufferCacheAssumption, Init
  PROVE  Inv
<1>1. Types /\ List
  BY Zenon DEF Init, BufferCacheAssumption, Types, List, Label, SL!initsleeplock
<1>4. Pins
  BY FS_EmptySet DEF Init, BufferCacheAssumption, Pins
<1>2. Users /\ Buffers /\ Locks /\ Contents
  BY Zenon
     DEF Init, BufferCacheAssumption, Users, Buffers, Locks, Contents, Valid, OnDisk, Holding, Having,
         SL!initsleeplock
<1>3. Counts
  <2> SUFFICES ASSUME NEW x \in Buf PROVE refcnt[x] = Cardinality(ByUser(x)) + Cardinality(ByLog(x))
    BY Zenon DEF Counts
  <2>1. ByUser(x) = {} /\ ByLog(x) = {} /\ refcnt[x] = 0
    BY Zenon DEF Init, BufferCacheAssumption, ByUser, ByLog
  <2> QED
    BY <2>1, FS_EmptySet
<1> QED
  BY <1>1, <1>2, <1>3, <1>4, Zenon DEF Inv

(* What does not change leaves Inv alone. *)
LEMMA Stutter ==
  ASSUME Inv, UNCHANGED <<bufs, locks, disk, procs, pinned, latest>>
  PROVE  Inv'
<1>1. Types' /\ List' /\ Pins' /\ Users' /\ Buffers' /\ Locks' /\ Contents'
  BY
     DEF Inv, Types, List, Pins, Users, Buffers, Locks, Contents, Valid, OnDisk, Changing, bufs, locks, procs
<1>2. Counts'
  BY Zenon DEF Inv, Counts, ByUser, ByLog, bufs, procs
<1> QED
  BY <1>1, <1>2, Zenon DEF Inv

(* Steps that move no reference leave the counts alone. *)
LEMMA SameCounts ==
  ASSUME Inv, UNCHANGED <<blockno, refcnt, b, pinned>>
  PROVE  Counts'
  BY Zenon DEF Inv, Counts, ByUser, ByLog

(* Few steps move a buffer or a pin. *)
LEMMA SameList ==
  ASSUME Inv, UNCHANGED lru
  PROVE  List'
  BY Zenon DEF Inv, List

LEMMA SamePins ==
  ASSUME Inv, UNCHANGED pinned
  PROVE  Pins'
  BY Zenon DEF Inv, Pins

-----------------------------------------------------------------------------
(* bget() of a cached block counts the caller. *)
LEMMA HitStep ==
  ASSUME BufferCacheAssumption, Inv, NEW p \in User, NEW n \in Block, bget_hit(p, n)
  PROVE  Inv'
<1>1. PICK x \in Cached(n) : refcnt' = [refcnt EXCEPT ![x] = @ + 1] /\ Got(p, n, x)
  BY Zenon DEF bget_hit
<1>2. x \in Buf /\ blockno[x] = n /\ pc[p] = "idle" /\ b[p] = None
  BY <1>1, Zenon DEF Cached, bget_hit, Inv, Users
<1>3. Types'
  BY <1>1, <1>2 DEF bget_hit, Got, Inv, Types, Label, locks
<1>4. Users' /\ Buffers'
  BY <1>1, <1>2 DEF bget_hit, Got, Inv, Types, Users, Buffers, BufferCacheAssumption
<1>7. Valid'
  BY <1>1, <1>2 DEF bget_hit, Got, Inv, Types, Users, Contents, Valid, Having
<1>8. OnDisk'
  <2>1. \A m \in Block : Changing(m) => Changing(m)'
    BY <1>1, <1>2, Zenon DEF Changing, Got, Inv, Types
  <2> QED
    BY <1>1, <1>2, <2>1 DEF bget_hit, Got, Inv, Types, Contents, OnDisk
<1>5. Locks'
  BY <1>1, <1>2
     DEF bget_hit, Got, Inv, Types, Users, Locks, Holding, locks, BufferCacheAssumption
<1>6. Counts'
  <2> SUFFICES ASSUME NEW y \in Buf
               PROVE  refcnt'[y] = Cardinality(ByUser(y)') + Cardinality(ByLog(y)')
    BY Zenon DEF Counts
  <2>1. ByLog(y)' = ByLog(y)
    BY Zenon DEF ByLog, bget_hit
  <2>2. ByUser(y)' = IF y = x THEN ByUser(y) \cup {p} ELSE ByUser(y)
    BY <1>1, <1>2 DEF ByUser, Got, Inv, Types, BufferCacheAssumption
  <2>3. p \notin ByUser(y)
    BY <1>2, Zenon DEF ByUser, BufferCacheAssumption
  <2>4. Cardinality(ByUser(y)') = IF y = x THEN Cardinality(ByUser(y)) + 1 ELSE Cardinality(ByUser(y))
    BY <2>2, <2>3, Finite, FS_AddElement, Zenon DEF Inv
  <2>5. refcnt'[y] = IF y = x THEN refcnt[y] + 1 ELSE refcnt[y]
    BY <1>1, <1>2, Zenon DEF Inv, Types
  <2> QED
    BY <2>1, <2>4, <2>5, Finite DEF Inv, Counts
<1> QED
  BY <1>3, <1>4, <1>5, <1>6, <1>7, <1>8, SameList, SamePins, Zenon
     DEF Inv, Contents, bget_hit

(* bget() of a block that is not cached takes a buffer nobody refers to, so *)
(* that the block it held is neither in use nor pinned.                     *)
LEMMA MissStep ==
  ASSUME BufferCacheAssumption, Inv, NEW p \in User, NEW n \in Block, bget_miss(p, n)
  PROVE  Inv'
<1>1. CASE Unused = {}
  BY <1>1, Stutter, Zenon DEF bget_miss, bufs, locks, procs
<1>2. CASE Unused # {}
  <2> DEFINE x == Victim
  <2>1. x \in Buf /\ refcnt[x] = 0
    BY <1>2, VictimFree, Zenon
  <2>2. (\A q \in User : b[q] # x) /\ blockno[x] \notin pinned
    BY <2>1, Unreferenced, Zenon
  <2>3. /\ pc[p] = "idle" /\ b[p] = None /\ \A y \in Buf : blockno[y] # n
    BY Zenon DEF bget_miss, Cached, Inv, Users
  <2>4. /\ blockno' = [blockno EXCEPT ![x] = n] /\ valid' = [valid EXCEPT ![x] = FALSE]
        /\ refcnt' = [refcnt EXCEPT ![x] = 1]
        /\ pc' = [pc EXCEPT ![p] = "bget"] /\ want' = [want EXCEPT ![p] = n]
        /\ b' = [b EXCEPT ![p] = x]
        /\ UNCHANGED <<data, lru, holder, asleep, disk, pinned, latest>>
    BY <1>2, Zenon DEF bget_miss, Got, locks
  <2> HIDE DEF x
  <2>5. Types'
    BY <2>1, <2>3, <2>4, Zenon DEF Inv, Types, Label
  <2>6. Users'
    BY <2>1, <2>2, <2>3, <2>4 DEF Inv, Types, Users, BufferCacheAssumption
  <2>7. Buffers'
    BY <2>1, <2>2, <2>3, <2>4 DEF Inv, Types, Buffers, BufferCacheAssumption
  <2>8. Locks'
    BY <2>1, <2>2, <2>3, <2>4, SMTT(30)
       DEF Inv, Types, Users, Locks, Holding, BufferCacheAssumption
  <2>9. Valid'
    BY <2>1, <2>2, <2>3, <2>4, SMTT(30) DEF Inv, Types, Users, Contents, Valid, Having
  <2>11. OnDisk'
    <3>1. \A m \in Block : Changing(m) => Changing(m)'
      BY <2>3, <2>4, Zenon DEF Changing, Inv, Types
    <3> QED
      BY <2>3, <2>4, <3>1, Zenon DEF Inv, Types, Contents, OnDisk
  <2>10. Counts'
    <3> SUFFICES ASSUME NEW y \in Buf
                 PROVE  refcnt'[y] = Cardinality(ByUser(y)') + Cardinality(ByLog(y)')
      BY Zenon DEF Counts
    <3>1. CASE y = x
      <4>1. ByUser(y)' = {p}
        BY <2>1, <2>2, <2>4, <3>1, Zenon DEF ByUser, Inv, Types
      <4>2. n \notin pinned
        BY <2>3, Zenon DEF Inv, Buffers
      <4>3. ByLog(y)' = {}
        BY <2>1, <2>4, <3>1, <4>2, Zenon DEF ByLog, Inv, Types
      <4>4. refcnt'[y] = 1
        BY <2>1, <2>4, <3>1, Zenon DEF Inv, Types
      <4>5. Cardinality(ByUser(y)') = 1 /\ Cardinality(ByLog(y)') = 0
        BY <4>1, <4>3, FS_Singleton, FS_EmptySet, Zenon
      <4> QED
        BY <4>4, <4>5
    <3>2. CASE y # x
      <4>1. ByUser(y)' = ByUser(y) /\ ByLog(y)' = ByLog(y) /\ refcnt'[y] = refcnt[y]
        BY <2>1, <2>3, <2>4, <3>2, Zenon
           DEF ByUser, ByLog, Inv, Types, BufferCacheAssumption
      <4> QED
        BY <4>1, Zenon DEF Inv, Counts
    <3> QED
      BY <3>1, <3>2, Zenon
  <2> QED
    BY <2>4, <2>5, <2>6, <2>7, <2>8, <2>9, <2>10, <2>11, SameList, SamePins, Zenon
       DEF Inv, Contents
<1> QED
  BY <1>1, <1>2, Zenon

(* acquiresleep() gives the lock to one process, which knows whether the    *)
(* buffer is valid.                                                         *)
LEMMA LockStep ==
  ASSUME BufferCacheAssumption, Inv, NEW p \in User, bget_lock(p)
  PROVE  Inv'
<1>1. pc[p] = "bget" /\ b[p] \in Buf
  BY Zenon DEF bget_lock, Inv, Users, Types
<1>2. UNCHANGED <<blockno, valid, refcnt, data, lru, disk, want, b, pinned, latest>>
  BY Zenon DEF bget_lock, bufs
<1>3. Counts'
  BY <1>2, SameCounts, Zenon
<1>4. CASE SL!acquiresleep(p, b[p]) /\ pc' = [pc EXCEPT ![p] = IF valid[b[p]] THEN "have" ELSE "read"]
  <2>1. Types' /\ Users' /\ Buffers'
    BY <1>1, <1>2, <1>4, SMTT(30) DEF Inv, Types, Users, Buffers, Label, SL!acquiresleep
  <2>2. Locks'
    BY <1>1, <1>2, <1>4, SMTT(30)
       DEF Inv, Types, Users, Locks, Holding, SL!acquiresleep, BufferCacheAssumption
  <2>3. Contents'
    <3>1. \A m \in Block : Changing(m) => Changing(m)'
      BY <1>1, <1>2, <1>4, Zenon DEF Changing, Inv, Types
    <3> QED
      BY <1>1, <1>2, <1>4, <3>1, SMTT(30)
         DEF Inv, Types, Users, Contents, Valid, OnDisk, Having
  <2> QED
    BY <1>2, <1>3, <2>1, <2>2, <2>3, SameList, SamePins, Zenon DEF Inv
<1>5. CASE SL!acquiresleep_sleep(p, b[p]) /\ UNCHANGED pc
  <2>1. Types' /\ Users' /\ Buffers' /\ Contents'
    BY <1>1, <1>2, <1>5, SMTT(30)
       DEF Inv, Types, Users, Buffers, Contents, Valid, OnDisk, Changing, Label, SL!acquiresleep_sleep
  <2>2. Locks'
    BY <1>1, <1>2, <1>5, SMTT(30)
       DEF Inv, Types, Users, Locks, Holding, SL!acquiresleep_sleep, BufferCacheAssumption
  <2> QED
    BY <1>2, <1>3, <2>1, <2>2, SameList, SamePins, Zenon DEF Inv
<1> QED
  BY <1>4, <1>5, Zenon DEF bget_lock

-----------------------------------------------------------------------------
(* A process that holds the lock of its buffer, and no other one, has it. *)
LEMMA Alone ==
  ASSUME BufferCacheAssumption, Inv, NEW p \in User, pc[p] \in Holding
  PROVE  /\ b[p] \in Buf /\ want[p] \in Block /\ blockno[b[p]] = want[p] /\ holder[b[p]] = p
         /\ \A q \in User : q # p /\ pc[q] \in Holding => b[q] # b[p] /\ want[q] # want[p]
<1>1. b[p] \in Buf /\ want[p] \in Block /\ blockno[b[p]] = want[p] /\ holder[b[p]] = p
  BY DEF Inv, Types, Users, Locks, Holding
<1>2. ASSUME NEW q \in User, q # p, pc[q] \in Holding PROVE b[q] # b[p] /\ want[q] # want[p]
  <2>1. b[q] \in Buf /\ want[q] \in Block /\ blockno[b[q]] = want[q] /\ holder[b[q]] = q
    BY <1>2 DEF Inv, Types, Users, Locks, Holding
  <2> QED
    BY <1>1, <1>2, <2>1 DEF Inv, Buffers, BufferCacheAssumption
<1> QED
  BY <1>1, <1>2, Zenon

(* Behind bread() the buffer is valid. *)
LEMMA HasValid ==
  ASSUME Inv, NEW p \in User, pc[p] \in Having
  PROVE  valid[b[p]] = TRUE
<1>1. b[p] \in Buf
  BY Zenon DEF Inv, Types, Users, Having
<1>2. Valid
  BY Zenon DEF Inv, Contents
<1>3. valid \in [Buf -> BOOLEAN]
  BY Zenon DEF Inv, Types
<1> QED
  BY <1>1, <1>2, <1>3, Zenon DEF Valid

(* bread() reads a block that has its latest value on disk: it is not       *)
(* pinned, since its buffer is not valid, and nobody else has it.           *)
LEMMA ReadStep ==
  ASSUME BufferCacheAssumption, Inv, NEW p \in User, bread(p)
  PROVE  Inv'
<1>1. pc[p] = "read" /\ pc[p] \in Holding
  BY Zenon DEF bread, Holding
<1>2. /\ b[p] \in Buf /\ want[p] \in Block /\ blockno[b[p]] = want[p] /\ holder[b[p]] = p
      /\ \A q \in User : q # p /\ pc[q] \in Holding => b[q] # b[p] /\ want[q] # want[p]
  BY <1>1, Alone, Zenon
<1>3. want[p] \notin pinned
  BY <1>1, <1>2, SMTT(30) DEF Inv, Buffers, Contents, Valid, BufferCacheAssumption
<1>4. ~Changing(want[p])
  BY <1>1, <1>2, Zenon DEF Changing, Holding
<1>5. disk[want[p]] = latest[want[p]]
  BY <1>2, <1>3, <1>4, Zenon DEF Inv, Contents, OnDisk
<1>6. Types' /\ Users'
  BY <1>1, <1>2, Zenon DEF bread, Inv, Types, Users, Label, locks
<1>7. Buffers'
  BY <1>2, Zenon DEF bread, Inv, Types, Buffers
<1>8. Locks'
  BY <1>1, <1>2 DEF bread, Inv, Types, Users, Locks, Holding, locks
<1>9. Valid'
  BY <1>1, <1>2, <1>5, SMTT(30)
     DEF bread, Inv, Types, Users, Buffers, Contents, Valid, Having, Holding
<1>10. OnDisk'
  <2>1. \A m \in Block : Changing(m) => Changing(m)'
    BY <1>1, Zenon DEF bread, Changing, Inv, Types
  <2> QED
    BY <1>1, <2>1, Zenon DEF bread, Inv, Types, Contents, OnDisk
<1> QED
  BY <1>6, <1>7, <1>8, <1>9, <1>10, SameCounts, SameList, SamePins, Zenon
     DEF Inv, Contents, bread

(* A change reaches the one buffer of the block. *)
LEMMA ModifyStep ==
  ASSUME BufferCacheAssumption, Inv, NEW p \in User, NEW v \in Val, Modify(p, v)
  PROVE  Inv'
<1>1. pc[p] \in {"have", "dirty"} /\ pc[p] \in Holding
  BY Zenon DEF Modify, Holding
<1>2. /\ b[p] \in Buf /\ want[p] \in Block /\ blockno[b[p]] = want[p] /\ holder[b[p]] = p
      /\ \A q \in User : q # p /\ pc[q] \in Holding => b[q] # b[p] /\ want[q] # want[p]
  BY <1>1, Alone, Zenon
<1>3. Types' /\ Users'
  BY <1>1, <1>2, Zenon DEF Modify, Inv, Types, Users, Label, locks
<1>4. Buffers'
  BY Zenon DEF Modify, Inv, Types, Buffers
<1>5. Locks'
  BY <1>1, <1>2, SMTT(30) DEF Modify, Inv, Types, Users, Locks, Holding, locks
<1>6. Valid'
  <2>1. \A x \in Buf : blockno[x] = want[p] => x = b[p]
    <3>1. want[p] # None
      BY <1>2, Zenon DEF BufferCacheAssumption
    <3>2. Buffers
      BY Zenon DEF Inv
    <3> QED
      BY <1>2, <3>1, <3>2, SMTT(30) DEF Buffers
  <2> QED
    BY <1>1, <1>2, <2>1, SMTT(30) DEF Modify, Inv, Types, Users, Contents, Valid, Having
<1>7. OnDisk'
  <2>1. \A m \in Block : Changing(m) => Changing(m)'
    BY <1>1, <1>2, Zenon DEF Modify, Changing, Inv, Types
  <2>2. Changing(want[p])'
    BY <1>2, Zenon DEF Modify, Changing, Inv, Types
  <2>3. \A q \in User : pc'[q] = "written" => q # p /\ pc[q] = "written" /\ want[q] # want[p]
    BY <1>2, Zenon DEF Modify, Inv, Types, Holding
  <2>4. \A m \in Block : m # want[p] => latest'[m] = latest[m]
    BY <1>2, Zenon DEF Modify, Inv, Types
  <2>5. \A q \in User : pc[q] = "written" => want[q] \in Block
    BY Zenon DEF Inv, Users
  <2> QED
    BY <2>1, <2>2, <2>3, <2>4, <2>5, Zenon DEF Modify, Inv, Contents, OnDisk
<1> QED
  BY <1>3, <1>4, <1>5, <1>6, <1>7, SameCounts, SameList, SamePins, Zenon
     DEF Inv, Contents, Modify

(* bwrite() is called with the lock held and puts the latest value on disk. *)
LEMMA WriteStep ==
  ASSUME BufferCacheAssumption, Inv, NEW p \in User, bwrite(p)
  PROVE  Inv' /\ UNCHANGED panicked
<1>1. pc[p] \in {"have", "dirty"} /\ pc[p] \in Holding /\ pc[p] \in Having
  BY Zenon DEF bwrite, Holding, Having
<1>2. /\ b[p] \in Buf /\ want[p] \in Block /\ blockno[b[p]] = want[p] /\ holder[b[p]] = p
      /\ \A q \in User : q # p /\ pc[q] \in Holding => b[q] # b[p] /\ want[q] # want[p]
  BY <1>1, Alone, Zenon
<1>3. /\ disk' = [disk EXCEPT ![want[p]] = data[b[p]]] /\ pc' = [pc EXCEPT ![p] = "written"]
      /\ UNCHANGED <<blockno, valid, refcnt, data, lru, holder, asleep, want, b, pinned, latest, panicked>>
  BY <1>2, Zenon DEF bwrite, SL!holdingsleep, bufs, locks
<1>4. data[b[p]] = latest[want[p]] /\ valid[b[p]]
  <2>1. valid[b[p]] = TRUE
    BY <1>1, HasValid, Zenon
  <2> QED
    BY <1>2, <2>1, Zenon DEF Inv, Contents, Valid
<1>5. Types' /\ Users' /\ Buffers'
  BY <1>1, <1>2, <1>3, SMTT(30) DEF Inv, Types, Users, Buffers, Label
<1>6. Locks'
  BY <1>1, <1>2, <1>3, SMTT(30) DEF Inv, Types, Users, Locks, Holding
<1>7. Valid'
  BY <1>1, <1>2, <1>3, <1>4, SMTT(30) DEF Inv, Types, Users, Contents, Valid, Having
<1>8. OnDisk'
  <2>1. \A m \in Block : m # want[p] /\ Changing(m) => Changing(m)'
    BY <1>3, Zenon DEF Changing, Inv, Types
  <2>2. disk'[want[p]] = latest[want[p]] /\ \A m \in Block : m # want[p] => disk'[m] = disk[m]
    BY <1>2, <1>3, <1>4, Zenon DEF Inv, Types
  <2>3. \A q \in User : q # p => pc'[q] = pc[q]
    BY <1>3, Zenon DEF Inv, Types
  <2>4. \A q \in User : pc[q] = "written" => want[q] \in Block
    BY Zenon DEF Inv, Users
  <2> QED
    BY <1>3, <2>1, <2>2, <2>3, <2>4, ZenonT(30) DEF Inv, Contents, OnDisk
<1> QED
  BY <1>3, <1>5, <1>6, <1>7, <1>8, SameCounts, SameList, SamePins, Zenon
     DEF Inv, Contents

(* bpin() keeps the buffer of a block that the log has recorded. *)
LEMMA PinStep ==
  ASSUME BufferCacheAssumption, Inv, NEW p \in User, bpin(p)
  PROVE  Inv'
<1>1. pc[p] = "dirty" /\ pc[p] \in Holding /\ pc[p] \in Having
  BY Zenon DEF bpin, Holding, Having
<1>2. /\ b[p] \in Buf /\ want[p] \in Block /\ blockno[b[p]] = want[p] /\ holder[b[p]] = p
      /\ \A q \in User : q # p /\ pc[q] \in Holding => b[q] # b[p] /\ want[q] # want[p]
  BY <1>1, Alone, Zenon
<1>3. /\ pc' = [pc EXCEPT ![p] = "have"]
      /\ UNCHANGED <<blockno, valid, data, lru, holder, asleep, disk, want, b, latest>>
  BY Zenon DEF bpin, locks
<1>4. want[p] \in pinned' /\ pinned \subseteq pinned' /\ pinned' \subseteq pinned \cup {want[p]}
  BY Zenon DEF bpin
<1>12. Pins'
  <2>1. CASE UNCHANGED pinned
    BY <2>1, SamePins, Zenon
  <2>2. CASE want[p] \notin pinned /\ Cardinality(pinned) < MaxPins /\ pinned' = pinned \cup {want[p]}
    <3>1. IsFiniteSet(pinned) /\ Cardinality(pinned) \in Nat /\ MaxPins \in Nat
      BY FS_CardinalityType, Zenon DEF Inv, Pins, BufferCacheAssumption
    <3>2. IsFiniteSet(pinned') /\ Cardinality(pinned') = Cardinality(pinned) + 1
      BY <2>2, <3>1, FS_AddElement, Zenon
    <3> QED
      BY <2>2, <3>1, <3>2 DEF Pins
  <2> QED
    BY <2>1, <2>2, Zenon DEF bpin
<1>5. Types'
  <2>2. pinned' \in SUBSET Block
    BY <1>2, <1>4, Zenon DEF Inv, Types
  <2>3. refcnt' \in [Buf -> Nat]
    <3>1. refcnt' = refcnt \/ refcnt' = [refcnt EXCEPT ![b[p]] = @ + 1]
      BY Zenon DEF bpin
    <3>2. refcnt \in [Buf -> Nat]
      BY Zenon DEF Inv, Types
    <3> QED
      BY <1>2, <3>1, <3>2
  <2> QED
    BY <1>3, <2>2, <2>3, Zenon DEF Inv, Types, Label
<1>6. Users'
  BY <1>1, <1>2, <1>3, Zenon DEF Inv, Types, Users
<1>7. Valid'
  BY <1>1, <1>2, <1>3, SMTT(30) DEF Inv, Types, Users, Contents, Valid, Having
<1>8. Buffers'
  <2>1. valid[b[p]] = TRUE
    BY <1>1, HasValid, Zenon
  <2>2. \A n \in pinned' : n \in pinned \/ n = want[p]
    BY <1>4, Zenon
  <2> QED
    BY <1>2, <1>3, <2>1, <2>2, Zenon DEF Inv, Buffers
<1>9. Locks'
  BY <1>1, <1>2, <1>3, SMTT(30) DEF Inv, Types, Users, Locks, Holding
<1>10. OnDisk'
  <2>1. \A m \in Block : m # want[p] /\ Changing(m) => Changing(m)'
    BY <1>3, Zenon DEF Changing, Inv, Types
  <2> QED
    BY <1>1, <1>3, <1>4, <2>1, Zenon DEF Inv, Types, Contents, OnDisk
<1>11. Counts'
  <2>1. CASE UNCHANGED <<refcnt, pinned>>
    BY <1>3, <2>1, SameCounts, Zenon
  <2>2. CASE /\ want[p] \notin pinned /\ refcnt' = [refcnt EXCEPT ![b[p]] = @ + 1]
             /\ pinned' = pinned \cup {want[p]}
    <3> SUFFICES ASSUME NEW y \in Buf
                 PROVE  refcnt'[y] = Cardinality(ByUser(y)') + Cardinality(ByLog(y)')
      BY Zenon DEF Counts
    <3>1. ByUser(y)' = ByUser(y)
      BY <1>3, Zenon DEF ByUser
    <3>2. y # b[p] => blockno[y] # want[p]
      BY <1>2, SMTT(30) DEF Inv, Buffers, BufferCacheAssumption
    <3>3. ByLog(y)' = IF y = b[p] THEN ByLog(y) \cup {want[p]} ELSE ByLog(y)
      BY <1>2, <1>3, <2>2, <3>2, Zenon DEF ByLog
    <3>4. want[p] \notin ByLog(y)
      BY <2>2, Zenon DEF ByLog
    <3>5. Cardinality(ByLog(y)') = IF y = b[p] THEN Cardinality(ByLog(y)) + 1 ELSE Cardinality(ByLog(y))
      BY <3>3, <3>4, Finite, FS_AddElement, Zenon DEF Inv
    <3>6. refcnt'[y] = IF y = b[p] THEN refcnt[y] + 1 ELSE refcnt[y]
      BY <1>2, <2>2, Zenon DEF Inv, Types
    <3> QED
      BY <3>1, <3>5, <3>6, Finite, SMTT(30) DEF Inv, Counts
  <2> QED
    BY <2>1, <2>2, Zenon DEF bpin
<1> QED
  BY <1>3, <1>5, <1>6, <1>7, <1>8, <1>9, <1>10, <1>11, <1>12, SameList, Zenon
     DEF Inv, Contents

(* bunpin() follows bwrite(): the disk has what the log stood for. *)
LEMMA UnpinStep ==
  ASSUME BufferCacheAssumption, Inv, NEW p \in User, bunpin(p)
  PROVE  Inv'
<1>1. pc[p] = "written" /\ want[p] \in pinned /\ pc[p] \in Holding /\ pc[p] \in Having
  BY Zenon DEF bunpin, Holding, Having
<1>2. /\ b[p] \in Buf /\ want[p] \in Block /\ blockno[b[p]] = want[p] /\ holder[b[p]] = p
      /\ \A q \in User : q # p /\ pc[q] \in Holding => b[q] # b[p] /\ want[q] # want[p]
  BY <1>1, Alone, Zenon
<1>3. /\ pc' = [pc EXCEPT ![p] = "have"] /\ pinned' = pinned \ {want[p]}
      /\ refcnt' = [refcnt EXCEPT ![b[p]] = @ - 1]
      /\ UNCHANGED <<blockno, valid, data, lru, holder, asleep, disk, want, b, latest>>
  BY Zenon DEF bunpin, locks
<1>4. refcnt[b[p]] >= 1 /\ refcnt[b[p]] \in Nat
  BY <1>2, Referenced, Finite, SMTT(30) DEF Inv, Types
<1>12. Pins'
  <2>1. IsFiniteSet(pinned) /\ Cardinality(pinned) \in Nat /\ MaxPins \in Nat /\ Cardinality(pinned) <= MaxPins
    BY FS_CardinalityType, Zenon DEF Inv, Pins, BufferCacheAssumption
  <2>2. IsFiniteSet(pinned') /\ Cardinality(pinned') = Cardinality(pinned) - 1
    BY <1>1, <1>3, <2>1, FS_RemoveElement, Zenon
  <2> QED
    BY <2>1, <2>2 DEF Pins
<1>5. Types'
  <2>2. refcnt' \in [Buf -> Nat] /\ pinned' \in SUBSET Block
    BY <1>2, <1>3, <1>4 DEF Inv, Types
  <2> QED
    BY <1>3, <2>2, Zenon DEF Inv, Types, Label
<1>6. Users'
  BY <1>1, <1>2, <1>3, Zenon DEF Inv, Types, Users
<1>7. Valid'
  BY <1>1, <1>2, <1>3, SMTT(30) DEF Inv, Types, Users, Contents, Valid, Having
<1>8. Buffers'
  BY <1>3, Zenon DEF Inv, Buffers
<1>9. Locks'
  BY <1>1, <1>2, <1>3, SMTT(30) DEF Inv, Types, Users, Locks, Holding
<1>10. OnDisk'
  <2>1. \A m \in Block : Changing(m) => Changing(m)'
    BY <1>1, <1>3, Zenon DEF Changing, Inv, Types
  <2>2. disk[want[p]] = latest[want[p]]
    BY <1>1, Zenon DEF Inv, Contents, OnDisk
  <2>3. \A q \in User : pc'[q] = "written" => pc[q] = "written"
    BY <1>3, Zenon DEF Inv, Types
  <2> QED
    BY <1>3, <2>1, <2>2, <2>3, Zenon DEF Inv, Contents, OnDisk
<1>11. Counts'
  <2> SUFFICES ASSUME NEW y \in Buf
               PROVE  refcnt'[y] = Cardinality(ByUser(y)') + Cardinality(ByLog(y)')
    BY Zenon DEF Counts
  <2>1. ByUser(y)' = ByUser(y)
    BY <1>3, Zenon DEF ByUser
  <2>2. y # b[p] => blockno[y] # want[p]
    BY <1>2 DEF Inv, Buffers, BufferCacheAssumption
  <2>3. ByLog(y)' = ByLog(y) \ {want[p]} /\ (want[p] \in ByLog(y) <=> y = b[p])
    BY <1>1, <1>2, <1>3, <2>2, Zenon DEF ByLog
  <2>4. Cardinality(ByLog(y)') = IF y = b[p] THEN Cardinality(ByLog(y)) - 1 ELSE Cardinality(ByLog(y))
    BY <2>3, Finite, FS_RemoveElement, Zenon DEF Inv
  <2>5. refcnt'[y] = IF y = b[p] THEN refcnt[y] - 1 ELSE refcnt[y]
    BY <1>2, <1>3, Zenon DEF Inv, Types
  <2> QED
    BY <2>1, <2>4, <2>5, Finite, SMTT(30) DEF Inv, Counts
<1> QED
  BY <1>3, <1>5, <1>6, <1>7, <1>8, <1>9, <1>10, <1>11, <1>12, SameList, Zenon
     DEF Inv, Contents

(* releasesleep() wakes whoever waits for the buffer's lock. *)
LEMMA ReleaseStep ==
  ASSUME BufferCacheAssumption, Inv, NEW p \in User, brelse(p)
  PROVE  Inv' /\ UNCHANGED panicked
<1>1. pc[p] \in {"have", "written"} /\ pc[p] \in Holding
  BY Zenon DEF brelse, Holding
<1>2. /\ b[p] \in Buf /\ want[p] \in Block /\ blockno[b[p]] = want[p] /\ holder[b[p]] = p
      /\ \A q \in User : q # p /\ pc[q] \in Holding => b[q] # b[p] /\ want[q] # want[p]
  BY <1>1, Alone, Zenon
<1>3. /\ pc' = [pc EXCEPT ![p] = "brelse"] /\ holder' = [holder EXCEPT ![b[p]] = None]
      /\ asleep' = [q \in User |-> IF asleep[q] = b[p] THEN None ELSE asleep[q]]
      /\ UNCHANGED <<blockno, valid, refcnt, data, lru, disk, want, b, pinned, latest, panicked>>
  BY <1>2, Zenon DEF brelse, SL!holdingsleep, SL!releasesleep, bufs
<1>4. Types'
  BY <1>3, Zenon DEF Inv, Types, Label
<1>5. Users' /\ Buffers'
  BY <1>1, <1>2, <1>3, SMTT(30) DEF Inv, Types, Users, Buffers
<1>6. Locks'
  <2>1. \A q \in User : pc'[q] \in Holding => q # p /\ pc[q] \in Holding
    BY <1>3, Zenon DEF Inv, Types, Holding
  <2>2. \A q \in User : pc'[q] \in Holding => holder'[b'[q]] = q
    BY <1>2, <1>3, <2>1, SMTT(30) DEF Inv, Types, Locks
  <2>3. \A x \in Buf : holder'[x] # None => x # b[p] /\ holder'[x] = holder[x]
    BY <1>2, <1>3, Zenon DEF Inv, Types
  <2>4. \A x \in Buf : holder'[x] # None => b'[holder'[x]] = x /\ pc'[holder'[x]] \in Holding
    <3> SUFFICES ASSUME NEW x \in Buf, holder'[x] # None
                 PROVE  b[holder[x]] = x /\ pc'[holder[x]] \in Holding
      BY <1>3, <2>3, Zenon
    <3>1. x # b[p] /\ holder[x] \in User /\ b[holder[x]] = x /\ pc[holder[x]] \in Holding
      BY <2>3, SMTT(30) DEF Inv, Types, Locks
    <3> QED
      BY <1>3, <3>1, Zenon DEF Inv, Types
  <2>5. \A q \in User : asleep'[q] # None =>
          pc'[q] = "bget" /\ asleep'[q] = b'[q] /\ holder'[b'[q]] # None
    <3> SUFFICES ASSUME NEW q \in User, asleep'[q] # None
                 PROVE  pc'[q] = "bget" /\ asleep'[q] = b'[q] /\ holder'[b'[q]] # None
      BY Zenon
    <3>1. asleep'[q] = asleep[q] /\ asleep[q] # b[p] /\ asleep[q] # None
      BY <1>3, Zenon
    <3>2. pc[q] = "bget" /\ asleep[q] = b[q] /\ holder[b[q]] # None /\ q # p /\ b[q] \in Buf
      BY <1>1, <3>1, SMTT(30) DEF Inv, Types, Locks
    <3> QED
      BY <1>2, <1>3, <3>1, <3>2, Zenon DEF Inv, Types
  <2> QED
    BY <2>2, <2>4, <2>5, Zenon DEF Locks
<1>7. Valid'
  BY <1>1, <1>2, <1>3, SMTT(30) DEF Inv, Types, Users, Contents, Valid, Having
<1>8. OnDisk'
  <2>1. \A m \in Block : Changing(m) => Changing(m)'
    BY <1>1, <1>3, Zenon DEF Changing, Inv, Types
  <2>2. \A q \in User : pc'[q] = "written" => pc[q] = "written"
    BY <1>3, Zenon DEF Inv, Types
  <2> QED
    BY <1>3, <2>1, <2>2, Zenon DEF Inv, Contents, OnDisk
<1> QED
  BY <1>3, <1>4, <1>5, <1>6, <1>7, <1>8, SameCounts, SameList, SamePins, Zenon
     DEF Inv, Contents

(* Moving a buffer to the head loses none of them. *)
LEMMA KeepsAll ==
  ASSUME BufferCacheAssumption, List, NEW x \in Buf
  PROVE  /\ ToFront(x) \in [1 .. Cardinality(Buf) -> Buf]
         /\ \A y \in Buf : \E i \in DOMAIN ToFront(x) : ToFront(x)[i] = y
<1> DEFINE N == Cardinality(Buf)
           i == CHOOSE k \in DOMAIN lru : lru[k] = x
<1>1. N \in Nat
  BY FS_CardinalityType, Zenon DEF BufferCacheAssumption
<1>2. DOMAIN lru = 1 .. N /\ \A k \in 1 .. N : lru[k] \in Buf
  BY Zenon DEF List
<1>3. i \in 1 .. N /\ lru[i] = x
  BY <1>2, Zenon DEF List
<1>4. ToFront(x) = [k \in 1 .. N |-> IF k = 1 THEN x ELSE IF k <= i THEN lru[k - 1] ELSE lru[k]]
  BY <1>2, Zenon DEF ToFront
<1> HIDE DEF N, i
<1>5. ASSUME NEW k \in 1 .. N PROVE ToFront(x)[k] \in Buf
  BY <1>1, <1>2, <1>3, <1>4, <1>5
<1>6. ASSUME NEW y \in Buf PROVE \E k \in 1 .. N : ToFront(x)[k] = y
  <2>1. PICK j \in 1 .. N : lru[j] = y
    BY <1>2, Zenon DEF List
  <2>2. CASE j = i
    BY <1>1, <1>3, <1>4, <2>1, <2>2
  <2>3. CASE j < i
    <3>1. j + 1 \in 1 .. N /\ j + 1 # 1 /\ j + 1 <= i /\ (j + 1) - 1 = j
      BY <1>1, <1>3, <2>3
    <3> QED
      BY <1>4, <2>1, <3>1, Zenon
  <2>4. CASE j > i
    BY <1>1, <1>3, <1>4, <2>1, <2>4
  <2> QED
    BY <1>1, <1>3, <2>2, <2>3, <2>4
<1> QED
  BY <1>4, <1>5, <1>6, Zenon DEF N

(* brelse() takes back the reference that bget() counted. *)
LEMMA PutStep ==
  ASSUME BufferCacheAssumption, Inv, NEW p \in User, brelse_put(p)
  PROVE  Inv'
<1>1. pc[p] = "brelse" /\ b[p] \in Buf /\ b[p] # None
  BY Zenon DEF brelse_put, Inv, Types, Users, BufferCacheAssumption
<1>2. /\ refcnt' = [refcnt EXCEPT ![b[p]] = @ - 1]
      /\ lru' = IF refcnt[b[p]] = 1 THEN ToFront(b[p]) ELSE lru
      /\ pc' = [pc EXCEPT ![p] = "idle"] /\ want' = [want EXCEPT ![p] = None]
      /\ b' = [b EXCEPT ![p] = None]
      /\ UNCHANGED <<blockno, valid, data, holder, asleep, disk, pinned, latest>>
  BY Zenon DEF brelse_put, locks
<1>3. refcnt[b[p]] >= 1 /\ refcnt[b[p]] \in Nat
  BY <1>1, Referenced, Finite, SMTT(30) DEF Inv, Types
<1>4. Types'
  <2>1. refcnt' \in [Buf -> Nat]
    BY <1>1, <1>2, <1>3, SMTT(30) DEF Inv, Types
  <2> QED
    BY <1>2, <2>1, Zenon DEF Inv, Types, Label
<1>10. List'
  BY <1>1, <1>2, KeepsAll, Zenon DEF Inv, List
<1>5. Users' /\ Buffers'
  BY <1>1, <1>2, SMTT(30) DEF Inv, Types, Users, Buffers, BufferCacheAssumption
<1>6. Locks'
  <2>1. \A x \in Buf : holder[x] # p
    BY <1>1, Zenon DEF Inv, Locks, Holding, BufferCacheAssumption
  <2>2. asleep[p] = None
    BY <1>1, Zenon DEF Inv, Locks
  <2> QED
    BY <1>1, <1>2, <2>1, <2>2, SMTT(30) DEF Inv, Types, Locks, Holding
<1>7. Valid'
  BY <1>1, <1>2, Zenon DEF Inv, Types, Contents, Valid, Having
<1>8. OnDisk'
  <2>1. \A m \in Block : Changing(m) => Changing(m)'
    BY <1>1, <1>2, Zenon DEF Changing, Inv, Types
  <2>2. \A q \in User : pc'[q] = "written" => pc[q] = "written" /\ q # p /\ want'[q] = want[q]
    BY <1>2, Zenon DEF Inv, Types
  <2> QED
    BY <1>2, <2>1, <2>2, Zenon DEF Inv, Contents, OnDisk
<1>9. Counts'
  <2> SUFFICES ASSUME NEW y \in Buf
               PROVE  refcnt'[y] = Cardinality(ByUser(y)') + Cardinality(ByLog(y)')
    BY Zenon DEF Counts
  <2>1. ByLog(y)' = ByLog(y)
    BY <1>2, Zenon DEF ByLog
  <2>2. ByUser(y)' = ByUser(y) \ {p} /\ (p \in ByUser(y) <=> y = b[p])
    BY <1>1, <1>2, Zenon DEF ByUser, Inv, Types, BufferCacheAssumption
  <2>3. Cardinality(ByUser(y)') = IF y = b[p] THEN Cardinality(ByUser(y)) - 1 ELSE Cardinality(ByUser(y))
    BY <2>2, Finite, FS_RemoveElement, ZenonT(30) DEF Inv
  <2>4. refcnt'[y] = IF y = b[p] THEN refcnt[y] - 1 ELSE refcnt[y]
    BY <1>1, <1>2, Zenon DEF Inv, Types
  <2>5. Cardinality(ByUser(y)) \in Nat /\ Cardinality(ByLog(y)) \in Nat
    BY Finite, Zenon
  <2>6. refcnt[y] = Cardinality(ByUser(y)) + Cardinality(ByLog(y))
    BY Zenon DEF Inv, Counts
  <2> QED
    BY <2>1, <2>3, <2>4, <2>5, <2>6, SMTT(30)
<1> QED
  BY <1>2, <1>4, <1>5, <1>6, <1>7, <1>8, <1>9, <1>10, SamePins, Zenon DEF Inv, Contents

-----------------------------------------------------------------------------
(* Inv is inductive. *)
LEMMA NextInv ==
  ASSUME BufferCacheAssumption, Inv, [Next]_vars
  PROVE  Inv'
<1>1. CASE UNCHANGED vars
  BY <1>1, Stutter, Zenon DEF vars, bufs, locks, procs
<1>2. CASE Next
  BY <1>2, HitStep, MissStep, LockStep, ReadStep, ModifyStep, WriteStep, PinStep, UnpinStep,
     ReleaseStep, PutStep, <1>1, Zenon DEF Next, Get, Use, Put, Halted
<1> QED
  BY <1>1, <1>2, Zenon

(* Only bget() can panic, when it finds refcnt # 0 all along the list, and   *)
(* nothing changes afterwards.                                              *)
AllInUse == \A x \in Buf : refcnt[x] > 0

LEMMA NextPanic ==
  ASSUME BufferCacheAssumption, Inv, panicked => AllInUse, [Next]_vars
  PROVE  panicked' => AllInUse'
<1>1. ASSUME NEW p \in User, NEW n \in Block, bget_miss(p, n), Unused = {} PROVE AllInUse'
  <2> SUFFICES ASSUME NEW x \in Buf PROVE refcnt'[x] > 0
    BY Zenon DEF AllInUse
  <2>1. PICK i \in DOMAIN lru : lru[i] = x
    BY Zenon DEF Inv, List
  <2>2. refcnt[x] # 0 /\ refcnt[x] \in Nat /\ refcnt' = refcnt
    BY <1>1, <2>1, Zenon DEF Unused, bget_miss, Inv, Types
  <2> QED
    BY <2>2
<1>2. ASSUME NEW p \in User, NEW n \in Block, bget_miss(p, n) PROVE panicked' => AllInUse'
  <2>1. CASE Unused = {}
    BY <1>1, <1>2, <2>1, Zenon
  <2>2. CASE Unused # {}
    BY <1>2, <2>2, Zenon DEF bget_miss
  <2> QED
    BY <2>1, <2>2, Zenon
<1>3. ASSUME NEW p \in User, bwrite(p) \/ brelse(p) PROVE ~panicked'
  <2>1. ~panicked
    BY <1>3, Zenon DEF bwrite, brelse
  <2> QED
    BY <1>3, <2>1, WriteStep, ReleaseStep, Zenon
<1>4. CASE UNCHANGED vars
  BY <1>4, Zenon DEF vars, AllInUse
<1>5. ASSUME NEW p \in User, bget_lock(p) \/ bread(p) \/ bpin(p) \/ bunpin(p) \/ brelse_put(p)
      PROVE  ~panicked'
  BY <1>5, Zenon DEF bget_lock, bread, bpin, bunpin, brelse_put
<1>6. ASSUME NEW p \in User, NEW n \in Block, bget_hit(p, n) PROVE ~panicked'
  BY <1>6, Zenon DEF bget_hit
<1>7. ASSUME NEW p \in User, NEW v \in Val, Modify(p, v) PROVE ~panicked'
  BY <1>7, Zenon DEF Modify
<1> QED
  BY <1>2, <1>3, <1>4, <1>5, <1>6, <1>7, Zenon DEF Next, Get, Use, Put, Halted

(* Inv is an invariant of BufferCache. *)
THEOREM Invariant ==
  ASSUME BufferCacheAssumption
  PROVE  Spec => []Inv
  BY InitInv, NextInv, PTL DEF Spec

(* The reference counts are exact, and bget() panics only when every buffer *)
(* is referred to (bio.c:59-151).                                           *)
THEOREM CountsExact ==
  ASSUME BufferCacheAssumption
  PROVE  Spec => []RefcntExact
<1>1. Init => (panicked => AllInUse)
  BY Zenon DEF Init
<1>2. Inv /\ (panicked => AllInUse) => RefcntExact
  BY Zenon DEF Inv, Counts, ByUser, ByLog, RefcntExact, AllInUse
<1>3. Inv /\ (panicked => AllInUse) /\ [Next]_vars => (panicked' => AllInUse')
  BY NextPanic, Zenon
<1> QED
  BY <1>1, <1>2, <1>3, Invariant, PTL DEF Spec

(* A process that has a block sees the last value any process stored in it, *)
(* however often its buffer was recycled (bio.c:59-103).                    *)
THEOREM LatestSeen ==
  ASSUME BufferCacheAssumption
  PROVE  Spec => []SeesLatest
<1>1. Inv => SeesLatest
  <2> SUFFICES ASSUME Inv, NEW p \in User, pc[p] \in Having PROVE data[b[p]] = latest[want[p]]
    BY Zenon DEF SeesLatest, Having
  <2>1. b[p] \in Buf /\ blockno[b[p]] = want[p]
    BY Zenon DEF Inv, Types, Users, Having
  <2> QED
    BY <2>1, Zenon DEF Inv, Contents, Valid
<1> QED
  BY <1>1, Invariant, PTL

(* A process sleeps on a buffer's lock only while another one holds it      *)
(* (sleeplock.c:21-41).                                                     *)
THEOREM SleepersWoken ==
  ASSUME BufferCacheAssumption
  PROVE  Spec => []SleeperHasHolder
<1>1. Inv => SleeperHasHolder
  <2> SUFFICES ASSUME Inv, NEW p \in User, asleep[p] # None
               PROVE  holder[asleep[p]] # None /\ holder[asleep[p]] # p
    BY Zenon DEF SleeperHasHolder, SL!SleeperHasHolder
  <2>1. pc[p] = "bget" /\ asleep[p] = b[p] /\ holder[b[p]] # None /\ b[p] \in Buf
    BY SMTT(30) DEF Inv, Types, Locks, Users
  <2> QED
    BY <2>1, Zenon DEF Inv, Locks, Holding
<1> QED
  BY <1>1, Invariant, PTL
=============================================================================
