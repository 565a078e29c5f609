----------------------------- MODULE PipeProofs -----------------------------
(***************************************************************************)
(* Proof that Pipe implements Channel, for any PIPESIZE, any multiple of   *)
(* it as the range of nread and nwrite, and any readers and writers.       *)
(***************************************************************************)
EXTENDS Pipe, SequenceTheorems, TLAPS

-----------------------------------------------------------------------------
(* Arithmetic of the circular buffer. *)

(* Division with remainder. *)
LEMMA DivMod ==
  ASSUME NEW a \in Nat, NEW m \in Nat \ {0}
  PROVE  a % m \in 0 .. m - 1 /\ \E q \in Nat : a = m * q + (a % m)
<1>1. a % m \in 0 .. m - 1
  OBVIOUS
<1>2. a \div m \in Nat /\ a = m * (a \div m) + (a % m)
  OBVIOUS
<1> QED
  BY <1>1, <1>2, Zenon

(* The remainder is the one below the modulus. *)
LEMMA ModUnique ==
  ASSUME NEW m \in Nat \ {0}, NEW q \in Nat, NEW r \in 0 .. m - 1
  PROVE  (m * q + r) % m = r
OBVIOUS

(* An index below the modulus is its own remainder, and so is one turn more. *)
LEMMA ModSmall ==
  ASSUME NEW m \in Nat \ {0}, NEW r \in 0 .. m - 1
  PROVE  r % m = r /\ (r + m) % m = r
OBVIOUS

(* Whole turns do not change the remainder. *)
LEMMA ModShift ==
  ASSUME NEW m \in Nat \ {0}, NEW q \in Nat, NEW a \in Nat
  PROVE  (a + m * q) % m = a % m
<1>1. PICK d \in Nat : a = m * d + (a % m) /\ a % m \in 0 .. m - 1
  BY DivMod, Zenon
<1> DEFINE r == a % m
<1> HIDE DEF r
<1>2. a + m * q = m * (d + q) + r /\ d + q \in Nat /\ r \in 0 .. m - 1
  BY <1>1 DEF r
<1>3. (m * (d + q) + r) % m = r
  BY <1>2, ModUnique, Zenon
<1> QED
  BY <1>2, <1>3, Zenon DEF r

(* Fewer than m neighbours have different remainders. *)
LEMMA ModApart ==
  ASSUME NEW m \in Nat \ {0}, NEW a \in Nat, NEW k \in 0 .. m - 1, NEW l \in 0 .. m - 1,
         (a + k) % m = (a + l) % m
  PROVE  k = l
<1> DEFINE x == a + k
           y == a + l
           r == x % m
<1>0. x \in Nat /\ y \in Nat /\ r = y % m
  OBVIOUS
<1> HIDE DEF x, y
<1>a. r \in Nat
  BY <1>0
<1>b. PICK c \in Nat : x = m * c + r
  BY <1>0, DivMod, Zenon
<1>c. PICK d \in Nat : y = m * d + (y % m)
  BY <1>0, DivMod, Zenon
<1> HIDE DEF r
<1>1. a + k = m * c + r
  BY <1>b, Zenon DEF x
<1>2. a + l = m * d + r
  BY <1>0, <1>c, Zenon DEF y
<1>3. k - l = m * c - m * d
  BY <1>1, <1>2, <1>a
<1>4. CASE c = d
  BY <1>3, <1>4
<1>5. CASE c < d
  <2>1. PICK e \in Nat : d = c + 1 + e
    <3>1. d - c - 1 \in Nat /\ d = c + 1 + (d - c - 1)
      BY <1>5
    <3> QED
      BY <3>1, Zenon
  <2>2. m * d = m * c + m + m * e
    BY <2>1
  <2>3. m * e \in Nat /\ m * c \in Nat
    OBVIOUS
  <2> QED
    BY <1>3, <2>2, <2>3
<1>6. CASE d < c
  <2>1. PICK e \in Nat : c = d + 1 + e
    <3>1. c - d - 1 \in Nat /\ c = d + 1 + (c - d - 1)
      BY <1>6
    <3> QED
      BY <3>1, Zenon
  <2>2. m * c = m * d + m + m * e
    BY <2>1
  <2>3. m * e \in Nat /\ m * d \in Nat
    OBVIOUS
  <2> QED
    BY <1>3, <2>2, <2>3
<1> QED
  BY <1>4, <1>5, <1>6

-----------------------------------------------------------------------------
(* The values of nread and nwrite. *)
Index == 0 .. Wrap - 1

(* The bytes in a pipe whose nread is r and whose nwrite is w. *)
Held(r, w) == (w + Wrap - r) % Wrap

(* The range of a uint is several times the size of the buffer. *)
LEMMA Sizes ==
  /\ PIPESIZE \in Nat \ {0} /\ Wrap \in Nat \ {0} /\ PIPESIZE < Wrap
  /\ \E q \in Nat : Wrap = PIPESIZE * q
<1>1. PIPESIZE \in Nat \ {0} /\ Wrap \in Nat \ {0} /\ PIPESIZE < Wrap /\ Wrap % PIPESIZE = 0
  BY PipeAssumption
<1>2. PICK q \in Nat : Wrap = PIPESIZE * q + (Wrap % PIPESIZE)
  BY <1>1, DivMod, Zenon
<1>3. Wrap = PIPESIZE * q
  BY <1>1, <1>2
<1> QED
  BY <1>1, <1>3, Zenon

(* nread++ and nwrite++ on a uint. *)
LEMMA Incremented ==
  ASSUME NEW a \in Index
  PROVE  (a + 1) % Wrap = IF a + 1 = Wrap THEN 0 ELSE a + 1
<1>1. CASE a + 1 = Wrap
  <2>1. (0 + Wrap) % Wrap = 0
    BY Sizes, ModSmall
  <2> QED
    BY <1>1, <2>1, Sizes
<1>2. CASE a + 1 # Wrap
  <2>1. a + 1 \in 0 .. Wrap - 1
    BY <1>2, Sizes DEF Index
  <2>2. (a + 1) % Wrap = a + 1
    BY <2>1, Sizes, ModSmall, Zenon
  <2> QED
    BY <1>2, <2>2, Zenon
<1> QED
  BY <1>1, <1>2, Zenon

(* A uint that wraps around still names the right byte of data. *)
LEMMA SameCell ==
  ASSUME NEW a \in Nat
  PROVE  (a + Wrap) % PIPESIZE = a % PIPESIZE
<1>1. PICK q \in Nat : Wrap = PIPESIZE * q
  BY Sizes, Zenon
<1>2. (a + PIPESIZE * q) % PIPESIZE = a % PIPESIZE
  BY Sizes, ModShift, Zenon
<1> QED
  BY <1>1, <1>2, Zenon

(* The bytes in the pipe, nwrite - nread on uints. *)
LEMMA Counted ==
  ASSUME NEW r \in Index, NEW w \in Index
  PROVE  Held(r, w) = IF r <= w THEN w - r ELSE w + Wrap - r
<1>1. CASE r <= w
  <2>1. w - r \in 0 .. Wrap - 1 /\ w + Wrap - r = (w - r) + Wrap
    BY <1>1, Sizes DEF Index
  <2>2. ((w - r) + Wrap) % Wrap = w - r
    BY <2>1, Sizes, ModSmall, Zenon
  <2> QED
    BY <1>1, <2>1, <2>2, Zenon DEF Held
<1>2. CASE ~(r <= w)
  <2>1. w + Wrap - r \in 0 .. Wrap - 1
    BY <1>2, Sizes DEF Index
  <2>2. (w + Wrap - r) % Wrap = w + Wrap - r
    BY <2>1, Sizes, ModSmall, Zenon
  <2> QED
    BY <1>2, <2>2, Zenon DEF Held
<1> QED
  BY <1>1, <1>2, Zenon

(* nread == nwrite when the pipe is empty, nwrite == nread + PIPESIZE when it is full. *)
LEMMA HeldType ==
  ASSUME NEW r \in Index, NEW w \in Index
  PROVE  /\ Held(r, w) \in Nat /\ Held(r, w) < Wrap /\ (r = w <=> Held(r, w) = 0)
         /\ (w = (r + PIPESIZE) % Wrap <=> Held(r, w) = PIPESIZE)
<1>1. Held(r, w) \in Nat /\ Held(r, w) < Wrap /\ (r = w <=> Held(r, w) = 0)
  BY Counted, Sizes DEF Index
<1>2. (r + PIPESIZE) % Wrap = IF r + PIPESIZE < Wrap THEN r + PIPESIZE ELSE r + PIPESIZE - Wrap
  <2>1. CASE r + PIPESIZE < Wrap
    <3>1. r + PIPESIZE \in 0 .. Wrap - 1
      BY <2>1, Sizes DEF Index
    <3>2. (r + PIPESIZE) % Wrap = r + PIPESIZE
      BY <3>1, Sizes, ModSmall, Zenon
    <3> QED
      BY <2>1, <3>2, Zenon
  <2>2. CASE ~(r + PIPESIZE < Wrap)
    <3> DEFINE e == r + PIPESIZE - Wrap
    <3>1. e \in 0 .. Wrap - 1 /\ r + PIPESIZE = e + Wrap
      BY <2>2, Sizes DEF Index
    <3> HIDE DEF e
    <3>2. (e + Wrap) % Wrap = e
      BY <3>1, Sizes, ModSmall, Zenon
    <3> QED
      BY <2>2, <3>1, <3>2, Zenon DEF e
  <2> QED
    BY <2>1, <2>2, Zenon
<1>3. w = (r + PIPESIZE) % Wrap <=> Held(r, w) = PIPESIZE
  BY <1>2, Counted, Sizes DEF Index
<1> QED
  BY <1>1, <1>3, Zenon

(* pipewrite() stores right after the last byte of the queue. *)
LEMMA WriteCell ==
  ASSUME NEW r \in Index, NEW w \in Index
  PROVE  w % PIPESIZE = (r + Held(r, w)) % PIPESIZE
<1>1. CASE r <= w
  <2>1. r + Held(r, w) = w
    BY <1>1, Counted, Sizes DEF Index
  <2> QED
    BY <2>1, Zenon
<1>2. CASE ~(r <= w)
  <2>1. r + Held(r, w) = w + Wrap
    BY <1>2, Counted, Sizes DEF Index
  <2> QED
    BY <2>1, SameCell DEF Index
<1> QED
  BY <1>1, <1>2, Zenon

-----------------------------------------------------------------------------
(* The indices of data. *)
Cell == 0 .. PIPESIZE - 1

(* The k-th byte of the ring d from nread = r on, and those up to nwrite = w. *)
At(d, r, k) == d[(r + k - 1) % PIPESIZE]
QueueOf(d, r, w) == [k \in 1 .. Held(r, w) |-> At(d, r, k)]

(* The index into data is within its bounds. *)
LEMMA InRing ==
  ASSUME NEW a \in Nat
  PROVE  a % PIPESIZE \in Cell
BY DivMod, Sizes, Zenon DEF Cell

(* data holds bytes, and the one junk byte of kalloc(). *)
Stored == Byte \cup {CHOOSE x \in Byte : TRUE}

(* The bytes in the pipe, oldest first. *)
LEMMA QueueType ==
  ASSUME NEW d \in [Cell -> Stored], NEW r \in Index, NEW w \in Index
  PROVE  /\ QueueOf(d, r, w) \in Seq(Stored) /\ Len(QueueOf(d, r, w)) = Held(r, w)
         /\ \A k \in 1 .. Held(r, w) : QueueOf(d, r, w)[k] = At(d, r, k)
<1>1. ASSUME NEW k \in 1 .. Held(r, w) PROVE At(d, r, k) \in Stored
  <2>1. r + k - 1 \in Nat
    BY <1>1, HeldType DEF Index
  <2> QED
    BY <2>1, InRing, Zenon DEF At
<1>2. Held(r, w) \in Nat
  BY HeldType, Zenon
<1> QED
  BY <1>1, <1>2 DEF QueueOf

(* Storing a byte at nwrite % PIPESIZE and then advancing nwrite appends it. *)
LEMMA Pushed ==
  ASSUME NEW d \in [Cell -> Stored], NEW x \in Stored, NEW r \in Index, NEW w \in Index,
         Held(r, w) < PIPESIZE
  PROVE  LET v == (w + 1) % Wrap
         IN  /\ v \in Index /\ Held(r, v) = Held(r, w) + 1
             /\ QueueOf([d EXCEPT ![w % PIPESIZE] = x], r, v) = Append(QueueOf(d, r, w), x)
<1> DEFINE v == (w + 1) % Wrap
           c == Held(r, w)
           e == [d EXCEPT ![w % PIPESIZE] = x]
           s == QueueOf(e, r, v)
           t == QueueOf(d, r, w)
<1>1. v = IF w + 1 = Wrap THEN 0 ELSE w + 1
  BY Incremented, Zenon
<1> HIDE DEF v
<1>2. v \in Index
  BY <1>1, Sizes DEF Index
<1>3. c \in Nat /\ c < PIPESIZE
  BY HeldType, Zenon
<1>4. Held(r, v) = c + 1
  <2>1. /\ Held(r, v) = (IF r <= v THEN v - r ELSE v + Wrap - r)
        /\ c = (IF r <= w THEN w - r ELSE w + Wrap - r)
    BY <1>2, Counted, Zenon
  <2>2. c < Wrap - 1 \/ c + 1 = PIPESIZE
    BY <1>3, Sizes
  <2> HIDE DEF c
  <2> QED
    BY <1>1, <1>3, <2>1, <2>2, Sizes DEF Index
<1>5. w % PIPESIZE \in Cell /\ e \in [Cell -> Stored]
  BY InRing DEF Index
<1>6. w % PIPESIZE = (r + c) % PIPESIZE
  BY WriteCell, Zenon
<1> HIDE DEF c
<1>7. s \in Seq(Stored) /\ Len(s) = c + 1 /\ \A k \in 1 .. c + 1 : s[k] = At(e, r, k)
  <2> HIDE DEF e
  <2>1. /\ s \in Seq(Stored) /\ Len(s) = Held(r, v)
        /\ \A k \in 1 .. Held(r, v) : s[k] = At(e, r, k)
    BY <1>2, <1>5, QueueType, Zenon
  <2> HIDE DEF s
  <2> QED
    BY <1>4, <2>1, Zenon
<1>8. t \in Seq(Stored) /\ Len(t) = c /\ \A k \in 1 .. c : t[k] = At(d, r, k)
  BY QueueType, Zenon DEF c
<1> HIDE DEF s, t
<1>9. Append(t, x) \in Seq(Stored) /\ Len(Append(t, x)) = c + 1 /\ Append(t, x)[c + 1] = x
      /\ \A k \in 1 .. c : Append(t, x)[k] = t[k]
  BY <1>8, AppendProperties
<1>10. ASSUME NEW k \in 1 .. c + 1 PROVE s[k] = Append(t, x)[k]
  <2>1. CASE k = c + 1
    <3>1. (r + k - 1) = r + c
      BY <1>3, <2>1 DEF Index
    <3> QED
      BY <1>5, <1>6, <1>7, <1>9, <2>1, <3>1, Zenon DEF At
  <2>2. CASE k # c + 1
    <3>1. k \in 1 .. c /\ k - 1 \in 0 .. PIPESIZE - 1 /\ c \in 0 .. PIPESIZE - 1 /\ k - 1 # c
      BY <1>3, <1>10, <2>2, Sizes
    <3>2. (r + (k - 1)) % PIPESIZE # (r + c) % PIPESIZE
      <4>1. r \in Nat /\ PIPESIZE \in Nat \ {0}
        BY Sizes DEF Index
      <4> DEFINE l == k - 1
      <4> HIDE DEF l
      <4>2. l \in 0 .. PIPESIZE - 1 /\ l # c
        BY <3>1, Zenon DEF l
      <4>3. (r + l) % PIPESIZE # (r + c) % PIPESIZE
        BY <3>1, <4>1, <4>2, ModApart, Zenon
      <4> QED
        BY <4>3, Zenon DEF l
    <3>3. r + k - 1 = r + (k - 1) /\ r + k - 1 \in Nat
      BY <3>1 DEF Index
    <3>4. At(e, r, k) = At(d, r, k)
      BY <1>5, <1>6, <3>2, <3>3, InRing, Zenon DEF At
    <3> QED
      BY <1>7, <1>8, <1>9, <3>1, <3>4, Zenon
  <2> QED
    BY <2>1, <2>2, Zenon
<1>11. s = Append(t, x)
  BY <1>7, <1>9, <1>10, SeqEqual, Zenon
<1> QED
  BY <1>2, <1>4, <1>11, Zenon DEF v, c, s, t

(* Advancing nread takes the oldest byte out. *)
LEMMA Popped ==
  ASSUME NEW d \in [Cell -> Stored], NEW r \in Index, NEW w \in Index, r # w
  PROVE  LET q == (r + 1) % Wrap
         IN  /\ q \in Index /\ Held(q, w) = Held(r, w) - 1
             /\ QueueOf(d, r, w) # <<>> /\ QueueOf(d, q, w) = Tail(QueueOf(d, r, w))
<1> DEFINE q == (r + 1) % Wrap
           c == Held(r, w)
           s == QueueOf(d, q, w)
           t == QueueOf(d, r, w)
<1>1. q = IF r + 1 = Wrap THEN 0 ELSE r + 1
  BY Incremented, Zenon
<1> HIDE DEF q
<1>2. q \in Index
  BY <1>1, Sizes DEF Index
<1>3. c \in Nat /\ c # 0
  BY HeldType, Zenon
<1>4. Held(q, w) = c - 1
  BY <1>1, <1>2, Counted, Sizes DEF Index
<1> HIDE DEF c
<1>5. s \in Seq(Stored) /\ Len(s) = c - 1 /\ \A k \in 1 .. c - 1 : s[k] = At(d, q, k)
  <2>1. /\ s \in Seq(Stored) /\ Len(s) = Held(q, w)
        /\ \A k \in 1 .. Held(q, w) : s[k] = At(d, q, k)
    BY <1>2, QueueType, Zenon
  <2> HIDE DEF s
  <2> QED
    BY <1>4, <2>1, Zenon
<1>6. t \in Seq(Stored) /\ Len(t) = c /\ \A k \in 1 .. c : t[k] = At(d, r, k)
  BY QueueType, Zenon DEF c
<1> HIDE DEF s, t
<1>7. t # <<>>
  BY <1>3, <1>6
<1>8. Tail(t) \in Seq(Stored) /\ Len(Tail(t)) = c - 1 /\ \A k \in 1 .. c - 1 : Tail(t)[k] = t[k + 1]
  BY <1>6, <1>7, HeadTailProperties, Zenon
<1>9. ASSUME NEW k \in 1 .. c - 1 PROVE s[k] = Tail(t)[k]
  <2>1. k \in Nat /\ k >= 1 /\ k + 1 \in 1 .. c /\ r + (k + 1) - 1 = r + k
    BY <1>3, <1>9 DEF Index
  <2>2. (q + k - 1) % PIPESIZE = (r + k) % PIPESIZE
    <3>1. CASE r + 1 = Wrap
      <4>1. q + k - 1 = k - 1 /\ k - 1 \in Nat /\ r + k = (k - 1) + Wrap
        BY <1>1, <2>1, <3>1, Sizes DEF Index
      <4> QED
        BY <4>1, SameCell, Zenon
    <3>2. CASE r + 1 # Wrap
      BY <1>1, <2>1, <3>2 DEF Index
    <3> QED
      BY <3>1, <3>2, Zenon
  <2>3. At(d, q, k) = At(d, r, k + 1)
    BY <2>1, <2>2, Zenon DEF At
  <2> QED
    BY <1>5, <1>6, <1>8, <2>1, <2>3, Zenon
<1>10. s = Tail(t)
  BY <1>5, <1>8, <1>9, SeqEqual, Zenon
<1> QED
  BY <1>2, <1>4, <1>7, <1>10, Zenon DEF q, c, s, t

-----------------------------------------------------------------------------
(* Where pipewrite() and piperead() can be. *)
WriterAt == {"user", "enter", "write", "sleep", "asleep"}
ReaderAt == {"user", "enter", "wait", "copy", "sleep", "asleep"}

(* The ring never holds more than PIPESIZE bytes, and a process inside a    *)
(* call keeps its end open: the inductive invariant.                        *)
RingOK ==
  /\ data \in [Cell -> Stored]
  /\ nread \in Index /\ nwrite \in Index /\ Held(nread, nwrite) <= PIPESIZE
EndsOpen ==
  /\ readopen \in BOOLEAN /\ writeopen \in BOOLEAN
  /\ pc \in [Proc -> WriterAt \cup ReaderAt]
  /\ \A p \in Writers : pc[p] \in WriterAt /\ (pc[p] # "user" => writeopen)
  /\ \A p \in Readers : pc[p] \in ReaderAt /\ (pc[p] # "user" => readopen)
PipeInv == RingOK /\ EndsOpen

(* The queue of the channel is the part of the ring between nread and nwrite. *)
LEMMA QueueIs == Queue = QueueOf(data, nread, nwrite) /\ Count = Held(nread, nwrite)
BY Zenon DEF Queue, QueueOf, At, Count, Held

(* pipealloc() makes an empty pipe with both ends open. *)
LEMMA InitPipe == Init => PipeInv /\ Fifo!Init
<1> SUFFICES ASSUME Init PROVE PipeInv /\ Fifo!Init
  BY Zenon
<1>1. nread = 0 /\ nwrite = 0 /\ 0 \in Index /\ PIPESIZE \in Nat
  BY Sizes DEF Init, Index
<1>2. Held(0, 0) = 0
  BY <1>1, HeldType, Zenon
<1>3. RingOK
  <2>1. data \in [Cell -> Stored]
    BY Zenon DEF Init, Cell, Stored
  <2> QED
    BY <1>1, <1>2, <2>1 DEF RingOK
<1>4. EndsOpen
  BY Zenon DEF Init, EndsOpen, Proc, WriterAt, ReaderAt
<1>5. Queue = <<>>
  <2>1. QueueOf(data, 0, 0) \in Seq(Stored) /\ Len(QueueOf(data, 0, 0)) = 0
    BY <1>1, <1>2, <1>3, QueueType, Zenon DEF RingOK
  <2> QED
    BY <1>1, <2>1, QueueIs, EmptySeq, Zenon
<1> QED
  BY <1>3, <1>4, <1>5, Zenon DEF PipeInv, Fifo!Init, Init

(* A step that leaves the ring alone leaves the queue alone. *)
LEMMA RingFrame ==
  ASSUME RingOK, UNCHANGED <<data, nread, nwrite>>
  PROVE  RingOK' /\ Queue' = Queue
BY Zenon DEF RingOK, Queue, Count

(* wakeup() moves sleepers to the lock, and no process in or out of a call. *)
LEMMA WakeupEnds ==
  ASSUME EndsOpen, NEW S
  PROVE  /\ wakeup(pc, S) \in [Proc -> WriterAt \cup ReaderAt]
         /\ \A p \in Proc : \/ wakeup(pc, S)[p] = pc[p]
                            \/ wakeup(pc, S)[p] = "enter" /\ pc[p] = "asleep"
<1>1. pc \in [Proc -> WriterAt \cup ReaderAt] /\ "enter" \in WriterAt
  BY Zenon DEF EndsOpen, WriterAt
<1>2. \A p \in Proc : wakeup(pc, S)[p] = IF p \in S /\ pc[p] = "asleep" THEN "enter" ELSE pc[p]
  BY Zenon DEF wakeup
<1>3. wakeup(pc, S) \in [Proc -> WriterAt \cup ReaderAt]
  BY <1>1, Zenon DEF wakeup
<1> QED
  BY <1>2, <1>3, Zenon

(* The ends stay open under a process that stays in its call. *)
LEMMA EndsFrame ==
  ASSUME EndsOpen, UNCHANGED <<readopen, writeopen>>,
         pc' \in [Proc -> WriterAt \cup ReaderAt],
         \A p \in Proc : /\ p \in Writers => pc'[p] \in WriterAt
                         /\ p \in Readers => pc'[p] \in ReaderAt
                         /\ pc'[p] # "user" => pc[p] # "user"
  PROVE  EndsOpen'
BY Zenon DEF EndsOpen, Proc

(* A call that returns, whoever it wakes. *)
LEMMA ReturnEnds ==
  ASSUME EndsOpen, UNCHANGED <<readopen, writeopen>>, NEW p \in Proc, NEW S,
         Return(p, pc) \/ Return(p, wakeup(pc, S))
  PROVE  EndsOpen'
<1> DEFINE f == wakeup(pc, S)
<1>1. pc' = [pc EXCEPT ![p] = "user"] \/ pc' = [f EXCEPT ![p] = "user"]
  BY Zenon DEF Return
<1>0. /\ f \in [Proc -> WriterAt \cup ReaderAt] /\ pc \in [Proc -> WriterAt \cup ReaderAt]
      /\ \A q \in Proc : f[q] = pc[q] \/ (f[q] = "enter" /\ pc[q] = "asleep")
  BY WakeupEnds, Zenon DEF EndsOpen
<1> HIDE DEF f
<1>2. /\ pc' \in [Proc -> WriterAt \cup ReaderAt]
      /\ \A q \in Proc : \/ pc'[q] = pc[q]
                         \/ pc'[q] = "enter" /\ pc[q] = "asleep"
                         \/ pc'[q] = "user"
  BY <1>0, <1>1, Zenon DEF WriterAt
<1> QED
  BY <1>2, EndsFrame, Zenon DEF EndsOpen, Proc, WriterAt, ReaderAt

(* Every step but the ones that move a byte or close an end: the queue and  *)
(* the ends are as they were.                                               *)
Quiet(p) ==
  \/ acquire(p) \/ sleep(p) \/ kill(p) \/ (\E k \in Lengths : call(p, k))
  \/ write_end(p) \/ write_fail(p) \/ write_full(p) \/ read_wait(p) \/ read_end(p)

(* Calling, waiting, sleeping, being killed and returning move no byte. *)
LEMMA QuietStep ==
  ASSUME PipeInv, NEW p \in Proc, Quiet(p)
  PROVE  PipeInv' /\ UNCHANGED <<Queue, readopen, writeopen>>
<1>1. UNCHANGED <<data, nread, nwrite, readopen, writeopen>>
  BY Zenon
     DEF Quiet, acquire, sleep, kill, call, write_end, write_fail, write_full, read_wait, read_end, pipe
<1>2. EndsOpen /\ pc \in [Proc -> WriterAt \cup ReaderAt]
      /\ \A q \in Proc : (q \in Writers => pc[q] \in WriterAt) /\ (q \in Readers => pc[q] \in ReaderAt)
  BY Zenon DEF PipeInv, EndsOpen
<1>3. EndsOpen'
  <2>1. CASE \E k \in Lengths : call(p, k)
    BY <1>1, <1>2, <2>1, PipeAssumption, SMTT(30)
       DEF call, Goto, EndsOpen, Proc, WriterAt, ReaderAt
  <2>2. CASE acquire(p)
    <3>1. pc[p] = "enter" /\ pc' = [pc EXCEPT ![p] = IF p \in Writers THEN "write" ELSE "wait"]
      BY <2>2, Zenon DEF acquire, Goto
    <3>2. p \in Readers => p \notin Writers
      BY PipeAssumption, Zenon
    <3> QED
      BY <1>1, <1>2, <3>1, <3>2, EndsFrame, Zenon DEF WriterAt, ReaderAt
  <2>3. CASE sleep(p)
    <3>1. pc[p] = "sleep" /\ pc' = [pc EXCEPT ![p] = "asleep"]
      BY <2>3, Zenon DEF sleep, Goto
    <3> QED
      BY <1>1, <1>2, <3>1, EndsFrame, Zenon DEF WriterAt, ReaderAt
  <2>4. CASE kill(p)
    <3>1. pc' = pc \/ (pc[p] = "asleep" /\ pc' = [pc EXCEPT ![p] = "enter"])
      BY <2>4, Zenon DEF kill
    <3> QED
      BY <1>1, <1>2, <3>1, EndsFrame, Zenon DEF WriterAt, ReaderAt
  <2>5. CASE write_end(p) \/ write_fail(p) \/ read_end(p)
    BY <1>1, <1>2, <2>5, ReturnEnds, Zenon DEF write_end, write_fail, read_end
  <2>6. CASE write_full(p)
    <3>1. pc[p] = "write" /\ pc' = [wakeup(pc, Readers) EXCEPT ![p] = "sleep"]
      BY <2>6, Zenon DEF write_full
    <3> DEFINE f == wakeup(pc, Readers)
    <3>0. /\ f \in [Proc -> WriterAt \cup ReaderAt]
          /\ \A q \in Proc : f[q] = pc[q] \/ (f[q] = "enter" /\ pc[q] = "asleep")
      BY <1>2, WakeupEnds, Zenon
    <3> HIDE DEF f
    <3>3. pc' = [f EXCEPT ![p] = "sleep"]
      BY <3>1, Zenon DEF f
    <3>2. /\ pc' \in [Proc -> WriterAt \cup ReaderAt]
          /\ \A q \in Proc : \/ pc'[q] = pc[q]
                             \/ pc'[q] = "enter" /\ pc[q] = "asleep"
                             \/ pc'[q] = "sleep" /\ pc[q] = "write"
      BY <3>0, <3>1, <3>3, Zenon DEF WriterAt
    <3> QED
      BY <1>1, <1>2, <3>2, EndsFrame, Zenon DEF WriterAt, ReaderAt
  <2>7. CASE read_wait(p)
    <3>1. CASE Return(p, pc)
      BY <1>1, <1>2, <3>1, ReturnEnds, Zenon
    <3>2. CASE pc[p] = "wait" /\ (Goto(p, "copy") \/ Goto(p, "sleep"))
      <4>1. p \notin Writers
        BY <1>2, <3>2, Zenon DEF WriterAt
      <4> QED
        BY <1>1, <1>2, <3>2, <4>1, EndsFrame, Zenon DEF Goto, WriterAt, ReaderAt
    <3> QED
      BY <2>7, <3>1, <3>2, Zenon DEF read_wait
  <2> QED
    BY <2>1, <2>2, <2>3, <2>4, <2>5, <2>6, <2>7, Zenon DEF Quiet
<1> QED
  BY <1>1, <1>3, RingFrame, Zenon DEF PipeInv

(* pipewrite() sends a byte. *)
LEMMA WriteStep ==
  ASSUME PipeInv, NEW p \in Proc, NEW x \in Byte, write_byte(p, x)
  PROVE  PipeInv' /\ Fifo!Send(x)
<1>1. /\ pc[p] = "write" /\ readopen /\ ~Full
      /\ data' = [data EXCEPT ![nwrite % PIPESIZE] = x] /\ nwrite' = (nwrite + 1) % Wrap
      /\ UNCHANGED <<nread, readopen, writeopen, pc>>
  BY Zenon DEF write_byte
<1>2. writeopen
  BY <1>1, Zenon DEF PipeInv, EndsOpen, Proc, ReaderAt
<1>3. /\ data \in [Cell -> Stored] /\ x \in Stored /\ nread \in Index /\ nwrite \in Index
      /\ Held(nread, nwrite) \in Nat /\ Held(nread, nwrite) < PIPESIZE
  <2>1. data \in [Cell -> Stored] /\ nread \in Index /\ nwrite \in Index /\ Held(nread, nwrite) <= PIPESIZE
    BY Zenon DEF PipeInv, RingOK
  <2>2. Held(nread, nwrite) \in Nat /\ Held(nread, nwrite) # PIPESIZE
    BY <1>1, <2>1, HeldType, Zenon DEF Full
  <2> QED
    BY <2>1, <2>2, Sizes DEF Stored
<1>4. /\ nwrite' \in Index /\ Held(nread, nwrite') = Held(nread, nwrite) + 1
      /\ QueueOf(data', nread, nwrite') = Append(QueueOf(data, nread, nwrite), x)
  BY <1>1, <1>3, Pushed, ZenonT(30)
<1>5. RingOK'
  <2>1. data' \in [Cell -> Stored]
    BY <1>1, <1>3, Zenon
  <2>2. Held(nread, nwrite') <= PIPESIZE
    BY <1>3, <1>4, Sizes
  <2> QED
    BY <1>1, <1>3, <1>4, <2>1, <2>2, Zenon DEF RingOK
<1>6. EndsOpen'
  BY <1>1, Zenon DEF PipeInv, EndsOpen
<1>7. Queue = QueueOf(data, nread, nwrite) /\ Queue' = QueueOf(data', nread', nwrite')
  BY Zenon DEF Queue, QueueOf, At, Count, Held
<1>8. Len(Queue) < PIPESIZE
  BY <1>3, <1>7, QueueType, Zenon
<1> QED
  BY <1>1, <1>2, <1>4, <1>5, <1>6, <1>7, <1>8, Zenon DEF PipeInv, Fifo!Send

(* piperead() receives a byte, also when copyout() then fails. *)
LEMMA ReadStep ==
  ASSUME PipeInv, NEW p \in Proc, read_byte(p)
  PROVE  PipeInv' /\ Fifo!Receive
<1>1. /\ pc[p] = "copy" /\ nread # nwrite /\ nread' = (nread + 1) % Wrap
      /\ UNCHANGED <<data, nwrite, readopen, writeopen>>
      /\ pc' = pc \/ Return(p, wakeup(pc, Writers))
  BY Zenon DEF read_byte, Empty
<1>2. readopen
  BY <1>1, Zenon DEF PipeInv, EndsOpen, Proc, WriterAt
<1>3. data \in [Cell -> Stored] /\ nread \in Index /\ nwrite \in Index /\ Held(nread, nwrite) <= PIPESIZE
  BY Zenon DEF PipeInv, RingOK
<1>4. /\ nread' \in Index /\ Held(nread', nwrite) = Held(nread, nwrite) - 1
      /\ QueueOf(data, nread, nwrite) # <<>>
      /\ QueueOf(data, nread', nwrite) = Tail(QueueOf(data, nread, nwrite))
  BY <1>1, <1>3, Popped, Zenon
<1>5. RingOK'
  <2>1. Held(nread', nwrite) <= PIPESIZE
    BY <1>3, <1>4, HeldType, Sizes
  <2> QED
    BY <1>1, <1>3, <1>4, <2>1, Zenon DEF RingOK
<1>6. EndsOpen'
  <2>1. CASE pc' = pc
    BY <1>1, <2>1, Zenon DEF PipeInv, EndsOpen
  <2>2. CASE Return(p, wakeup(pc, Writers))
    BY <1>1, <2>2, ReturnEnds, Zenon DEF PipeInv
  <2> QED
    BY <1>1, <2>1, <2>2, Zenon
<1>7. Queue = QueueOf(data, nread, nwrite) /\ Queue' = QueueOf(data', nread', nwrite')
  BY Zenon DEF Queue, QueueOf, At, Count, Held
<1> QED
  BY <1>1, <1>2, <1>4, <1>5, <1>6, <1>7, Zenon DEF PipeInv, Fifo!Receive

(* pipeclose() closes one end, which no process uses any more. *)
LEMMA CloseStep ==
  ASSUME PipeInv, NEW wr \in BOOLEAN, pipeclose(wr)
  PROVE  PipeInv' /\ (Fifo!CloseRead \/ Fifo!CloseWrite)
<1>1. UNCHANGED <<data, nread, nwrite>>
  BY Zenon DEF pipeclose
<1>2. RingOK' /\ Queue' = Queue
  BY <1>1, RingFrame, Zenon DEF PipeInv
<1>3. CASE wr
  <2>1. AllOut(Writers) /\ writeopen' = FALSE /\ pc' = wakeup(pc, Readers) /\ readopen' = readopen
    BY <1>3, Zenon DEF pipeclose
  <2>2. EndsOpen'
    <3>1. /\ pc' \in [Proc -> WriterAt \cup ReaderAt]
          /\ \A p \in Proc : pc'[p] = pc[p] \/ (pc'[p] = "enter" /\ pc[p] = "asleep")
      BY <2>1, WakeupEnds, Zenon DEF PipeInv
    <3> QED
      BY <2>1, <3>1, Zenon DEF PipeInv, EndsOpen, AllOut, Proc, WriterAt, ReaderAt
  <2> QED
    BY <1>2, <2>1, <2>2, Zenon DEF PipeInv, Fifo!CloseWrite
<1>4. CASE ~wr
  <2>1. AllOut(Readers) /\ readopen' = FALSE /\ pc' = wakeup(pc, Writers) /\ writeopen' = writeopen
    BY <1>4, Zenon DEF pipeclose
  <2>2. EndsOpen'
    <3>1. /\ pc' \in [Proc -> WriterAt \cup ReaderAt]
          /\ \A p \in Proc : pc'[p] = pc[p] \/ (pc'[p] = "enter" /\ pc[p] = "asleep")
      BY <2>1, WakeupEnds, Zenon DEF PipeInv
    <3> QED
      BY <2>1, <3>1, Zenon DEF PipeInv, EndsOpen, AllOut, Proc, WriterAt, ReaderAt
  <2> QED
    BY <1>2, <2>1, <2>2, Zenon DEF PipeInv, Fifo!CloseRead
<1> QED
  BY <1>3, <1>4, Zenon

(* Every step of the pipe is a step of the channel, or none. *)
LEMMA NextPipe == PipeInv /\ [Next]_vars => PipeInv' /\ [Fifo!Next]_(Fifo!vars)
<1> SUFFICES ASSUME PipeInv, [Next]_vars PROVE PipeInv' /\ [Fifo!Next]_(Fifo!vars)
  BY Zenon
<1>1. CASE UNCHANGED vars
  <2>1. EndsOpen' /\ UNCHANGED <<data, nread, nwrite, readopen, writeopen>>
    BY <1>1, Zenon DEF vars, PipeInv, EndsOpen
  <2> QED
    BY <2>1, RingFrame, Zenon DEF PipeInv, Fifo!vars
<1>2. ASSUME NEW p \in Proc, Quiet(p) PROVE PipeInv' /\ UNCHANGED Fifo!vars
  BY <1>2, QuietStep, Zenon DEF Fifo!vars
<1>3. ASSUME NEW p \in Proc, NEW x \in Byte, write_byte(p, x) PROVE PipeInv' /\ Fifo!Next
  BY <1>3, WriteStep, Zenon DEF Fifo!Next
<1>4. ASSUME NEW p \in Proc, read_byte(p) PROVE PipeInv' /\ Fifo!Next
  BY <1>4, ReadStep, Zenon DEF Fifo!Next
<1>5. ASSUME NEW wr \in BOOLEAN, pipeclose(wr) PROVE PipeInv' /\ Fifo!Next
  BY <1>5, CloseStep, Zenon DEF Fifo!Next
<1>6. Next => \/ \E p \in Proc : Quiet(p) \/ read_byte(p) \/ \E x \in Byte : write_byte(p, x)
              \/ \E wr \in BOOLEAN : pipeclose(wr)
  BY Zenon DEF Next, Holding, Quiet
<1> QED
  BY <1>1, <1>2, <1>3, <1>4, <1>5, <1>6, Zenon

-----------------------------------------------------------------------------
(* The circular buffer of pipe.c, with its wrapping indices, any number of  *)
(* readers and writers, kill() and pipeclose() at any point, implements a   *)
(* bounded first-in first-out channel.                                      *)
THEOREM PipeImplementsChannel == Spec => ImplementsFifo
<1>1. Init => PipeInv /\ Fifo!Init
  BY InitPipe, Zenon
<1>2. PipeInv /\ [Next]_vars => PipeInv' /\ [Fifo!Next]_(Fifo!vars)
  BY NextPipe, Zenon
<1> QED
  BY <1>1, <1>2, PTL DEF Spec, ImplementsFifo, Fifo!Spec
=============================================================================
