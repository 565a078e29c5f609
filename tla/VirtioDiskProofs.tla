-------------------------- MODULE VirtioDiskProofs --------------------------
(***************************************************************************)
(* The disk driver for any processes, blocks, values and ring size: when   *)
(* virtio_disk_rw() returns, its request was carried out, and no panic is  *)
(* reached.                                                                *)
(*                                                                         *)
(* The heads of the chains that are in the avail ring, with the device or  *)
(* in the used ring are different ones, and each is that of a process that *)
(* waits for it.  A ring has room for them, since a chain takes three      *)
(* descriptors.                                                            *)
(***************************************************************************)
EXTENDS VirtioDisk, TLAPS

Index == 0 .. Wrap - 1
Label == {"idle", "alloc", "no_desc", "io", "woken", "return"}
Request == [write : BOOLEAN, block : Block \cup {None}]

Types ==
  /\ free \in SUBSET Desc /\ next \in [Desc -> Desc \cup {None}] /\ addr \in [Desc -> Proc \cup {None}]
  /\ op \in [Desc -> Request] /\ info \in [Desc -> Proc \cup {None}] /\ status \in [Desc -> BOOLEAN]
  /\ avail \in [Desc -> Desc] /\ used \in [Desc -> Desc] /\ inflight \in SUBSET Desc
  /\ avail_idx \in Index /\ fetched \in Index /\ dev_idx \in Index /\ used_idx \in Index
  /\ disk \in [Block -> Val] /\ data \in [Proc -> Val]
  /\ pc \in [Proc -> Label] /\ req \in [Proc -> Request] /\ head \in [Proc -> Desc \cup {None}]

(* The entries of a ring between the indices lo and hi. *)
Held(lo, hi) == IF lo <= hi THEN hi - lo ELSE hi + Wrap - lo
Entry(ring, lo, k) == ring[(lo + k) % NUM]
Entries(ring, lo, hi) == {Entry(ring, lo, k) : k \in 0 .. Held(lo, hi) - 1}
Distinct(ring, lo, hi) ==
  \A i, j \in 0 .. Held(lo, hi) - 1 : Entry(ring, lo, i) = Entry(ring, lo, j) => i = j

(* The heads of the chains that the device will take, and of those that     *)
(* virtio_disk_intr() will see.                                             *)
Waiting == Entries(avail, fetched, avail_idx)
Done == Entries(used, used_idx, dev_idx)
Rings ==
  /\ Distinct(avail, fetched, avail_idx) /\ Distinct(used, used_idx, dev_idx)
  /\ Waiting \cap inflight = {} /\ Waiting \cap Done = {} /\ inflight \cap Done = {}

(* Processes in virtio_disk_rw() work on different blocks. *)
Requests ==
  \A p \in Proc : pc[p] # "idle" =>
    req[p].block \in Block /\ \A q \in Proc \ {p} : pc[q] # "idle" => req[q].block # req[p].block

(* A process that waits, or has been woken, has a chain, no part of which   *)
(* is free or another's.                                                    *)
Active == {"io", "woken"}
Own(p) ==
  /\ head[p] \in Desc /\ next[head[p]] \in Desc /\ next[next[head[p]]] \in Desc
  /\ next[head[p]] # head[p] /\ Chain(head[p]) \cap free = {}
  /\ info[head[p]] = p /\ addr[next[head[p]]] = p /\ op[head[p]] = req[p]
Apart(p, q) == Chain(head[p]) \cap Chain(head[q]) = {}
Chains ==
  \A p \in Proc : pc[p] \in Active => Own(p) /\ \A q \in Proc \ {p} : pc[q] \in Active => Apart(p, q)

Owners ==
  \A h \in Waiting \cup inflight \cup Done :
    info[h] \in Proc /\ pc[info[h]] = "io" /\ head[info[h]] = h

(* The request has been carried out. *)
Agree(p) == data[p] = disk[req[p].block]
Results ==
  /\ \A h \in Done : status[h] = TRUE /\ Agree(info[h])
  /\ \A p \in Proc : pc[p] \in {"woken", "return"} => Agree(p)

Inv == Types /\ Rings /\ Requests /\ Chains /\ Owners /\ Results /\ panicked = FALSE

-----------------------------------------------------------------------------
(* Arithmetic of the rings. *)

(* Division with remainder. *)
LEMMA DivMod ==
  ASSUME NEW a \in Nat, NEW m \in Nat \ {0}
  PROVE  a % m \in 0 .. m - 1 /\ \E q \in Nat : a = m * q + (a % m)
<1>1. a % m \in 0 .. m - 1
  OBVIOUS
<1>2. a \div m \in Nat /\ a = m * (a \div m) + (a % m)
  OBVIOUS
<1> QED
  BY <1>1, <1>2, Zenon

(* The remainder is the one below the modulus. *)
LEMMA ModUnique ==
  ASSUME NEW m \in Nat \ {0}, NEW q \in Nat, NEW r \in 0 .. m - 1
  PROVE  (m * q + r) % m = r
OBVIOUS

(* Whole turns do not change the remainder. *)
LEMMA ModShift ==
  ASSUME NEW m \in Nat \ {0}, NEW q \in Nat, NEW a \in Nat
  PROVE  (a + m * q) % m = a % m
<1>1. PICK d \in Nat : a = m * d + (a % m) /\ a % m \in 0 .. m - 1
  BY DivMod, Zenon
<1> DEFINE r == a % m
<1> HIDE DEF r
<1>2. a + m * q = m * (d + q) + r /\ d + q \in Nat /\ r \in 0 .. m - 1
  BY <1>1 DEF r
<1>3. (m * (d + q) + r) % m = r
  BY <1>2, ModUnique, Zenon
<1> QED
  BY <1>2, <1>3, Zenon DEF r

(* Neighbours in a ring of m entries are at different places. *)
LEMMA ModApart ==
  ASSUME NEW m \in Nat \ {0}, NEW a \in Nat, NEW k \in 0 .. m - 1, NEW l \in 0 .. m - 1, k < l
  PROVE  (a + k) % m # (a + l) % m
<1> DEFINE x == a + k
           y == a + l
<1>1. l - k \in 1 .. m - 1 /\ y = x + (l - k) /\ x \in Nat /\ y \in Nat
  OBVIOUS
<1> HIDE DEF x, y
<1>2. PICK c \in Nat : x = m * c + (x % m)
  BY <1>1, DivMod, Zenon
<1>3. PICK d \in Nat : y = m * d + (y % m)
  BY <1>1, DivMod, Zenon
<1> SUFFICES ASSUME x % m = y % m PROVE FALSE
  BY Zenon DEF x, y
<1>4. m * d = m * c + (l - k)
  BY <1>2, <1>3, <1>1
<1>5. CASE d <= c
  <2>1. m * (c - d) \in Nat /\ m * c = m * d + m * (c - d)
    BY <1>5
  <2> QED
    BY <1>1, <1>4, <2>1
<1>6. CASE d > c
  <2>1. m * (d - c - 1) \in Nat /\ m * d = m * c + m + m * (d - c - 1)
    BY <1>6
  <2> QED
    BY <1>1, <1>4, <2>1
<1> QED
  BY <1>5, <1>6

(* The range of the indices is several times the size of a ring. *)
LEMMA Sizes ==
  ASSUME VirtioDiskAssumption
  PROVE  /\ NUM \in Nat \ {0} /\ NUM >= 3 /\ Wrap \in Nat \ {0} /\ NUM <= Wrap
         /\ \E q \in Nat : Wrap = NUM * q
<1>1. NUM \in Nat \ {0} /\ NUM >= 3 /\ Wrap \in Nat \ {0} /\ NUM <= Wrap /\ Wrap % NUM = 0
  BY DEF VirtioDiskAssumption
<1>2. PICK q \in Nat : Wrap = NUM * q + (Wrap % NUM)
  BY <1>1, DivMod, Zenon
<1>3. Wrap = NUM * q
  BY <1>1, <1>2
<1> QED
  BY <1>1, <1>3, Zenon

(* An index is incremented modulo the range of a uint16. *)
LEMMA Incremented ==
  ASSUME VirtioDiskAssumption, NEW a \in Index
  PROVE  Inc(a) = (IF a + 1 = Wrap THEN 0 ELSE a + 1) /\ Inc(a) \in Index
<1>1. Wrap \in Nat \ {0} /\ a \in Nat /\ a < Wrap
  BY Sizes DEF Index
<1>2. \A r \in 0 .. Wrap - 1 : r % Wrap = r /\ (r + Wrap) % Wrap = r
  BY <1>1
<1>3. CASE a + 1 = Wrap
  <2>1. (0 + Wrap) % Wrap = 0 /\ 0 + Wrap = a + 1 /\ 0 \in Index
    BY <1>1, <1>2, <1>3 DEF Index
  <2> QED
    BY <1>3, <2>1 DEF Inc
<1>4. CASE a + 1 # Wrap
  <2>1. a + 1 \in 0 .. Wrap - 1
    BY <1>1, <1>4
  <2> QED
    BY <1>2, <1>4, <2>1, Zenon DEF Inc, Index
<1> QED
  BY <1>3, <1>4, Zenon

(* It wraps around to the same place of the ring. *)
LEMMA NextPlace ==
  ASSUME VirtioDiskAssumption, NEW a \in Index, NEW k \in Nat
  PROVE  (Inc(a) + k) % NUM = (a + (k + 1)) % NUM
<1>1. NUM \in Nat \ {0} /\ Wrap \in Nat /\ a \in Nat
  BY Sizes DEF Index
<1>2. CASE a + 1 = Wrap
  <2>1. PICK q \in Nat : Wrap = NUM * q
    BY Sizes, Zenon
  <2>2. (k + NUM * q) % NUM = k % NUM
    BY <1>1, ModShift, Zenon
  <2>3. Inc(a) + k = k /\ k + NUM * q = a + (k + 1)
    BY <1>1, <1>2, <2>1, Incremented
  <2> QED
    BY <2>2, <2>3, Zenon
<1>3. CASE a + 1 # Wrap
  <2>1. Inc(a) + k = a + (k + 1)
    BY <1>1, <1>3, Incremented
  <2> QED
    BY <2>1, Zenon
<1> QED
  BY <1>2, <1>3, Zenon

(* The place of index b, counted from a. *)
LEMMA LastPlace ==
  ASSUME VirtioDiskAssumption, NEW a \in Index, NEW b \in Index
  PROVE  b % NUM = (a + Held(a, b)) % NUM
<1>1. NUM \in Nat \ {0} /\ Wrap \in Nat /\ a \in Nat /\ b \in Nat
  BY Sizes DEF Index
<1>2. CASE a <= b
  <2>1. a + Held(a, b) = b
    BY <1>1, <1>2 DEF Held
  <2> QED
    BY <2>1, Zenon
<1>3. CASE ~(a <= b)
  <2>1. PICK q \in Nat : Wrap = NUM * q
    BY Sizes, Zenon
  <2>2. (b + NUM * q) % NUM = b % NUM
    BY <1>1, ModShift, Zenon
  <2>3. a + Held(a, b) = b + NUM * q
    BY <1>1, <1>3, <2>1 DEF Held
  <2> QED
    BY <2>2, <2>3, Zenon
<1> QED
  BY <1>2, <1>3, Zenon

(* How many entries there are, and how that changes. *)
LEMMA HeldType ==
  ASSUME VirtioDiskAssumption, NEW a \in Index, NEW b \in Index
  PROVE  /\ Held(a, b) \in Nat /\ Held(a, b) < Wrap /\ (a = b <=> Held(a, b) = 0)
         /\ Held(a, b) + 1 < Wrap => Held(a, Inc(b)) = Held(a, b) + 1
         /\ a # b => Held(Inc(a), b) + 1 = Held(a, b)
<1>1. Wrap \in Nat \ {0} /\ a \in Nat /\ a < Wrap /\ b \in Nat /\ b < Wrap
  BY Sizes DEF Index
<1>2. Inc(a) = (IF a + 1 = Wrap THEN 0 ELSE a + 1) /\ Inc(b) = (IF b + 1 = Wrap THEN 0 ELSE b + 1)
  BY Incremented, Zenon
<1> QED
  BY <1>1, <1>2 DEF Held

(* Every place is in the ring. *)
LEMMA InRing ==
  ASSUME VirtioDiskAssumption, NEW a \in Nat
  PROVE  a % NUM \in Desc
BY DivMod, Sizes, Zenon DEF Desc

-----------------------------------------------------------------------------
(* What the driver and the device do to a ring. *)

(* An entry goes behind the last one, where there was none. *)
Adds(ring, lo, hi, h, new) ==
  /\ ring \in [Desc -> Desc] /\ lo \in Index /\ hi \in Index /\ Held(lo, hi) <= NUM - 2
  /\ Distinct(ring, lo, hi) /\ h \in Desc \ Entries(ring, lo, hi)
  /\ new = [ring EXCEPT ![hi % NUM] = h]

LEMMA Add ==
  ASSUME VirtioDiskAssumption, NEW ring, NEW lo, NEW hi, NEW h, NEW new, Adds(ring, lo, hi, h, new)
  PROVE  /\ new \in [Desc -> Desc] /\ Inc(hi) \in Index /\ Distinct(new, lo, Inc(hi))
         /\ Entries(new, lo, Inc(hi)) = Entries(ring, lo, hi) \cup {h}
<1> DEFINE m == Held(lo, hi)
<1>1. /\ ring \in [Desc -> Desc] /\ lo \in Index /\ hi \in Index /\ m <= NUM - 2
      /\ Distinct(ring, lo, hi) /\ h \in Desc /\ h \notin Entries(ring, lo, hi)
      /\ new = [ring EXCEPT ![hi % NUM] = h]
  BY Zenon DEF Adds
<1>2. /\ NUM \in Nat \ {0} /\ Wrap \in Nat /\ NUM <= Wrap /\ m \in Nat /\ lo \in Nat /\ hi \in Nat
      /\ m \in 0 .. NUM - 1 /\ m + 1 < Wrap
  BY <1>1, Sizes, HeldType DEF Index
<1>3. Held(lo, Inc(hi)) = m + 1 /\ Inc(hi) \in Index
  BY <1>1, <1>2, HeldType, Incremented, Zenon
<1>4. hi % NUM = (lo + m) % NUM /\ hi % NUM \in Desc
  BY <1>1, <1>2, LastPlace, InRing, Zenon
<1>5. new \in [Desc -> Desc]
  BY <1>1, <1>4, Zenon
<1>6. Entry(new, lo, m) = h
  BY <1>1, <1>4, Zenon DEF Entry
<1>7. ASSUME NEW k \in 0 .. m - 1 PROVE Entry(new, lo, k) = Entry(ring, lo, k)
  <2>1. k \in 0 .. NUM - 1 /\ k < m /\ lo + k \in Nat
    BY <1>2
  <2>2. (lo + k) % NUM # (lo + m) % NUM
    BY <1>2, <2>1, ModApart, Zenon
  <2>3. (lo + k) % NUM \in Desc
    BY <2>1, InRing, Zenon
  <2> QED
    BY <1>1, <1>4, <2>2, <2>3, Zenon DEF Entry
<1>8. 0 .. (m + 1) - 1 = (0 .. m - 1) \cup {m}
  BY <1>2
<1> HIDE DEF m
<1>9. Entries(ring, lo, hi) = {Entry(ring, lo, k) : k \in 0 .. m - 1}
  BY Zenon DEF Entries, m
<1>10. Entries(new, lo, Inc(hi)) = {Entry(new, lo, k) : k \in (0 .. m - 1) \cup {m}}
  BY <1>3, <1>8, Zenon DEF Entries
<1>11. Entries(new, lo, Inc(hi)) = Entries(ring, lo, hi) \cup {h}
  BY <1>6, <1>7, <1>9, <1>10, Zenon
<1>12. Distinct(new, lo, Inc(hi))
  <2> SUFFICES ASSUME NEW i \in (0 .. m - 1) \cup {m}, NEW j \in (0 .. m - 1) \cup {m},
                      Entry(new, lo, i) = Entry(new, lo, j)
               PROVE  i = j
    BY <1>3, <1>8, Zenon DEF Distinct
  <2>1. \A k \in 0 .. m - 1 : Entry(ring, lo, k) # h
    BY <1>1, <1>9, Zenon
  <2>2. \A k, l \in 0 .. m - 1 : Entry(ring, lo, k) = Entry(ring, lo, l) => k = l
    BY <1>1, Zenon DEF Distinct, m
  <2> QED
    BY <1>6, <1>7, <2>1, <2>2, Zenon
<1> QED
  BY <1>3, <1>5, <1>11, <1>12, Zenon

(* The first entry is taken out. *)
LEMMA Take ==
  ASSUME VirtioDiskAssumption, NEW ring, NEW lo \in Index, NEW hi \in Index, lo # hi,
         Distinct(ring, lo, hi)
  PROVE  /\ Inc(lo) \in Index /\ Distinct(ring, Inc(lo), hi)
         /\ ring[lo % NUM] \in Entries(ring, lo, hi)
         /\ Entries(ring, Inc(lo), hi) = Entries(ring, lo, hi) \ {ring[lo % NUM]}
<1> DEFINE m == Held(Inc(lo), hi)
           h == ring[lo % NUM]
<1>1. Inc(lo) \in Index /\ lo \in Nat
  BY Incremented, Sizes DEF Index
<1>2. m \in Nat /\ Held(lo, hi) = m + 1
  BY <1>1, HeldType, Zenon
<1>3. Entry(ring, lo, 0) = h
  <2>1. lo + 0 = lo
    BY <1>1
  <2> QED
    BY <2>1, Zenon DEF Entry
<1>4. \A k \in 0 .. m - 1 : Entry(ring, Inc(lo), k) = Entry(ring, lo, k + 1)
  <2>1. \A k \in 0 .. m - 1 : k \in Nat
    BY <1>2
  <2> QED
    BY <2>1, NextPlace, Zenon DEF Entry
<1> HIDE DEF m, h
<1>5. /\ Entries(ring, Inc(lo), hi) = {Entry(ring, Inc(lo), k) : k \in 0 .. m - 1}
      /\ Entries(ring, lo, hi) = {Entry(ring, lo, k) : k \in 0 .. (m + 1) - 1}
      /\ \A i, j \in 0 .. (m + 1) - 1 : Entry(ring, lo, i) = Entry(ring, lo, j) => i = j
  BY <1>2, Zenon DEF Entries, Distinct, m
<1>6. /\ \A k \in 0 .. (m + 1) - 1 : k = 0 \/ (k - 1 \in 0 .. m - 1 /\ (k - 1) + 1 = k)
      /\ \A k \in 0 .. m - 1 : k + 1 \in 0 .. (m + 1) - 1 /\ k + 1 # 0
      /\ 0 \in 0 .. (m + 1) - 1 /\ \A k, l \in 0 .. m - 1 : k + 1 = l + 1 => k = l
  BY <1>2
<1>7. Distinct(ring, Inc(lo), hi)
  <2> SUFFICES ASSUME NEW i \in 0 .. m - 1, NEW j \in 0 .. m - 1,
                      Entry(ring, Inc(lo), i) = Entry(ring, Inc(lo), j)
               PROVE  i = j
    BY Zenon DEF Distinct, m
  <2> QED
    BY <1>4, <1>5, <1>6, Zenon
<1>8. h \in Entries(ring, lo, hi)
  BY <1>3, <1>5, <1>6, Zenon
<1>9. \A x : x \in Entries(ring, Inc(lo), hi) <=> x \in Entries(ring, lo, hi) /\ x # h
  <2>1. ASSUME NEW k \in 0 .. m - 1
        PROVE  Entry(ring, Inc(lo), k) \in Entries(ring, lo, hi) /\ Entry(ring, Inc(lo), k) # h
    BY <1>3, <1>4, <1>5, <1>6, Zenon
  <2>2. ASSUME NEW k \in 0 .. (m + 1) - 1, Entry(ring, lo, k) # h
        PROVE  Entry(ring, lo, k) \in Entries(ring, Inc(lo), hi)
    <3>1. k - 1 \in 0 .. m - 1 /\ (k - 1) + 1 = k
      BY <1>3, <1>6, <2>2, Zenon
    <3>2. Entry(ring, Inc(lo), k - 1) = Entry(ring, lo, k)
      BY <1>4, <3>1, Zenon
    <3> QED
      BY <1>5, <3>1, <3>2, Zenon
  <2> QED
    BY <1>5, <2>1, <2>2, Zenon
<1> QED
  BY <1>1, <1>7, <1>8, <1>9, Zenon DEF h

-----------------------------------------------------------------------------
(* The chains of the processes. *)

(* The head of a chain under way is that of a process that waits for it. *)
LEMMA OwnerOf ==
  ASSUME Inv, NEW h \in Waiting \cup inflight \cup Done
  PROVE  /\ info[h] \in Proc /\ pc[info[h]] = "io" /\ head[info[h]] = h /\ h \in Desc
         /\ next[h] \in Desc /\ next[h] # h /\ addr[next[h]] = info[h] /\ op[h] = req[info[h]]
         /\ h \notin free /\ next[h] \notin free
<1>1. info[h] \in Proc /\ pc[info[h]] = "io" /\ head[info[h]] = h
  BY Zenon DEF Inv, Owners
<1>2. Own(info[h])
  BY <1>1, Zenon DEF Inv, Chains, Active
<1> QED
  BY <1>1, <1>2, Zenon DEF Own, Chain

(* No descriptor is in the chains of two processes. *)
LEMMA Private ==
  ASSUME Inv, NEW p \in Proc, NEW q \in Proc, p # q, pc[p] \in Active, pc[q] \in Active
  PROVE  head[p] # head[q] /\ next[head[p]] # head[q] /\ head[p] # next[head[q]]
<1>1. Apart(p, q)
  BY Zenon DEF Inv, Chains
<1> QED
  BY <1>1, Zenon DEF Apart, Chain

(* The rings, while nobody writes or advances them. *)
LEMMA SameRings ==
  ASSUME UNCHANGED <<avail, avail_idx, fetched, used, used_idx, dev_idx>>
  PROVE  /\ Waiting' = Waiting /\ Done' = Done
         /\ Distinct(avail, fetched, avail_idx)' <=> Distinct(avail, fetched, avail_idx)
         /\ Distinct(used, used_idx, dev_idx)' <=> Distinct(used, used_idx, dev_idx)
  BY Zenon DEF Waiting, Done

(* A step that leaves descriptors and rings alone, and wakes processes that *)
(* wait for descriptors at most, besides moving p. *)
Quiet(p) ==
  /\ UNCHANGED <<free, next, addr, op, info, status, avail, avail_idx, used, dev_idx, used_idx,
                 fetched, inflight, disk, head, panicked>>
  /\ pc' \in [Proc -> Label] /\ pc[p] \notin Active /\ pc'[p] \notin Active
  /\ \A q \in Proc \ {p} : req'[q] = req[q] /\ data'[q] = data[q]
                           /\ (pc'[q] = pc[q] \/ {pc[q], pc'[q]} \subseteq {"alloc", "no_desc"})

LEMMA QuietStep ==
  ASSUME Inv, NEW p \in Proc, Quiet(p), Types', Requests', pc'[p] = "return" => Agree(p)'
  PROVE  Inv'
<1>1. UNCHANGED <<free, next, addr, op, info, status, inflight, disk, head, panicked>>
  BY Zenon DEF Quiet
<1>2. \A q \in Proc \ {p} : /\ req'[q] = req[q] /\ data'[q] = data[q]
                            /\ pc'[q] = pc[q] \/ {pc[q], pc'[q]} \subseteq {"alloc", "no_desc"}
  BY Zenon DEF Quiet
<1>3. pc[p] \notin Active /\ pc'[p] \notin Active
  BY Zenon DEF Quiet
<1>4. \A q \in Proc : /\ pc'[q] \in Active <=> pc[q] \in Active
                      /\ pc[q] = "io" => pc'[q] = "io" /\ q # p
                      /\ pc'[q] \in Active => q # p
  BY <1>2, <1>3, Zenon DEF Active
<1>5. Waiting' = Waiting /\ Done' = Done /\ Rings'
  BY <1>1, SameRings, Zenon DEF Inv, Rings, Quiet
<1>6. Chains'
  <2>1. \A q, z \in Proc : Apart(q, z)' <=> Apart(q, z)
    BY <1>1, Zenon DEF Apart, Chain
  <2>2. \A q \in Proc : q # p /\ Own(q) => Own(q)'
    BY <1>1, <1>2, Zenon DEF Own, Chain
  <2> QED
    BY <1>4, <2>1, <2>2, Zenon DEF Inv, Chains
<1>7. Owners'
  BY <1>1, <1>4, <1>5, Zenon DEF Inv, Owners
<1>8. Results'
  <2>1. \A q \in Proc : q # p /\ Agree(q) => Agree(q)'
    BY <1>1, <1>2, Zenon DEF Agree
  <2>2. \A h \in Done : info[h] \in Proc /\ info[h] # p
    BY <1>4, Zenon DEF Inv, Owners
  <2>3. \A h \in Done' : status'[h] = TRUE /\ Agree(info[h])'
    BY <1>1, <1>5, <2>1, <2>2, Zenon DEF Inv, Results
  <2>4. \A q \in Proc : pc'[q] \in {"woken", "return"} => Agree(q)'
    BY <1>2, <1>3, <2>1, Zenon DEF Inv, Results, Active
  <2> QED
    BY <1>1, <2>3, <2>4, Zenon DEF Results
<1> QED
  BY <1>1, <1>5, <1>6, <1>7, <1>8, Zenon DEF Inv

(* call() gives the process a block that no other one is using. *)
LEMMA CallStep ==
  ASSUME VirtioDiskAssumption, Inv, NEW p \in Proc, NEW n \in Block, NEW v \in Val, NEW wr \in BOOLEAN,
         call(p, n, v, wr)
  PROVE  Inv'
<1>1. /\ pc[p] = "idle" /\ pc' = [pc EXCEPT ![p] = "alloc"] /\ \A q \in Proc : req[q].block # n
      /\ req' = [req EXCEPT ![p] = [write |-> wr, block |-> n]] /\ data' = [data EXCEPT ![p] = v]
      /\ UNCHANGED <<free, next, addr, op, info, status, avail, avail_idx, used, dev_idx, used_idx,
                     fetched, inflight, disk, head, panicked>>
  BY Zenon DEF call, drv
<1>2. Types
  BY Zenon DEF Inv
<1>3. Types'
  BY <1>1, <1>2 DEF Types, Label, Request
<1>4. req'[p].block = n /\ \A q \in Proc \ {p} : req'[q] = req[q] /\ pc'[q] = pc[q] /\ data'[q] = data[q]
  BY <1>1, <1>2 DEF Types
<1>5. pc'[p] = "alloc"
  BY <1>1, <1>2, Zenon DEF Types
<1>6. Requests'
  <2>1. \A q \in Proc \ {p} : req'[q].block # n
    BY <1>1, <1>4, Zenon
  <2>2. ASSUME NEW q \in Proc \ {p}, pc'[q] # "idle"
        PROVE  /\ req'[q].block \in Block
               /\ \A z \in Proc \ {q} : pc'[z] # "idle" => req'[z].block # req'[q].block
    <3>1. req[q].block \in Block /\ \A z \in Proc \ {q} : pc[z] # "idle" => req[z].block # req[q].block
      BY <1>4, <2>2, Zenon DEF Inv, Requests
    <3> QED
      BY <1>4, <2>1, <2>2, <3>1, Zenon
  <2>3. req'[p].block \in Block /\ \A z \in Proc \ {p} : req'[z].block # req'[p].block
    BY <1>4, <2>1, Zenon
  <2> QED
    BY <2>2, <2>3, Zenon DEF Requests
<1>7. Quiet(p)
  BY <1>1, <1>3, <1>4, <1>5, Zenon DEF Quiet, Types, Active
<1> QED
  BY <1>3, <1>5, <1>6, <1>7, QuietStep, Zenon

(* alloc3_desc() fails and gives back what it got: some that wait try again. *)
LEMMA AllocFailStep ==
  ASSUME VirtioDiskAssumption, Inv, NEW p \in Proc, alloc_fail(p)
  PROVE  Inv'
<1>1. /\ pc[p] = "alloc" /\ pc' = [(IF free = {} THEN pc ELSE WakeAlloc(pc)) EXCEPT ![p] = "no_desc"]
      /\ UNCHANGED <<free, next, addr, op, info, status, avail, avail_idx, used, dev_idx, used_idx,
                     fetched, inflight, disk, data, req, head, panicked>>
  BY Zenon DEF alloc_fail, drv, dev
<1>2. Types
  BY Zenon DEF Inv
<1>3. WakeAlloc(pc) \in [Proc -> Label]
  BY <1>2, Zenon DEF Types, WakeAlloc, Label
<1>4. /\ pc' \in [Proc -> Label] /\ pc'[p] = "no_desc"
      /\ \A q \in Proc \ {p} : pc'[q] = pc[q] \/ (pc[q] = "no_desc" /\ pc'[q] = "alloc")
  BY <1>1, <1>2, <1>3 DEF Types, WakeAlloc, Label
<1>5. Types'
  BY <1>1, <1>2, <1>4, Zenon DEF Types
<1>6. \A q \in Proc : pc'[q] # "idle" => pc[q] # "idle"
  BY <1>1, <1>4, Zenon
<1>7. Requests'
  BY <1>1, <1>6, Zenon DEF Inv, Requests
<1>8. Quiet(p)
  BY <1>1, <1>4, Zenon DEF Quiet, Active
<1> QED
  BY <1>4, <1>5, <1>7, <1>8, QuietStep, Zenon

(* virtio_disk_rw() returns and the buffer is forgotten. *)
LEMMA ReturnStep ==
  ASSUME VirtioDiskAssumption, Inv, NEW p \in Proc, return(p)
  PROVE  Inv'
<1>1. /\ pc[p] = "return" /\ pc' = [pc EXCEPT ![p] = "idle"]
      /\ req' = [req EXCEPT ![p] = NoReq] /\ data' = [data EXCEPT ![p] = InitVal]
      /\ UNCHANGED <<free, next, addr, op, info, status, avail, avail_idx, used, dev_idx, used_idx,
                     fetched, inflight, disk, head, panicked>>
  BY Zenon DEF return, drv
<1>2. Types
  BY Zenon DEF Inv
<1>3. Types'
  BY <1>1, <1>2 DEF Types, Label, Request, NoReq, VirtioDiskAssumption
<1>4. \A q \in Proc \ {p} : req'[q] = req[q] /\ pc'[q] = pc[q] /\ data'[q] = data[q]
  BY <1>1, <1>2 DEF Types
<1>5. pc'[p] = "idle"
  BY <1>1, <1>2, Zenon DEF Types
<1>6. Requests'
  BY <1>4, <1>5, Zenon DEF Inv, Requests
<1>7. Quiet(p)
  BY <1>1, <1>3, <1>4, <1>5, Zenon DEF Quiet, Types, Active
<1> QED
  BY <1>3, <1>5, <1>6, <1>7, QuietStep, Zenon

-----------------------------------------------------------------------------
(* The device takes the next chain from the avail ring. *)
LEMMA FetchStep ==
  ASSUME VirtioDiskAssumption, Inv, fetch
  PROVE  Inv'
<1> DEFINE h == avail[fetched % NUM]
<1>1. /\ fetched # avail_idx /\ inflight' = inflight \cup {h} /\ fetched' = Inc(fetched)
      /\ UNCHANGED <<free, next, addr, op, info, status, avail, avail_idx, used, dev_idx, used_idx,
                     disk, data, pc, req, head, panicked>>
  BY Zenon DEF fetch, drv, procs
<1> HIDE DEF h
<1>2. Types /\ Rings
  BY Zenon DEF Inv
<1>3. /\ fetched' \in Index /\ Distinct(avail, fetched, avail_idx)'
      /\ h \in Waiting /\ Waiting' = Waiting \ {h}
  <2>1. fetched \in Index /\ avail_idx \in Index /\ Distinct(avail, fetched, avail_idx)
    BY <1>2, Zenon DEF Types, Rings
  <2> QED
    BY <1>1, <2>1, Take, Zenon DEF Waiting, h
<1>4. Done' = Done /\ Distinct(used, used_idx, dev_idx)'
  BY <1>1, <1>2, Zenon DEF Done, Rings
<1>5. h \in Desc
  BY <1>3, OwnerOf, Zenon
<1>6. Types'
  BY <1>1, <1>2, <1>3, <1>5, Zenon DEF Types
<1>7. Rings'
  BY <1>1, <1>2, <1>3, <1>4, Zenon DEF Rings
<1>8. Requests' /\ Chains' /\ Results'
  BY <1>1, <1>4, Zenon DEF Inv, Requests, Chains, Own, Apart, Chain, Results, Agree
<1>9. Owners'
  BY <1>1, <1>3, <1>4, Zenon DEF Inv, Owners
<1> QED
  BY <1>1, <1>6, <1>7, <1>8, <1>9, Zenon DEF Inv

(* What counting says of the descriptors: a set of three or more has a      *)
(* least element, a second and a third; the entries of a ring, if two       *)
(* descriptors are not among them, leave two places.                        *)
Counting(D) ==
  /\ \A S \in SUBSET D : S # {} => Least(S) \in S
  /\ \A S \in SUBSET D, x, y \in D : Cardinality(S) >= 3 => S # {} /\ S \ {x} # {} /\ S \ {x, y} # {}
  /\ \A ring \in [D -> D], lo, hi \in Index, x, y \in D :
       x # y /\ {x, y} \cap Entries(ring, lo, hi) = {} /\ Distinct(ring, lo, hi) => Held(lo, hi) <= NUM - 2

(* The device finishes a request: it transfers between the buffer and the   *)
(* block of the process that waits for it, and no other process uses        *)
(* either.                                                                  *)
LEMMA CompleteStep ==
  ASSUME VirtioDiskAssumption, Counting(Desc), Inv, NEW h \in Desc, complete(h)
  PROVE  Inv'
<1>1. /\ h \in inflight /\ status' = [status EXCEPT ![h] = TRUE]
      /\ used' = [used EXCEPT ![dev_idx % NUM] = h] /\ dev_idx' = Inc(dev_idx)
      /\ inflight' = inflight \ {h}
      /\ UNCHANGED <<free, next, addr, op, info, avail, avail_idx, used_idx, fetched,
                     pc, req, head, panicked>>
  BY Zenon DEF complete, procs
<1>2. Types /\ Rings
  BY Zenon DEF Inv
<1>3. PICK p \in Proc : /\ p = info[h] /\ pc[p] = "io" /\ head[p] = h /\ next[h] \in Desc /\ next[h] # h
                       /\ addr[next[h]] = p /\ op[h] = req[p]
  BY <1>1, OwnerOf, Zenon
<1>4. IF req[p].write THEN disk' = [disk EXCEPT ![req[p].block] = data[p]] /\ data' = data
      ELSE data' = [data EXCEPT ![p] = disk[req[p].block]] /\ disk' = disk
  BY <1>3, Zenon DEF complete
<1>5. req[p].block \in Block /\ \A q \in Proc \ {p} : pc[q] # "idle" => req[q].block # req[p].block
  BY <1>3, Zenon DEF Inv, Requests
<1>6. disk \in [Block -> Val] /\ data \in [Proc -> Val]
  BY <1>2, Zenon DEF Types
<1>7. disk' \in [Block -> Val] /\ data' \in [Proc -> Val]
  BY <1>3, <1>4, <1>5, <1>6, Zenon
<1>8. Agree(p)'
  <2>1. CASE req[p].write
    BY <1>1, <1>4, <1>5, <1>6, <2>1, Zenon DEF Agree
  <2>2. CASE ~req[p].write
    BY <1>1, <1>3, <1>4, <1>6, <2>2, Zenon DEF Agree
  <2> QED
    BY <2>1, <2>2, Zenon
<1>9. \A q \in Proc \ {p} : pc[q] # "idle" /\ Agree(q) => Agree(q)'
  <2> SUFFICES ASSUME NEW q \in Proc \ {p}, pc[q] # "idle", Agree(q) PROVE Agree(q)'
    BY Zenon
  <2>1. req[q].block \in Block /\ req[q].block # req[p].block
    BY <1>5, Zenon DEF Inv, Requests
  <2> QED
    BY <1>1, <1>4, <1>6, <2>1, Zenon DEF Agree
<1>10. PICK new : new = used' /\ Adds(used, used_idx, dev_idx, h, new)
  <2>1. h \notin Done
    BY <1>1, <1>2, Zenon DEF Rings
  <2>2. next[h] \notin Done
    <3> SUFFICES ASSUME next[h] \in Done PROVE FALSE
      BY Zenon
    <3>1. info[next[h]] \in Proc /\ pc[info[next[h]]] = "io" /\ head[info[next[h]]] = next[h]
      BY OwnerOf, Zenon
    <3>2. info[next[h]] # p
      BY <1>3, <3>1, Zenon
    <3> QED
      BY <1>3, <3>1, <3>2, Private, Zenon DEF Active
  <2>3. /\ used \in [Desc -> Desc] /\ used_idx \in Index /\ dev_idx \in Index
        /\ Distinct(used, used_idx, dev_idx)
    BY <1>2, Zenon DEF Types, Rings
  <2>4. {h, next[h]} \cap Entries(used, used_idx, dev_idx) = {}
    BY <2>1, <2>2, Zenon DEF Done
  <2>5. Held(used_idx, dev_idx) <= NUM - 2
    BY <1>3, <2>3, <2>4, Zenon DEF Counting
  <2> QED
    BY <1>1, <2>1, <2>3, <2>5, Zenon DEF Adds, Done
<1>11. /\ used' \in [Desc -> Desc] /\ dev_idx' \in Index /\ Distinct(used, used_idx, dev_idx)'
       /\ Done' = Done \cup {h}
  <2>1. /\ new \in [Desc -> Desc] /\ Inc(dev_idx) \in Index /\ Distinct(new, used_idx, Inc(dev_idx))
        /\ Entries(new, used_idx, Inc(dev_idx)) = Done \cup {h}
    BY <1>10, Add, SMT DEF Done
  <2>2. Done' = Entries(new, used_idx, Inc(dev_idx))
    BY <1>1, <1>10, Zenon DEF Done
  <2>3. Distinct(used, used_idx, dev_idx)'
    BY <1>1, <1>10, <2>1, Zenon
  <2> QED
    BY <1>1, <1>10, <2>1, <2>2, <2>3, Zenon
<1>12. Waiting' = Waiting /\ Distinct(avail, fetched, avail_idx)'
  BY <1>1, <1>2, Zenon DEF Waiting, Rings
<1>13. Types'
  BY <1>1, <1>2, <1>7, <1>11, Zenon DEF Types
<1>14. Rings'
  BY <1>1, <1>2, <1>11, <1>12, Zenon DEF Rings
<1>15. Requests' /\ Chains'
  <2>1. Requests'
    BY <1>1, Zenon DEF Inv, Requests
  <2>2. \A q, z \in Proc : (Own(q)' <=> Own(q)) /\ (Apart(q, z)' <=> Apart(q, z))
    BY <1>1, Zenon DEF Own, Apart, Chain
  <2> QED
    BY <1>1, <2>1, <2>2, Zenon DEF Inv, Chains
<1>16. Owners'
  BY <1>1, <1>11, <1>12, Zenon DEF Inv, Owners
<1>17. Results'
  <2>1. status \in [Desc -> BOOLEAN]
    BY <1>2, Zenon DEF Types
  <2>2. ASSUME NEW g \in Done PROVE status'[g] = TRUE /\ Agree(info[g])'
    <3>1. status[g] = TRUE /\ Agree(info[g]) /\ g \in Desc /\ info[g] \in Proc /\ pc[info[g]] = "io"
          /\ head[info[g]] = g
      BY OwnerOf, Zenon DEF Inv, Results
    <3>2. info[g] # p
      BY <1>1, <1>2, <1>3, <3>1, Zenon DEF Rings
    <3> QED
      BY <1>1, <1>9, <2>1, <3>1, <3>2, Zenon
  <2>3. status'[h] = TRUE /\ Agree(info[h])'
    BY <1>1, <1>3, <1>8, <2>1, Zenon
  <2>4. ASSUME NEW q \in Proc, pc[q] \in {"woken", "return"} PROVE Agree(q)'
    BY <1>3, <1>9, <2>4, Zenon DEF Inv, Results
  <2> QED
    BY <1>1, <1>11, <2>2, <2>3, <2>4, Zenon DEF Results
<1> QED
  BY <1>1, <1>13, <1>14, <1>15, <1>16, <1>17, Zenon DEF Inv

-----------------------------------------------------------------------------
(* virtio_disk_intr() *)

(* Taking the interrupt and leaving the handler change nothing of it. *)
LEMMA IntrStep ==
  ASSUME Inv, intr_ack \/ intr_end
  PROVE  Inv'
<1>1. UNCHANGED <<free, next, addr, op, info, status, avail, avail_idx, used, dev_idx, used_idx,
                  fetched, inflight, disk, data, pc, req, head, panicked>>
  BY Zenon DEF intr_ack, intr_end, drv, dev, procs
<1>2. Waiting' = Waiting /\ Done' = Done /\ Rings'
  BY <1>1, SameRings, Zenon DEF Inv, Rings
<1>3. Types' /\ Requests'
  BY <1>1, Zenon DEF Inv, Types, Requests
<1>4. Chains'
  <2>1. \A q, z \in Proc : (Own(q)' <=> Own(q)) /\ (Apart(q, z)' <=> Apart(q, z))
    BY <1>1, Zenon DEF Own, Apart, Chain
  <2> QED
    BY <1>1, <2>1, Zenon DEF Inv, Chains
<1>5. Owners' /\ Results'
  BY <1>1, <1>2, Zenon DEF Inv, Owners, Results, Agree
<1> QED
  BY <1>1, <1>2, <1>3, <1>4, <1>5, Zenon DEF Inv

(* An entry of the used ring: its process is the one that waits for it, and *)
(* its request was carried out.                                             *)
LEMMA EntryStep ==
  ASSUME VirtioDiskAssumption, Inv, intr_entry
  PROVE  Inv'
<1>1. PICK h : h = used[used_idx % NUM]
  BY Zenon
<1>2. Types /\ Rings
  BY Zenon DEF Inv
<1>3. used_idx # dev_idx
  BY Zenon DEF intr_entry
<1>4. /\ Inc(used_idx) \in Index /\ Distinct(used, Inc(used_idx), dev_idx)
      /\ h \in Done /\ Entries(used, Inc(used_idx), dev_idx) = Done \ {h}
  <2>1. used_idx \in Index /\ dev_idx \in Index /\ Distinct(used, used_idx, dev_idx)
    BY <1>2, Zenon DEF Types, Rings
  <2> QED
    BY <1>1, <1>3, <2>1, Take, Zenon DEF Done
<1>5. PICK p \in Proc : p = info[h] /\ pc[p] = "io" /\ head[p] = h /\ status[h] = TRUE /\ Agree(p)
  BY <1>4, OwnerOf, Zenon DEF Inv, Results
<1>6. /\ pc' = [pc EXCEPT ![p] = "woken"] /\ used_idx' = Inc(used_idx)
      /\ UNCHANGED <<free, next, addr, op, info, status, avail, avail_idx, used, dev_idx,
                     fetched, inflight, disk, data, req, head, panicked>>
  BY <1>1, <1>5, Zenon DEF intr_entry, dev
<1>7. /\ pc'[p] = "woken" /\ pc' \in [Proc -> Label]
      /\ \A q \in Proc : /\ q # p => pc'[q] = pc[q]
                         /\ pc'[q] \in Active <=> pc[q] \in Active
                         /\ pc'[q] # "idle" => pc[q] # "idle"
  BY <1>2, <1>5, <1>6, Zenon DEF Types, Label, Active
<1>8. /\ Waiting' = Waiting /\ Distinct(avail, fetched, avail_idx)'
      /\ Done' = Done \ {h} /\ Distinct(used, used_idx, dev_idx)'
  BY <1>2, <1>4, <1>6, Zenon DEF Waiting, Done, Rings
<1>9. Types'
  BY <1>2, <1>4, <1>6, <1>7, Zenon DEF Types
<1>10. Rings'
  BY <1>2, <1>6, <1>8, Zenon DEF Rings
<1>11. Requests'
  BY <1>6, <1>7, Zenon DEF Inv, Requests
<1>12. Chains'
  <2>1. \A q, z \in Proc : (Own(q)' <=> Own(q)) /\ (Apart(q, z)' <=> Apart(q, z))
    BY <1>6, Zenon DEF Own, Apart, Chain
  <2> QED
    BY <1>7, <2>1, Zenon DEF Inv, Chains
<1>13. Owners'
  <2> SUFFICES ASSUME NEW g \in Waiting \cup inflight \cup (Done \ {h})
               PROVE  info[g] \in Proc /\ pc'[info[g]] = "io" /\ head[info[g]] = g
    BY <1>6, <1>8, Zenon DEF Owners
  <2>1. g # h
    BY <1>2, <1>4, Zenon DEF Rings
  <2>2. info[g] \in Proc /\ pc[info[g]] = "io" /\ head[info[g]] = g
    BY Zenon DEF Inv, Owners
  <2> QED
    BY <1>5, <1>7, <2>1, <2>2, Zenon
<1>14. Results'
  <2>1. \A q \in Proc : Agree(q)' <=> Agree(q)
    BY <1>6, Zenon DEF Agree
  <2>2. \A g \in Done' : status'[g] = TRUE /\ Agree(info[g])'
    BY <1>6, <1>8, Zenon DEF Inv, Results, Agree
  <2>3. \A q \in Proc : pc'[q] \in {"woken", "return"} => Agree(q)
    BY <1>5, <1>7, Zenon DEF Inv, Results
  <2> QED
    BY <2>1, <2>2, <2>3, Zenon DEF Results
<1> QED
  BY <1>6, <1>9, <1>10, <1>11, <1>12, <1>13, <1>14, Zenon DEF Inv

-----------------------------------------------------------------------------
(* alloc3_desc() takes three free descriptors, and the chain goes into the  *)
(* avail ring, where there is room.                                         *)
LEMMA SubmitStep ==
  ASSUME VirtioDiskAssumption, Counting(Desc), Inv, NEW p \in Proc, submit(p)
  PROVE  Inv'
<1>1. Types /\ Rings
  BY Zenon DEF Inv
<1>2. free \in SUBSET Desc /\ Cardinality(free) >= 3
  BY <1>1, Zenon DEF Types, submit
<1>3. PICK d0 \in free : d0 = Least(free)
  <2>1. 0 \in Desc
    BY SMT DEF Desc, VirtioDiskAssumption
  <2>2. free # {}
    BY <1>2, <2>1, Zenon DEF Counting
  <2> QED
    BY <1>2, <2>2, Zenon DEF Counting
<1>4. PICK d1 \in free \ {d0} : d1 = Least(free \ {d0})
  <2>1. d0 \in Desc /\ free \ {d0} \in SUBSET Desc
    BY <1>2, Zenon
  <2>2. free \ {d0} # {}
    BY <1>2, <2>1, Zenon DEF Counting
  <2> QED
    BY <2>1, <2>2, Zenon DEF Counting
<1>5. PICK d2 \in free \ {d0, d1} : d2 = Least(free \ {d0, d1})
  <2>1. d0 \in Desc /\ d1 \in Desc /\ free \ {d0, d1} \in SUBSET Desc
    BY <1>2, Zenon
  <2>2. free \ {d0, d1} # {}
    BY <1>2, <2>1, Zenon DEF Counting
  <2> QED
    BY <2>1, <2>2, Zenon DEF Counting
<1>6. /\ pc[p] = "alloc" /\ free' = free \ {d0, d1, d2}
      /\ next' = [next EXCEPT ![d0] = d1, ![d1] = d2, ![d2] = None]
      /\ addr' = [addr EXCEPT ![d1] = p] /\ op' = [op EXCEPT ![d0] = req[p]]
      /\ status' = [status EXCEPT ![d0] = FALSE] /\ info' = [info EXCEPT ![d0] = p]
      /\ avail' = [avail EXCEPT ![avail_idx % NUM] = d0] /\ avail_idx' = Inc(avail_idx)
      /\ head' = [head EXCEPT ![p] = d0] /\ pc' = [pc EXCEPT ![p] = "io"]
      /\ UNCHANGED <<used, dev_idx, used_idx, fetched, inflight, disk, data, req, panicked>>
  BY <1>3, <1>4, <1>5, Zenon DEF submit, StartWait, dev
<1>7. d0 \in Desc /\ d1 \in Desc /\ d2 \in Desc /\ d0 # d1 /\ d0 # d2 /\ d1 # d2
  BY <1>2, <1>3, <1>4, <1>5, Zenon
<1>8. \A h \in Waiting \cup inflight \cup Done : h \in Desc \ free /\ h # d0
  BY <1>3, OwnerOf, Zenon
<1>9. PICK new : new = avail' /\ Adds(avail, fetched, avail_idx, d0, new)
  <2>1. /\ avail \in [Desc -> Desc] /\ fetched \in Index /\ avail_idx \in Index
        /\ Distinct(avail, fetched, avail_idx)
    BY <1>1, Zenon DEF Types, Rings
  <2>2. d0 \notin Waiting /\ d1 \notin Waiting
    BY <1>4, <1>8, Zenon
  <2>3. {d0, d1} \cap Entries(avail, fetched, avail_idx) = {}
    BY <2>2, Zenon DEF Waiting
  <2>4. Held(fetched, avail_idx) <= NUM - 2
    BY <1>7, <2>1, <2>3, Zenon DEF Counting
  <2> QED
    BY <1>6, <1>7, <2>1, <2>2, <2>4, Zenon DEF Adds, Waiting
<1>10. /\ avail' \in [Desc -> Desc] /\ avail_idx' \in Index /\ Distinct(avail, fetched, avail_idx)'
       /\ Waiting' = Waiting \cup {d0}
  <2>1. /\ new \in [Desc -> Desc] /\ Inc(avail_idx) \in Index /\ Distinct(new, fetched, Inc(avail_idx))
        /\ Entries(new, fetched, Inc(avail_idx)) = Waiting \cup {d0}
    BY <1>9, Add, SMT DEF Waiting
  <2>2. Waiting' = Entries(new, fetched, Inc(avail_idx))
    BY <1>6, <1>9, Zenon DEF Waiting
  <2>3. Distinct(avail, fetched, avail_idx)'
    BY <1>6, <1>9, <2>1, Zenon
  <2> QED
    BY <1>6, <1>9, <2>1, <2>2, <2>3, Zenon
<1>11. Done' = Done /\ Distinct(used, used_idx, dev_idx)'
  BY <1>1, <1>6, Zenon DEF Done, Rings
<1>12. /\ free' \in SUBSET Desc /\ next' \in [Desc -> Desc \cup {None}]
       /\ next'[d0] = d1 /\ next'[d1] = d2
       /\ \A d \in Desc \ {d0, d1, d2} : next'[d] = next[d]
  <2>1. next \in [Desc -> Desc \cup {None}]
    BY <1>1, Zenon DEF Types
  <2> QED
    BY <1>2, <1>6, <1>7, <2>1
<1>13. /\ addr' \in [Desc -> Proc \cup {None}] /\ info' \in [Desc -> Proc \cup {None}]
       /\ status' \in [Desc -> BOOLEAN] /\ op' \in [Desc -> Request]
  BY <1>1, <1>6, Zenon DEF Types
<1>14. pc' \in [Proc -> Label] /\ head' \in [Proc -> Desc \cup {None}]
  BY <1>1, <1>6, <1>7, Zenon DEF Types, Label
<1>15. /\ info'[d0] = p /\ addr'[d1] = p /\ op'[d0] = req[p]
       /\ \A d \in Desc \ {d0, d1, d2} : info'[d] = info[d] /\ addr'[d] = addr[d] /\ op'[d] = op[d]
                                         /\ status'[d] = status[d]
  BY <1>1, <1>6, <1>7, Zenon DEF Types
<1>16. pc'[p] = "io" /\ head'[p] = d0 /\ \A q \in Proc \ {p} : pc'[q] = pc[q] /\ head'[q] = head[q]
  BY <1>1, <1>6, Zenon DEF Types
<1>17. Types'
  BY <1>1, <1>6, <1>10, <1>12, <1>13, <1>14, Zenon DEF Types
<1>18. Rings'
  BY <1>1, <1>6, <1>8, <1>10, <1>11, Zenon DEF Rings
<1>19. Requests'
  <2>1. \A q \in Proc : pc'[q] # "idle" => pc[q] # "idle"
    BY <1>6, <1>16, Zenon
  <2> QED
    BY <1>6, <2>1, Zenon DEF Inv, Requests
<1>20. Chains'
  <2>1. Own(p)' /\ Chain(head[p])' = {d0, d1, d2}
    BY <1>6, <1>7, <1>12, <1>15, <1>16 DEF Own, Chain
  <2>2. ASSUME NEW q \in Proc \ {p}, pc[q] \in Active
        PROVE  Own(q)' /\ Chain(head[q])' = Chain(head[q]) /\ Chain(head[q]) \cap {d0, d1, d2} = {}
    <3>1. Own(q)
      BY <2>2, Zenon DEF Inv, Chains
    <3>2. /\ head[q] \in Desc \ {d0, d1, d2} /\ next[head[q]] \in Desc \ {d0, d1, d2}
          /\ next[next[head[q]]] \in Desc \ {d0, d1, d2}
      BY <1>3, <1>4, <1>5, <3>1, Zenon DEF Own, Chain
    <3>3. /\ next'[head'[q]] = next[head[q]] /\ next'[next'[head'[q]]] = next[next[head[q]]]
          /\ head'[q] = head[q]
      BY <1>12, <1>16, <3>2, Zenon
    <3>4. Chain(head[q])' = Chain(head[q])
      BY <3>3, Zenon DEF Chain
    <3>5. Chain(head[q]) \cap {d0, d1, d2} = {}
      BY <3>2, Zenon DEF Chain
    <3>6. Chain(head[q])' \cap free' = {}
      BY <1>6, <3>1, <3>4, Zenon DEF Own
    <3>7. info'[head'[q]] = q /\ addr'[next'[head'[q]]] = q /\ op'[head'[q]] = req'[q]
      BY <1>6, <1>15, <3>1, <3>2, <3>3 DEF Own
    <3>8. Own(q)'
      BY <3>1, <3>3, <3>6, <3>7, Zenon DEF Own
    <3> QED
      BY <3>4, <3>5, <3>8, Zenon
  <2>3. ASSUME NEW q \in Proc, NEW z \in Proc \ {q}, pc'[q] \in Active, pc'[z] \in Active
        PROVE  Apart(q, z)'
    <3>1. CASE q = p
      BY <1>16, <2>1, <2>2, <2>3, <3>1, Zenon DEF Apart
    <3>2. CASE z = p
      BY <1>16, <2>1, <2>2, <2>3, <3>2, Zenon DEF Apart
    <3>3. CASE q # p /\ z # p
      <4>1. pc[q] \in Active /\ pc[z] \in Active
        BY <1>16, <2>3, <3>3, Zenon
      <4>2. Apart(q, z)
        BY <4>1, Zenon DEF Inv, Chains
      <4>3. Chain(head[q])' = Chain(head[q]) /\ Chain(head[z])' = Chain(head[z])
        BY <2>2, <3>3, <4>1, Zenon
      <4> QED
        BY <4>2, <4>3, Zenon DEF Apart
    <3> QED
      BY <3>1, <3>2, <3>3, Zenon
  <2>4. ASSUME NEW q \in Proc, pc'[q] \in Active PROVE Own(q)'
    BY <1>16, <2>1, <2>2, <2>4, Zenon
  <2> QED
    BY <2>3, <2>4, Zenon DEF Chains
<1>21. Owners'
  <2>1. ASSUME NEW h \in Waiting \cup inflight \cup Done
        PROVE  info'[h] \in Proc /\ pc'[info'[h]] = "io" /\ head'[info'[h]] = h
    <3>1. info[h] \in Proc /\ pc[info[h]] = "io" /\ head[info[h]] = h /\ h \in Desc \ {d0, d1, d2}
      BY <1>3, <1>4, <1>5, <1>8, OwnerOf
    <3>2. info'[h] = info[h] /\ info[h] # p
      BY <1>6, <1>15, <3>1, Zenon
    <3> QED
      BY <1>16, <3>1, <3>2, Zenon
  <2>2. info'[d0] \in Proc /\ pc'[info'[d0]] = "io" /\ head'[info'[d0]] = d0
    BY <1>15, <1>16, Zenon
  <2> QED
    BY <1>6, <1>10, <1>11, <2>1, <2>2, Zenon DEF Owners
<1>22. Results'
  <2>1. \A q \in Proc : Agree(q)' <=> Agree(q)
    BY <1>6, Zenon DEF Agree
  <2>2. ASSUME NEW h \in Done PROVE status'[h] = TRUE /\ Agree(info[h])'
    <3>1. h \in Desc \ {d0, d1, d2}
      BY <1>3, <1>4, <1>5, <1>8, Zenon
    <3>2. status'[h] = status[h] /\ info'[h] = info[h]
      BY <1>15, <3>1, Zenon
    <3> QED
      BY <1>6, <3>2, Zenon DEF Inv, Results, Agree
  <2>3. \A q \in Proc : pc'[q] \in {"woken", "return"} => Agree(q)
    BY <1>16, Zenon DEF Inv, Results
  <2> QED
    BY <1>11, <2>1, <2>2, <2>3, Zenon DEF Results
<1> QED
  BY <1>6, <1>17, <1>18, <1>19, <1>20, <1>21, <1>22, Zenon DEF Inv

-----------------------------------------------------------------------------
(* free_chain() frees the chain of the process alone, which was not free. *)
LEMMA FinishStep ==
  ASSUME Inv, NEW p \in Proc, finish(p)
  PROVE  Inv'
<1>1. Types /\ Rings
  BY Zenon DEF Inv
<1>2. pc[p] = "woken" /\ Agree(p) /\ Own(p)
  <2>1. pc[p] = "woken"
    BY Zenon DEF finish
  <2> QED
    BY <2>1, Zenon DEF Inv, Results, Chains, Active
<1>3. PICK C \in SUBSET Desc : C = Chain(head[p]) /\ C \cap free = {} /\ head[p] \in C
  BY <1>2, Zenon DEF Own, Chain
<1>4. /\ info' = [info EXCEPT ![head[p]] = None] /\ free' = free \cup C
      /\ next' = [d \in Desc |-> IF d \in C THEN None ELSE next[d]]
      /\ addr' = [d \in Desc |-> IF d \in C THEN None ELSE addr[d]]
      /\ pc' = [WakeAlloc(pc) EXCEPT ![p] = "return"] /\ head' = [head EXCEPT ![p] = None]
      /\ op' = [op EXCEPT ![head[p]] = NoReq] /\ status' = [status EXCEPT ![head[p]] = FALSE]
      /\ UNCHANGED <<avail, avail_idx, used, dev_idx, used_idx, fetched, inflight, disk, data, req, panicked>>
  BY <1>3, Zenon DEF finish, dev
<1>5. Waiting' = Waiting /\ Done' = Done /\ Rings'
  BY <1>1, <1>4, SameRings, Zenon DEF Rings
<1>6. /\ free' \in SUBSET Desc /\ next' \in [Desc -> Desc \cup {None}]
      /\ addr' \in [Desc -> Proc \cup {None}] /\ info' \in [Desc -> Proc \cup {None}]
      /\ op' \in [Desc -> Request] /\ status' \in [Desc -> BOOLEAN]
  <2>1. free' \in SUBSET Desc /\ next' \in [Desc -> Desc \cup {None}] /\ addr' \in [Desc -> Proc \cup {None}]
    BY <1>1, <1>3, <1>4, Zenon DEF Types
  <2>2. NoReq \in Request
    BY SMT DEF NoReq, Request
  <2> QED
    BY <1>1, <1>4, <2>1, <2>2, Zenon DEF Types
<1>7. /\ pc' \in [Proc -> Label] /\ pc'[p] = "return"
      /\ \A q \in Proc \ {p} : /\ pc'[q] = pc[q] \/ {pc[q], pc'[q]} \subseteq {"alloc", "no_desc"}
                               /\ pc'[q] # "idle" => pc[q] # "idle"
                               /\ pc[q] = "io" => pc'[q] = "io"
                               /\ pc'[q] \in Active => pc[q] \in Active
                               /\ pc'[q] \in {"woken", "return"} => pc[q] \in {"woken", "return"}
  BY <1>1, <1>4, SMT DEF Types, Label, WakeAlloc, Active
<1>8. head' \in [Proc -> Desc \cup {None}] /\ \A q \in Proc \ {p} : head'[q] = head[q]
  BY <1>1, <1>4, Zenon DEF Types
<1>9. \A d \in Desc \ C : /\ next'[d] = next[d] /\ addr'[d] = addr[d] /\ info'[d] = info[d]
                          /\ op'[d] = op[d] /\ status'[d] = status[d]
  <2>1. \A d \in Desc \ C : next'[d] = next[d] /\ addr'[d] = addr[d]
    BY <1>4, Zenon
  <2>2. \A d \in Desc \ C : d # head[p]
    BY <1>3, Zenon
  <2> QED
    BY <1>1, <1>4, <2>1, <2>2, Zenon DEF Types
<1>10. Types'
  BY <1>1, <1>4, <1>6, <1>7, <1>8, Zenon DEF Types
<1>11. Requests'
  <2>1. \A q \in Proc : pc'[q] # "idle" => pc[q] # "idle"
    BY <1>2, <1>7, Zenon
  <2> QED
    BY <1>4, <2>1, Zenon DEF Inv, Requests
<1>12. Chains'
  <2>1. ASSUME NEW q \in Proc \ {p}, pc[q] \in Active
        PROVE  Own(q)' /\ Chain(head[q])' = Chain(head[q])
    <3>1. Own(q) /\ Apart(p, q)
      BY <1>2, <2>1, Zenon DEF Inv, Chains, Active
    <3>2. /\ head[q] \in Desc \ C /\ next[head[q]] \in Desc \ C /\ next[next[head[q]]] \in Desc \ C
      BY <1>3, <3>1, Zenon DEF Own, Apart, Chain
    <3>3. /\ next'[head'[q]] = next[head[q]] /\ next'[next'[head'[q]]] = next[next[head[q]]]
          /\ head'[q] = head[q]
      <4>1. head'[q] = head[q]
        BY <1>8, Zenon
      <4>2. next'[head[q]] = next[head[q]] /\ next'[next[head[q]]] = next[next[head[q]]]
        BY <1>9, <3>2, Zenon
      <4> QED
        BY <4>1, <4>2, Zenon
    <3>4. Chain(head[q])' = Chain(head[q])
      BY <3>3, Zenon DEF Chain
    <3>5. Chain(head[q])' \cap free' = {}
      BY <1>3, <1>4, <3>1, <3>4, Zenon DEF Own, Apart
    <3>6. info'[head'[q]] = q /\ addr'[next'[head'[q]]] = q /\ op'[head'[q]] = req'[q]
      <4>1. /\ info'[head[q]] = info[head[q]] /\ addr'[next[head[q]]] = addr[next[head[q]]]
            /\ op'[head[q]] = op[head[q]]
        BY <1>9, <3>2, Zenon
      <4>2. req' = req
        BY <1>4, Zenon
      <4> QED
        BY <3>1, <3>3, <4>1, <4>2, Zenon DEF Own
    <3>7. Own(q)'
      BY <3>1, <3>3, <3>5, <3>6, Zenon DEF Own
    <3> QED
      BY <3>4, <3>7, Zenon
  <2>2. ASSUME NEW q \in Proc, NEW z \in Proc \ {q}, pc'[q] \in Active, pc'[z] \in Active
        PROVE  Own(q)' /\ Apart(q, z)'
    <3>1. q # p /\ z # p
      BY <1>7, <2>2, Zenon DEF Active
    <3>2. pc[q] \in Active /\ pc[z] \in Active
      BY <1>7, <2>2, <3>1, Zenon
    <3>3. Apart(q, z)
      BY <3>2, Zenon DEF Inv, Chains
    <3>4. Own(q)' /\ Chain(head[q])' = Chain(head[q]) /\ Chain(head[z])' = Chain(head[z])
      BY <2>1, <3>1, <3>2, Zenon
    <3> QED
      BY <3>3, <3>4, Zenon DEF Apart
  <2>3. ASSUME NEW q \in Proc, pc'[q] \in Active PROVE Own(q)'
    BY <1>7, <2>1, <2>3, Zenon DEF Active
  <2> QED
    BY <2>2, <2>3, Zenon DEF Chains
<1>13. ASSUME NEW h \in Waiting \cup inflight \cup Done
       PROVE  /\ info[h] \in Proc \ {p} /\ pc[info[h]] = "io" /\ head[info[h]] = h
              /\ h \in Desc \ C
  <2>1. info[h] \in Proc /\ pc[info[h]] = "io" /\ head[info[h]] = h /\ h \in Desc
    BY OwnerOf, Zenon
  <2>2. info[h] # p
    BY <1>2, <2>1, Zenon
  <2>3. Apart(p, info[h])
    BY <1>2, <2>1, <2>2, Zenon DEF Inv, Chains, Active
  <2> QED
    BY <1>3, <2>1, <2>2, <2>3, Zenon DEF Apart, Chain
<1>14. Owners'
  <2>1. ASSUME NEW h \in Waiting \cup inflight \cup Done
        PROVE  info'[h] \in Proc /\ pc'[info'[h]] = "io" /\ head'[info'[h]] = h
    <3>1. info'[h] = info[h]
      BY <1>9, <1>13, Zenon
    <3> QED
      BY <1>7, <1>8, <1>13, <3>1
  <2> QED
    BY <1>4, <1>5, <2>1, Zenon DEF Owners
<1>15. Results'
  <2>1. \A q \in Proc : Agree(q)' <=> Agree(q)
    BY <1>4, Zenon DEF Agree
  <2>2. ASSUME NEW h \in Done PROVE status'[h] = TRUE /\ Agree(info[h])'
    <3>1. status'[h] = status[h] /\ info'[h] = info[h]
      BY <1>9, <1>13, Zenon
    <3> QED
      BY <1>4, <3>1, Zenon DEF Inv, Results, Agree
  <2>3. \A q \in Proc : pc'[q] \in {"woken", "return"} => Agree(q)
    BY <1>2, <1>7, Zenon DEF Inv, Results
  <2> QED
    BY <1>5, <2>1, <2>2, <2>3, Zenon DEF Results
<1> QED
  BY <1>4, <1>5, <1>10, <1>11, <1>12, <1>14, <1>15, Zenon DEF Inv

-----------------------------------------------------------------------------
(* The initial state: all descriptors are free, both rings are empty. *)
LEMMA InitInv ==
  ASSUME VirtioDiskAssumption, Init
  PROVE  Inv
<1>1. Types
  <2>1. 0 \in Desc /\ 0 \in Index
    BY SMT DEF Desc, Index, VirtioDiskAssumption
  <2>2. NoReq \in Request
    BY SMT DEF NoReq, Request
  <2> QED
    BY <2>1, <2>2, Zenon DEF Init, Types, Label, VirtioDiskAssumption
<1>2. Waiting = {} /\ Done = {}
  <2>1. 0 .. Held(0, 0) - 1 = {}
    BY SMT DEF Held
  <2> QED
    BY <2>1, Zenon DEF Init, Waiting, Done, Entries
<1>3. Rings
  <2>1. 0 .. Held(0, 0) - 1 = {}
    BY SMT DEF Held
  <2> QED
    BY <1>2, <2>1, Zenon DEF Init, Rings, Distinct
<1>4. \A p \in Proc : pc[p] = "idle"
  BY Zenon DEF Init
<1>5. Requests /\ Chains /\ Owners /\ Results
  BY <1>2, <1>4, Zenon DEF Init, Requests, Chains, Owners, Results, Active
<1> QED
  BY <1>1, <1>3, <1>5, Zenon DEF Init, Inv

(* Every step keeps the invariant. *)
LEMMA NextInv ==
  ASSUME VirtioDiskAssumption, Counting(Desc), Inv, [Next]_vars
  PROVE  Inv'
<1>1. ASSUME NEW p \in Proc, NEW n \in Block, NEW v \in Val, NEW wr \in BOOLEAN, call(p, n, v, wr)
      PROVE  Inv'
  BY <1>1, CallStep, Zenon
<1>2. ASSUME NEW p \in Proc, virtio_disk_rw(p) PROVE Inv'
  BY <1>2, AllocFailStep, SubmitStep, FinishStep, ReturnStep, Zenon DEF virtio_disk_rw
<1>3. CASE fetch
  BY <1>3, FetchStep, Zenon
<1>4. ASSUME NEW h \in Desc, complete(h) PROVE Inv'
  BY <1>4, CompleteStep, Zenon
<1>5. CASE virtio_disk_intr
  BY <1>5, IntrStep, EntryStep, Zenon DEF virtio_disk_intr
<1>6. CASE UNCHANGED vars
  <2>1. UNCHANGED <<free, next, addr, op, info, status, avail, avail_idx, used, dev_idx, used_idx,
                    fetched, inflight, disk, data, pc, req, head, panicked>>
    BY <1>6, Zenon DEF vars
  <2>2. Waiting' = Waiting /\ Done' = Done /\ Rings'
    BY <2>1, SameRings, Zenon DEF Inv, Rings
  <2>3. Types' /\ Requests'
    BY <2>1, Zenon DEF Inv, Types, Requests
  <2>4. \A q, z \in Proc : (Own(q)' <=> Own(q)) /\ (Apart(q, z)' <=> Apart(q, z))
    BY <2>1, Zenon DEF Own, Apart, Chain
  <2>5. Chains'
    BY <2>1, <2>4, Zenon DEF Inv, Chains
  <2>6. Owners' /\ Results'
    BY <2>1, <2>2, Zenon DEF Inv, Owners, Results, Agree
  <2> QED
    BY <2>1, <2>2, <2>3, <2>5, <2>6, Zenon DEF Inv
<1> QED
  BY <1>1, <1>2, <1>3, <1>4, <1>5, <1>6, Zenon DEF Next

-----------------------------------------------------------------------------
INSTANCE FiniteSetTheorems

(* Desc is finite, and its subsets have a least element. *)
LEMMA DescFinite ==
  ASSUME VirtioDiskAssumption
  PROVE  IsFiniteSet(Desc) /\ Cardinality(Desc) = NUM
<1>1. 0 \in Int /\ NUM - 1 \in Int /\ 0 <= NUM - 1 /\ NUM - 1 - 0 + 1 = NUM
  BY SMT DEF VirtioDiskAssumption
<1> QED
  BY <1>1, FS_Interval, SMT DEF Desc

(* A set of three or more is not exhausted by two elements. *)
LEMMA TwoRemoved ==
  ASSUME NEW S, IsFiniteSet(S), Cardinality(S) >= 3, NEW x, NEW y
  PROVE  S # {} /\ S \ {x} # {} /\ S \ {x, y} # {} /\ Cardinality(S \ {x, y}) >= Cardinality(S) - 2
<1>1. Cardinality(S) \in Nat
  BY FS_CardinalityType, Zenon
<1>2. IsFiniteSet(S \ {x}) /\ Cardinality(S \ {x}) \in Nat /\ Cardinality(S \ {x}) >= Cardinality(S) - 1
  BY <1>1, FS_RemoveElement, SMT
<1>3. S \ {x, y} = (S \ {x}) \ {y}
  BY Zenon
<1>4. Cardinality(S \ {x, y}) \in Nat /\ Cardinality(S \ {x, y}) >= Cardinality(S) - 2
  BY <1>1, <1>2, <1>3, FS_RemoveElement, SMT
<1>5. Cardinality({}) = 0
  BY FS_EmptySet, Zenon
<1> QED
  BY <1>1, <1>2, <1>4, <1>5, SMT

(* The entries of a ring that holds neither x nor y are an injective image  *)
(* of as many places.                                                       *)
LEMMA Room ==
  ASSUME VirtioDiskAssumption, NEW ring \in [Desc -> Desc], NEW lo \in Index, NEW hi \in Index,
         NEW x \in Desc, NEW y \in Desc, x # y, {x, y} \cap Entries(ring, lo, hi) = {},
         Distinct(ring, lo, hi)
  PROVE  Held(lo, hi) <= NUM - 2
<1> DEFINE K == 0 .. Held(lo, hi) - 1
           T == (Desc \ {x}) \ {y}
           f == [k \in K |-> Entry(ring, lo, k)]
<1>1. Held(lo, hi) \in Nat /\ lo \in Nat
  <2>1. lo \in Nat
    BY SMT DEF Index
  <2> QED
    BY <2>1, HeldType, Zenon
<1>2. ASSUME NEW k \in K PROVE Entry(ring, lo, k) \in T
  <2>1. lo + k \in Nat
    BY <1>1, <1>2, SMT
  <2>2. Entry(ring, lo, k) \in Desc
    BY <2>1, InRing, Zenon DEF Entry
  <2>3. Entry(ring, lo, k) \in Entries(ring, lo, hi)
    BY <1>2, Zenon DEF Entries
  <2> QED
    BY <2>2, <2>3, Zenon
<1>3. f \in Injection(K, T)
  <2>1. f \in [K -> T]
    BY <1>2, Zenon
  <2>2. \A i, j \in K : f[i] = f[j] => i = j
    BY Zenon DEF Distinct
  <2> QED
    BY <2>1, <2>2, Zenon DEF Injection, IsInjective
<1>4. IsFiniteSet(T) /\ Cardinality(T) = NUM - 2
  <2>1. IsFiniteSet(Desc \ {x}) /\ Cardinality(Desc \ {x}) = NUM - 1
    BY DescFinite, FS_RemoveElement, SMT
  <2>2. y \in Desc \ {x}
    BY Zenon
  <2>3. IsFiniteSet(T) /\ Cardinality(T) = NUM - 1 - 1
    BY <2>1, <2>2, FS_RemoveElement, Zenon
  <2> QED
    BY <2>3, SMT DEF VirtioDiskAssumption
<1>5. Cardinality(K) <= Cardinality(T)
  <2> HIDE DEF K, T, f
  <2> QED
    BY <1>3, <1>4, FS_Injection, Zenon
<1>6. Cardinality(K) = Held(lo, hi)
  <2> DEFINE m == Held(lo, hi)
  <2>1. m \in Nat
    BY <1>1, Zenon
  <2> HIDE DEF m
  <2>2. Cardinality(0 .. m - 1) = IF 0 > m - 1 THEN 0 ELSE m - 1 - 0 + 1
    BY <2>1, FS_Interval, SMT
  <2>3. Cardinality(0 .. m - 1) = m
    BY <2>1, <2>2, SMT
  <2> QED
    BY <2>3, Zenon DEF m
<1> QED
  BY <1>4, <1>5, <1>6, Zenon

LEMMA CountingHolds ==
  ASSUME VirtioDiskAssumption
  PROVE  Counting(Desc)
<1>1. ASSUME NEW S \in SUBSET Desc, S # {} PROVE Least(S) \in S
  <2>1. S \in SUBSET Nat
    BY SMT DEF Desc
  <2>2. PICK m \in S : \A e \in S : <<e, m>> \notin OpToRel(<, Nat)
    BY <1>1, <2>1, NatLessThanWellFounded, WFMin, Zenon
  <2>3. \A e \in S : ~(e < m)
    BY <2>1, <2>2, Zenon DEF OpToRel
  <2>4. \A e \in S : m <= e
    BY <2>1, <2>3, SMT
  <2> QED
    BY <2>4, Zenon DEF Least
<1>2. ASSUME NEW S \in SUBSET Desc, NEW x \in Desc, NEW y \in Desc, Cardinality(S) >= 3
      PROVE  S # {} /\ S \ {x} # {} /\ S \ {x, y} # {}
  <2>1. IsFiniteSet(S)
    BY DescFinite, FS_Subset, Zenon
  <2> QED
    BY <1>2, <2>1, TwoRemoved, Zenon
<1> QED
  BY <1>1, <1>2, Room, Zenon DEF Counting

(* The invariant holds in every state. *)
THEOREM Invariant ==
  ASSUME VirtioDiskAssumption
  PROVE  Spec => []Inv
<1>1. Init => Inv
  BY InitInv, Zenon
<1>2. Inv /\ [Next]_vars => Inv'
  BY CountingHolds, NextInv, Zenon
<1> QED
  BY <1>1, <1>2, PTL DEF Spec

(* When virtio_disk_rw() returns, its request was carried out               *)
(* (virtio_disk.c:215-327).                                                 *)
THEOREM RequestsCarriedOut ==
  ASSUME VirtioDiskAssumption
  PROVE  Spec => []Transferred
<1>1. Inv => Transferred
  BY Zenon DEF Inv, Results, Agree, Transferred
<1> QED
  BY <1>1, Invariant, PTL

(* Neither free_desc() nor virtio_disk_intr() panics (virtio_disk.c:168-189, *)
(* 301-327).                                                                *)
THEOREM DriverNeverPanics ==
  ASSUME VirtioDiskAssumption
  PROVE  Spec => [](panicked = FALSE)
<1>1. Inv => panicked = FALSE
  BY Zenon DEF Inv
<1> QED
  BY <1>1, Invariant, PTL
=============================================================================
