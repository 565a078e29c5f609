------------------------------ MODULE LogProofs ------------------------------
(***************************************************************************)
(* Proofs about Log, for any processes, blocks and sizes: its types, that  *)
(* commits run alone, that logged blocks stay pinned until they are        *)
(* installed, and that a home block is written only while the header on    *)
(* disk lists it; that Log implements TxDisk; and that log_write() and     *)
(* end_op() never panic.                                                   *)
(***************************************************************************)
EXTENDS Log, FiniteSetTheorems, TLAPS

Callers == {p \in Proc : InCall(p)}

(* Where a process is in its call or commit: which log block comes next,    *)
(* and that the header on disk is the one in memory while it installs.      *)
Place(p) ==
  /\ pc[p] = "buf" => blk[p] \in Block
  /\ pc[p] \in {"write_log", "install"} => tail[p] < Len(lh)
  /\ pc[p] \notin {"write_log", "install"} => tail[p] = 0
  /\ pc[p] = "write_head" => Len(lh) > 0
  /\ pc[p] \in {"install", "clear"} => dhead = lh

LogFits == Len(lh) < LogSize /\ Len(dhead) < LogSize
CallsCounted == outstanding = Cardinality(Callers)
CommitFlagged == committing <=> \E p \in Proc : InCommit(p)
Places == \A p \in Proc : Place(p)

Recovery ==
  /\ boot # "up" => (\A p \in Proc : pc[p] = "begin") /\ (\A b \in Block : pins[b] = 0)
  /\ boot = "install" => dhead = lh /\ rtail < Len(lh)
  /\ boot # "install" => rtail = 0

(* The inductive invariant. *)
IndInv ==
  /\ TypeOK /\ LogFits /\ CallsCounted /\ CommitFlagged /\ CommitAlone /\ Places /\ Recovery
  /\ LoggedOnce /\ PinnedUntilInstalled

-----------------------------------------------------------------------------
(* Facts the steps share. *)

(* The processes between begin_op() and end_op() are finitely many. *)
LEMMA CallersFinite == IsFiniteSet(Callers)
BY LogAssumption, FS_Subset, Zenon DEF Callers

(* The empty header that initlog() and commit() leave fits the log. *)
LEMMA NoBlocks == <<>> \in Seq(Block) /\ Len(<<>>) = 0 /\ Len(<<>>) < LogSize
BY LogAssumption

(* commit() and recover_from_log() find a first block in a header that is not empty. *)
LEMMA SomeBlock == ASSUME NEW s \in Seq(Block), s # <<>> PROVE 0 < Len(s)
<1>1. Len(s) \in Nat /\ s \in [1 .. Len(s) -> Block]
  OBVIOUS
<1>2. Len(s) # 0
  <2> SUFFICES ASSUME Len(s) = 0 PROVE s = <<>>
    BY Zenon
  <2> QED
    BY <1>1
<1> QED
  BY <1>1, <1>2

(* What log_write() appends to the header, and what it leaves in place. *)
LEMMA OneMore ==
  ASSUME NEW s \in Seq(Block), NEW b \in Block
  PROVE  /\ Append(s, b) \in Seq(Block) /\ Len(Append(s, b)) = Len(s) + 1
         /\ \A i \in 1 .. Len(s) : Append(s, b)[i] = s[i]
         /\ Append(s, b)[Len(s) + 1] = b
OBVIOUS

(* The block a commit or a recovery works on, lh[t + 1], and its log block. *)
LEMMA AtBlock ==
  ASSUME TypeOK, LogFits, NEW t \in Nat, t < Len(lh)
  PROVE  /\ t + 1 \in 1 .. Len(lh) /\ t + 1 \in Slot
         /\ lh[t + 1] \in Block /\ dlog[t + 1] \in Content
<1>1. lh \in Seq(Block) /\ dlog \in [Slot -> Content]
  BY Zenon DEF TypeOK
<1>2. Len(lh) \in Nat /\ LogSize \in Nat
  BY <1>1, LogAssumption
<1>3. t + 1 \in 1 .. Len(lh) /\ t + 1 \in 1 .. (LogSize - 1)
  BY <1>2 DEF LogFits
<1> QED
  BY <1>1, <1>3 DEF Slot

(* A step that installs nothing and leaves lh and pins alone. *)
LEMMA PinFrame ==
  ASSUME LoggedOnce, PinnedUntilInstalled, pins' = pins, lh' = lh, boot' = boot,
         \A i \in 1 .. Len(lh) : Installed(i)' <=> Installed(i)
  PROVE  LoggedOnce' /\ PinnedUntilInstalled'
BY Zenon DEF LoggedOnce, PinnedUntilInstalled

-----------------------------------------------------------------------------
(* A freshly booted system satisfies the invariant. *)
LEMMA InitIndInv == Init => IndInv
<1> SUFFICES ASSUME Init PROVE IndInv
  BY Zenon
<1> USE LogAssumption DEF Init
<1>1. TypeOK
  <2>1. InitVal \in Content
    BY Zenon DEF Content
  <2>2. home \in [Block -> Content] /\ dlog \in [Slot -> Content]
    BY <2>1, Zenon
  <2>3. pc \in [Proc -> PC] /\ wrote \in [Proc -> SUBSET Block] /\ tail \in [Proc -> Nat]
    BY Zenon DEF PC
  <2>4. blk \in [Proc -> Block \cup {NoBuf}] /\ pins \in [Block -> Nat]
    BY Zenon
  <2>5. cache \in [Block -> Content \cup {NoBuf}]
    BY Zenon
  <2> QED
    BY <2>2, <2>3, <2>4, <2>5, NoBlocks, Zenon DEF TypeOK
<1>2. CallsCounted
  <2>1. Callers = {}
    BY Zenon DEF Callers, InCall
  <2> QED
    BY <2>1, FS_EmptySet, Zenon DEF CallsCounted
<1>3. CommitFlagged /\ CommitAlone /\ Places
  BY Zenon DEF CommitFlagged, CommitAlone, InCommit, Places, Place
<1> QED
  BY <1>1, <1>2, <1>3, NoBlocks, Zenon
     DEF IndInv, LogFits, Recovery, LoggedOnce, PinnedUntilInstalled

(* A step that changes nothing but panicked. *)
LEMMA Frame ==
  ASSUME IndInv, TypeOK', UNCHANGED <<disk, logvars, bufs, procs, boot, rtail>>
  PROVE  IndInv'
<1> USE DEF disk, logvars, bufs, procs
<1>1. Callers' = Callers
  BY Zenon DEF Callers, InCall
<1>2. CallsCounted' /\ LogFits'
  BY <1>1, Zenon DEF IndInv, CallsCounted, LogFits
<1>3. CommitFlagged' /\ CommitAlone'
  BY Zenon DEF IndInv, CommitFlagged, CommitAlone, InCommit, InCall
<1>4. Places' /\ Recovery'
  BY Zenon DEF IndInv, Places, Place, Recovery
<1>5. LoggedOnce' /\ PinnedUntilInstalled'
  <2>1. \A i \in 1 .. Len(lh) : Installed(i)' <=> Installed(i)
    BY Zenon DEF Installed
  <2> QED
    BY <2>1, PinFrame, Zenon DEF IndInv
<1> QED
  BY <1>2, <1>3, <1>4, <1>5, Zenon DEF IndInv

(* A panic() changes nothing but panicked. *)
LEMMA PanicStep ==
  ASSUME IndInv,
         \E m \in {"too big a transaction", "log_write outside of trans"} : Panics(m)
  PROVE  IndInv'
<1>1. TypeOK'
  BY Zenon DEF IndInv, Panics, disk, logvars, bufs, procs, TypeOK
<1> QED
  BY <1>1, Frame, Zenon DEF Panics

-----------------------------------------------------------------------------
(* One lemma per action. *)

(* Reading a block into the cache, or recycling its buffer, preserves the invariant. *)
LEMMA LoadStep == ASSUME IndInv, NEW b \in Block, Load(b) \/ Evict(b) PROVE IndInv'
<1>1. TypeOK'
  BY Zenon DEF IndInv, Load, Evict, disk, logvars, procs, TypeOK, Content, PC
<1>2. LogFits'
  BY Zenon DEF IndInv, Load, Evict, disk, logvars, procs, LogFits
<1>3. CallsCounted'
  <2>1. Callers' = Callers
    BY Zenon DEF IndInv, Load, Evict, disk, logvars, procs, TypeOK, PC, Callers, InCall
  <2> QED
    BY <2>1, Zenon DEF IndInv, Load, Evict, disk, logvars, procs, CallsCounted
<1>4. CommitFlagged' /\ CommitAlone'
  <2>1. pc' = pc /\ committing' = committing
    BY Zenon DEF Load, Evict, logvars, procs
  <2> QED
    BY <2>1, Zenon DEF IndInv, CommitFlagged, CommitAlone, InCommit, InCall
<1>5. Places'
  BY Zenon DEF IndInv, Load, Evict, disk, logvars, procs, TypeOK, PC, Places, Place
<1>6. Recovery'
  BY Zenon DEF IndInv, Load, Evict, disk, logvars, procs, Recovery, Running
<1>7. LoggedOnce' /\ PinnedUntilInstalled'
  <2>1. \A i \in 1 .. Len(lh) : Installed(i)' <=> Installed(i)
    BY Zenon DEF IndInv, Load, Evict, disk, logvars, procs, TypeOK, PC, Installed
  <2> QED
    BY <2>1, PinFrame, Zenon DEF IndInv, Load, Evict, disk, logvars, procs
<1> QED
  BY <1>1, <1>2, <1>3, <1>4, <1>5, <1>6, <1>7, Zenon DEF IndInv

(* begin_op() going to sleep preserves the invariant. *)
LEMMA SleepStep == ASSUME IndInv, NEW p \in Proc, begin_op_sleep(p) PROVE IndInv'
<1>1. TypeOK'
  BY Zenon DEF IndInv, begin_op_sleep, disk, logvars, bufs, TypeOK, Content, PC
<1>2. LogFits'
  BY Zenon DEF IndInv, begin_op_sleep, disk, logvars, bufs, LogFits
<1>3. CallsCounted'
  <2>1. Callers' = Callers
    BY Zenon
       DEF IndInv, begin_op_sleep, disk, logvars, bufs, TypeOK, PC, Callers, InCall
  <2> QED
    BY <2>1, Zenon DEF IndInv, begin_op_sleep, disk, logvars, bufs, CallsCounted
<1>4. CommitFlagged' /\ CommitAlone'
  BY Zenon
     DEF IndInv, begin_op_sleep, disk, logvars, bufs, TypeOK, PC, CommitFlagged, CommitAlone, InCommit, InCall
<1>5. Places'
  BY Zenon DEF IndInv, begin_op_sleep, disk, logvars, bufs, TypeOK, PC, Places, Place
<1>6. Recovery'
  BY Zenon DEF IndInv, begin_op_sleep, disk, logvars, bufs, Recovery, Running
<1>7. LoggedOnce' /\ PinnedUntilInstalled'
  <2>1. \A i \in 1 .. Len(lh) : Installed(i)' <=> Installed(i)
    BY Zenon DEF IndInv, begin_op_sleep, disk, logvars, bufs, TypeOK, PC, Installed
  <2> QED
    BY <2>1, PinFrame, Zenon DEF IndInv, begin_op_sleep, disk, logvars, bufs
<1> QED
  BY <1>1, <1>2, <1>3, <1>4, <1>5, <1>6, <1>7, Zenon DEF IndInv

(* begin_op() counts one more call, and only when no commit runs. *)
LEMMA BeginStep == ASSUME IndInv, NEW p \in Proc, begin_op(p) PROVE IndInv'
<1>1. TypeOK'
  <2>1. outstanding \in Nat /\ outstanding' = outstanding + 1
    BY Zenon DEF IndInv, begin_op, TypeOK
  <2>2. outstanding' \in Nat
    BY <2>1
  <2> QED
    BY <2>2, Zenon DEF IndInv, begin_op, disk, bufs, TypeOK, PC
<1>2. LogFits'
  BY Zenon DEF IndInv, begin_op, disk, bufs, LogFits
<1>3. CallsCounted'
  <2>1. pc[p] = "begin" /\ pc' = [pc EXCEPT ![p] = "op"] /\ pc \in [Proc -> PC]
    BY Zenon DEF IndInv, begin_op, TypeOK
  <2>2. Callers' = Callers \cup {p} /\ p \notin Callers
    BY <2>1, Zenon DEF Callers, InCall
  <2> QED
    BY <2>2, CallersFinite, FS_AddElement, Zenon DEF IndInv, begin_op, CallsCounted
<1>4. CommitFlagged' /\ CommitAlone'
  <2>1. ~committing
    BY Zenon DEF begin_op, NoRoom
  <2> QED
    BY <2>1, Zenon
       DEF IndInv, begin_op, TypeOK, PC, CommitFlagged, CommitAlone, InCommit
<1>5. Places'
  BY Zenon DEF IndInv, begin_op, disk, bufs, TypeOK, PC, Places, Place
<1>6. Recovery'
  BY Zenon DEF IndInv, begin_op, disk, bufs, Recovery, Running
<1>7. LoggedOnce' /\ PinnedUntilInstalled'
  <2>1. \A i \in 1 .. Len(lh) : Installed(i)' <=> Installed(i)
    BY Zenon DEF IndInv, begin_op, disk, bufs, TypeOK, PC, Installed
  <2> QED
    BY <2>1, PinFrame, Zenon DEF IndInv, begin_op, disk, bufs
<1> QED
  BY <1>1, <1>2, <1>3, <1>4, <1>5, <1>6, <1>7, Zenon DEF IndInv

(* A call that changes a buffer preserves the invariant. *)
LEMMA ModifyStep == ASSUME IndInv, NEW p \in Proc, NEW b \in Block, NEW v \in Val, Modify(p, b, v) PROVE IndInv'
<1>1. TypeOK'
  BY Zenon DEF IndInv, Modify, disk, logvars, TypeOK, Content, PC
<1>2. LogFits'
  BY Zenon DEF IndInv, Modify, disk, logvars, LogFits
<1>3. CallsCounted'
  <2>1. Callers' = Callers
    BY Zenon DEF IndInv, Modify, disk, logvars, TypeOK, PC, Callers, InCall
  <2> QED
    BY <2>1, Zenon DEF IndInv, Modify, disk, logvars, CallsCounted
<1>4. CommitFlagged' /\ CommitAlone'
  BY Zenon
     DEF IndInv, Modify, disk, logvars, TypeOK, PC, CommitFlagged, CommitAlone, InCommit, InCall
<1>5. Places'
  BY Zenon DEF IndInv, Modify, disk, logvars, TypeOK, PC, Places, Place
<1>6. Recovery'
  BY Zenon DEF IndInv, Modify, disk, logvars, Recovery, Running
<1>7. LoggedOnce' /\ PinnedUntilInstalled'
  <2>1. \A i \in 1 .. Len(lh) : Installed(i)' <=> Installed(i)
    BY Zenon DEF IndInv, Modify, disk, logvars, TypeOK, PC, Installed
  <2> QED
    BY <2>1, PinFrame, Zenon DEF IndInv, Modify, disk, logvars
<1> QED
  BY <1>1, <1>2, <1>3, <1>4, <1>5, <1>6, <1>7, Zenon DEF IndInv

(* log_write() appends and pins a block the header lacks, or absorbs the write. *)
LEMMA LogWriteStep == ASSUME IndInv, NEW p \in Proc, log_write(p) PROVE IndInv'
<1>1. CASE TooBig \/ outstanding < 1
  BY <1>1, PanicStep, Zenon DEF log_write
<1>2. CASE ~(TooBig \/ outstanding < 1)
  <2> DEFINE b == blk[p]
  <2>1. /\ pc[p] = "buf" /\ Running
        /\ IF Logged(b) THEN UNCHANGED <<lh, pins>>
           ELSE lh' = Append(lh, b) /\ pins' = [pins EXCEPT ![b] = @ + 1]
        /\ wrote' = [wrote EXCEPT ![p] = @ \cup {b}]
        /\ blk' = [blk EXCEPT ![p] = NoBuf]
        /\ pc' = [pc EXCEPT ![p] = "op"]
        /\ UNCHANGED <<home, dlog, dhead, outstanding, committing, cache, tail, boot, rtail, panicked>>
    BY <1>2, Zenon DEF log_write, disk
  <2>2. b \in Block /\ TypeOK /\ LogFits
    BY <2>1, Zenon DEF IndInv, Places, Place
  <2> HIDE DEF b
  <2>a. lh \in Seq(Block) /\ pins \in [Block -> Nat]
    BY <2>2, Zenon DEF TypeOK
  <2>3. lh \in Seq(Block) /\ Len(lh) \in Nat /\ Len(lh) + 1 < LogSize
    BY <1>2, <2>a, LogAssumption DEF TooBig
  <2>4. lh' \in Seq(Block) /\ Len(lh') < LogSize /\ LogFits'
    BY <2>1, <2>2, <2>3, OneMore, Zenon DEF LogFits
  <2>5. pins' \in [Block -> Nat]
    BY <2>1, <2>a
  <2>6. TypeOK'
    BY <2>1, <2>2, <2>4, <2>5, Zenon DEF TypeOK, PC
  <2>7. CallsCounted'
    <3>1. Callers' = Callers
      BY <2>1, <2>2, Zenon DEF TypeOK, PC, Callers, InCall
    <3> QED
      BY <2>1, <3>1, Zenon DEF IndInv, CallsCounted
  <2>8. \A q \in Proc : ~InCommit(q) /\ ~InCommit(q)'
    BY <2>1, <2>2, Zenon DEF IndInv, TypeOK, PC, CommitAlone, InCommit, InCall
  <2>9. CommitFlagged' /\ CommitAlone'
    BY <2>1, <2>8, Zenon DEF IndInv, CommitFlagged, CommitAlone
  <2>10. Places'
    BY <2>1, <2>2, <2>8, Zenon DEF IndInv, TypeOK, PC, Places, Place, InCommit
  <2>11. Recovery'
    BY <2>1, Zenon DEF IndInv, Recovery, Running
  <2>12. \A i : ~Installed(i) /\ ~Installed(i)'
    BY <2>8, Zenon DEF Installed, InCommit
  <2>13. LoggedOnce' /\ PinnedUntilInstalled'
    <3>1. CASE Logged(b)
      BY <2>1, <2>12, <3>1, PinFrame, Zenon DEF IndInv
    <3>2. CASE ~Logged(b)
      <4>1. /\ lh' = Append(lh, b) /\ Len(lh') = Len(lh) + 1
            /\ \A i \in 1 .. Len(lh) : lh'[i] = lh[i] /\ lh[i] # b
            /\ lh'[Len(lh) + 1] = b
        <5>1. lh' = Append(lh, b)
          BY <2>1, <3>2, Zenon
        <5>2. \A i \in 1 .. Len(lh) : lh[i] # b
          BY <3>2, Zenon DEF Logged
        <5> QED
          BY <2>2, <2>3, <5>1, <5>2, OneMore, Zenon
      <4>2. \A i \in 1 .. Len(lh') : i \in 1 .. Len(lh) \/ i = Len(lh) + 1
        BY <2>3, <4>1
      <4>3. LoggedOnce'
        BY <2>1, <4>1, <4>2 DEF IndInv, LoggedOnce
      <4>4. ASSUME boot = "up", NEW c \in Block
            PROVE  pins'[c] = IF \E i \in 1 .. Len(lh') : lh'[i] = c THEN 1 ELSE 0
        <5>1. pins[c] = IF \E i \in 1 .. Len(lh) : lh[i] = c THEN 1 ELSE 0
          BY <2>12, <4>4, Zenon DEF IndInv, PinnedUntilInstalled
        <5>2. CASE c = b
          <6>1. pins[c] = 0
            BY <4>1, <5>1, <5>2, Zenon
          <6>2. pins'[c] = 1
            BY <2>1, <2>2, <2>a, <3>2, <5>2, <6>1
          <6>3. Len(lh) + 1 \in 1 .. Len(lh') /\ lh'[Len(lh) + 1] = c
            BY <2>3, <4>1, <5>2
          <6> QED
            BY <6>2, <6>3, Zenon
        <5>3. CASE c # b
          <6>1. pins'[c] = pins[c]
            BY <2>1, <2>2, <2>a, <3>2, <5>3, Zenon
          <6>2. (\E i \in 1 .. Len(lh') : lh'[i] = c) <=> (\E i \in 1 .. Len(lh) : lh[i] = c)
            <7>1. \A i \in 1 .. Len(lh) : i \in 1 .. Len(lh')
              BY <2>3, <4>1
            <7> QED
              BY <4>1, <4>2, <5>3, <7>1, Zenon
          <6> QED
            BY <5>1, <6>1, <6>2, Zenon
        <5> QED
          BY <5>2, <5>3, Zenon
      <4>5. PinnedUntilInstalled'
        BY <2>1, <2>12, <4>4, Zenon DEF PinnedUntilInstalled
      <4> QED
        BY <4>3, <4>5, Zenon
    <3> QED
      BY <3>1, <3>2, Zenon
  <2> QED
    BY <2>4, <2>6, <2>7, <2>9, <2>10, <2>11, <2>13, Zenon DEF IndInv
<1> QED
  BY <1>1, <1>2, Zenon

(* end_op() counts one call less; the last one starts the commit, alone. *)
LEMMA EndStep == ASSUME IndInv, NEW p \in Proc, end_op(p) PROVE IndInv'
<1>1. ~committing
  BY Zenon DEF IndInv, CommitFlagged, CommitAlone, InCall, end_op
<1>2. IndInv'
  <2>1. /\ pc[p] = "op" /\ Running
        /\ outstanding' = outstanding - 1
        /\ IF outstanding' = 0
           THEN /\ committing' = TRUE
                /\ pc' = [pc EXCEPT ![p] = IF lh = <<>> THEN "done" ELSE "write_log"]
           ELSE pc' = wakeup([pc EXCEPT ![p] = "begin"]) /\ UNCHANGED committing
        /\ wrote' = [wrote EXCEPT ![p] = {}]
        /\ UNCHANGED <<home, dlog, dhead, lh, cache, pins, blk, tail, boot, rtail, panicked>>
    BY <1>1, Zenon DEF end_op, disk, bufs
  <2>2. TypeOK /\ pc \in [Proc -> PC]
    BY Zenon DEF IndInv, TypeOK
  <2>3. pc' \in [Proc -> PC] /\ \A q \in Proc \ {p} : pc'[q] = pc[q] \/ (pc[q] = "sleep" /\ pc'[q] = "begin")
    BY <2>1, <2>2, Zenon DEF PC, wakeup
  <2>4. pc'[p] = IF outstanding' = 0 THEN IF lh = <<>> THEN "done" ELSE "write_log" ELSE "begin"
    BY <2>1, <2>2, Zenon DEF wakeup
  <2>5. p \in Callers /\ Callers' = Callers \ {p}
    BY <2>1, <2>2, <2>3, <2>4, Zenon DEF Callers, InCall
  <2>6. outstanding' = Cardinality(Callers') /\ outstanding' \in Nat
    <3>1. IsFiniteSet(Callers \ {p}) /\ Cardinality(Callers \ {p}) = Cardinality(Callers) - 1
      BY <2>5, CallersFinite, FS_RemoveElement, Zenon
    <3>2. Cardinality(Callers \ {p}) \in Nat
      BY <3>1, FS_CardinalityType, Zenon
    <3> QED
      BY <2>1, <2>5, <3>1, <3>2, Zenon DEF IndInv, CallsCounted
  <2>7. TypeOK'
    BY <2>1, <2>2, <2>3, <2>6, Zenon DEF TypeOK
  <2>8. \A q \in Proc : ~InCommit(q)
    BY <1>1, Zenon DEF IndInv, CommitFlagged
  <2>9. ASSUME outstanding' = 0, NEW q \in Proc, q # p PROVE ~InCall(q)
    <3>0. outstanding \in Nat
      BY <2>2, Zenon DEF TypeOK
    <3>1. Cardinality(Callers) = 1
      BY <2>1, <2>9, <3>0 DEF IndInv, CallsCounted
    <3>2. PICK x : Callers = {x}
      BY <3>1, CallersFinite, FS_Singleton, Zenon
    <3> QED
      BY <2>5, <2>9, <3>2, Zenon DEF Callers
  <2>10. \A q \in Proc : InCommit(q)' => q = p /\ outstanding' = 0
    BY <2>3, <2>4, <2>8, Zenon DEF InCommit
  <2>11. CommitFlagged'
    <3>1. outstanding' = 0 => InCommit(p)'
      BY <2>4, Zenon DEF InCommit
    <3> QED
      BY <1>1, <2>1, <2>10, <3>1, Zenon DEF CommitFlagged
  <2>12. CommitAlone'
    <3>1. ASSUME outstanding' = 0, NEW q \in Proc PROVE ~InCall(q)'
      BY <2>3, <2>4, <2>9, <3>1, Zenon DEF InCall
    <3> QED
      BY <2>10, <3>1, Zenon DEF CommitAlone
  <2>13. Places'
    <3>1. Place(p)'
      <4>1. tail[p] = 0
        BY <2>1, Zenon DEF IndInv, Places, Place
      <4>2. lh # <<>> => 0 < Len(lh)
        BY <2>2, SomeBlock, Zenon DEF TypeOK
      <4> QED
        BY <2>1, <2>4, <4>1, <4>2, Zenon DEF Place
    <3>2. ASSUME NEW q \in Proc, q # p PROVE Place(q)'
      BY <2>1, <2>3, <2>8, <3>2, Zenon DEF IndInv, Places, Place, InCommit
    <3> QED
      BY <3>1, <3>2, Zenon DEF Places
  <2>14. Recovery' /\ LogFits'
    BY <2>1, Zenon DEF IndInv, Recovery, Running, LogFits
  <2>15. \A i : ~Installed(i) /\ ~Installed(i)'
    BY <2>3, <2>4, <2>8, Zenon DEF Installed, InCommit
  <2>16. LoggedOnce' /\ PinnedUntilInstalled'
    BY <2>1, <2>15, PinFrame, Zenon DEF IndInv
  <2> QED
    BY <2>6, <2>7, <2>11, <2>12, <2>13, <2>14, <2>16, Zenon DEF IndInv, CallsCounted
<1> QED
  BY <1>2, Zenon

(* A round of write_log() preserves the invariant. *)
LEMMA WriteLogStep == ASSUME IndInv, NEW p \in Proc, write_log(p) PROVE IndInv'
<1>a. /\ TypeOK /\ LogFits /\ tail \in [Proc -> Nat] /\ pc \in [Proc -> PC] /\ pc[p] = "write_log"
      /\ lh \in Seq(Block) /\ tail[p] < Len(lh)
  BY Zenon DEF IndInv, write_log, Places, Place, TypeOK
<1>0. tail[p] \in Nat /\ lh[tail[p] + 1] \in Block /\ Len(lh) \in Nat
  BY <1>a, AtBlock
<1>b. tail' = [tail EXCEPT ![p] = IF tail[p] + 1 = Len(lh) THEN 0 ELSE tail[p] + 1]
      /\ pc' = [pc EXCEPT ![p] = IF tail[p] + 1 = Len(lh) THEN "write_head" ELSE @]
      /\ UNCHANGED <<home, dhead, lh, outstanding, committing, pins, blk, wrote, boot, rtail, panicked>>
  BY Zenon DEF write_log, logvars
<1>c. \A q \in Proc : q # p => ~InCommit(q) /\ pc'[q] = pc[q] /\ tail'[q] = tail[q]
  BY <1>a, <1>b, Zenon DEF IndInv, CommitAlone, InCommit
<1>d. pc'[p] = (IF tail[p] + 1 = Len(lh) THEN "write_head" ELSE "write_log")
      /\ tail'[p] = (IF tail[p] + 1 = Len(lh) THEN 0 ELSE tail[p] + 1)
  BY <1>a, <1>b, Zenon
<1>1. TypeOK'
  <2> DEFINE v == bread(lh[tail[p] + 1])
  <2>1. v \in Content
    BY <1>0, <1>a, Zenon DEF bread, TypeOK
  <2> HIDE DEF v
  <2>2. dlog' = [dlog EXCEPT ![tail[p] + 1] = v] /\ cache' = [cache EXCEPT ![lh[tail[p] + 1]] = v]
    BY Zenon DEF write_log, v
  <2>3. tail' \in [Proc -> Nat] /\ pc' \in [Proc -> PC]
    BY <1>0, <1>a, <1>b DEF PC
  <2>4. dlog' \in [Slot -> Content] /\ cache' \in [Block -> Content \cup {NoBuf}]
    BY <1>a, <2>1, <2>2, Zenon DEF TypeOK
  <2> QED
    BY <1>a, <1>b, <2>3, <2>4, Zenon DEF TypeOK
<1>2. LogFits'
  BY Zenon DEF IndInv, write_log, logvars, LogFits
<1>3. CallsCounted'
  <2>1. Callers' = Callers
    BY <1>a, <1>c, <1>d, Zenon DEF Callers, InCall
  <2> QED
    BY <1>b, <2>1, Zenon DEF IndInv, CallsCounted
<1>4. CommitFlagged' /\ CommitAlone'
  <2>1. committing' = committing
    BY <1>b, Zenon
  <2>2. InCommit(p) /\ InCommit(p)' /\ ~InCall(p) /\ ~InCall(p)'
    BY <1>a, <1>d, Zenon DEF InCommit, InCall
  <2>3. \A q \in Proc : (InCommit(q)' <=> InCommit(q)) /\ (InCall(q)' <=> InCall(q))
    BY <1>c, <2>2, Zenon DEF InCommit, InCall
  <2> QED
    BY <2>1, <2>3, Zenon DEF IndInv, CommitFlagged, CommitAlone
<1>5. Places'
  <2>1. Place(p)'
    <3>0. lh' = lh /\ tail[p] < Len(lh) /\ tail[p] \in Nat /\ Len(lh) \in Nat
      BY <1>0, <1>a, <1>b, Zenon
    <3>1. CASE tail[p] + 1 = Len(lh)
      <4>1. pc'[p] = "write_head" /\ tail'[p] = 0
        BY <1>d, <3>1, Zenon
      <4> QED
        BY <3>0, <3>1, <4>1 DEF Place
    <3>2. CASE tail[p] + 1 # Len(lh)
      <4>1. pc'[p] = "write_log" /\ tail'[p] = tail[p] + 1
        BY <1>d, <3>2, Zenon
      <4> QED
        BY <3>0, <3>2, <4>1 DEF Place
    <3> QED
      BY <3>1, <3>2, Zenon
  <2>2. ASSUME NEW q \in Proc, q # p PROVE Place(q)'
    BY <1>b, <1>c, <2>2, Zenon DEF IndInv, Places, Place, InCommit
  <2> QED
    BY <2>1, <2>2, Zenon DEF Places
<1>6. Recovery'
  BY Zenon DEF IndInv, write_log, logvars, Recovery, Running
<1>7. LoggedOnce' /\ PinnedUntilInstalled'
  <2>1. \A i \in 1 .. Len(lh) : Installed(i)' <=> Installed(i)
    BY Zenon DEF IndInv, write_log, logvars, TypeOK, PC, Installed
  <2> QED
    BY <2>1, PinFrame, Zenon DEF IndInv, write_log, logvars
<1> QED
  BY <1>1, <1>2, <1>3, <1>4, <1>5, <1>6, <1>7, Zenon DEF IndInv

(* write_head() makes the header on disk the one in memory, with nothing installed. *)
LEMMA WriteHeadStep == ASSUME IndInv, NEW p \in Proc, write_head(p) PROVE IndInv'
<1>1. TypeOK'
  BY Zenon DEF IndInv, write_head, logvars, bufs, TypeOK, Content, PC
<1>2. LogFits'
  BY Zenon DEF IndInv, write_head, logvars, bufs, LogFits
<1>3. CallsCounted'
  <2>1. Callers' = Callers
    BY Zenon DEF IndInv, write_head, logvars, bufs, TypeOK, PC, Callers, InCall
  <2> QED
    BY <2>1, Zenon DEF IndInv, write_head, logvars, bufs, CallsCounted
<1>4. CommitFlagged' /\ CommitAlone'
  <2>1. committing' = committing
    BY Zenon DEF write_head, logvars
  <2>2. \A q \in Proc : (InCommit(q)' <=> InCommit(q)) /\ (InCall(q)' <=> InCall(q))
    BY Zenon DEF IndInv, write_head, TypeOK, InCommit, InCall
  <2> QED
    BY <2>1, <2>2, Zenon DEF IndInv, CommitFlagged, CommitAlone
<1>5. Places'
  BY Zenon
     DEF IndInv, write_head, logvars, TypeOK, PC, Places, Place, CommitAlone, InCommit
<1>6. Recovery'
  BY Zenon DEF IndInv, write_head, logvars, bufs, Recovery, Running
<1>7. LoggedOnce' /\ PinnedUntilInstalled'
  <2>1. pc[p] = "write_head" /\ pc' = [pc EXCEPT ![p] = "install"] /\ tail[p] = 0 /\ tail' = tail
    BY Zenon DEF IndInv, write_head, Places, Place
  <2>2. \A q \in Proc : q # p => ~InCommit(q) /\ pc'[q] = pc[q]
    BY <2>1, Zenon DEF IndInv, TypeOK, CommitAlone, InCommit
  <2>3. \A i \in 1 .. Len(lh) : ~Installed(i) /\ ~Installed(i)'
    BY <2>1, <2>2 DEF Installed, InCommit
  <2> QED
    BY <2>3, PinFrame, Zenon DEF IndInv, write_head, logvars, bufs
<1> QED
  BY <1>1, <1>2, <1>3, <1>4, <1>5, <1>6, <1>7, Zenon DEF IndInv

(* A round of install_trans(0) unpins the one block it installs, pinned once. *)
LEMMA InstallStep == ASSUME IndInv, NEW p \in Proc, install_trans(p) PROVE IndInv'
<1> DEFINE t == tail[p] + 1
<1>f. /\ TypeOK /\ LogFits /\ tail \in [Proc -> Nat] /\ pc \in [Proc -> PC] /\ pins \in [Block -> Nat]
      /\ lh \in Seq(Block) /\ Running /\ pc[p] = "install" /\ tail[p] < Len(lh)
  BY Zenon DEF IndInv, install_trans, Places, Place, TypeOK
<1>0. /\ tail[p] \in Nat /\ Len(lh) \in Nat
      /\ t \in 1 .. Len(lh) /\ lh[t] \in Block /\ dlog[t] \in Content
  BY <1>f, AtBlock
<1>a. /\ home' = [home EXCEPT ![lh[t]] = dlog[t]] /\ cache' = [cache EXCEPT ![lh[t]] = dlog[t]]
      /\ pins' = [pins EXCEPT ![lh[t]] = @ - 1]
      /\ tail' = [tail EXCEPT ![p] = IF t = Len(lh) THEN 0 ELSE t]
      /\ pc' = [pc EXCEPT ![p] = IF t = Len(lh) THEN "clear" ELSE @]
      /\ UNCHANGED <<dlog, dhead, lh, outstanding, committing, blk, wrote, boot, rtail, panicked>>
  BY Zenon DEF install_trans, logvars
<1>b. \A q \in Proc : q # p => ~InCommit(q) /\ pc'[q] = pc[q] /\ tail'[q] = tail[q]
  BY <1>0, <1>a, <1>f, Zenon DEF IndInv, TypeOK, CommitAlone, InCommit
<1>c. pc'[p] = (IF t = Len(lh) THEN "clear" ELSE "install") /\ tail'[p] = (IF t = Len(lh) THEN 0 ELSE t)
  BY <1>a, <1>f, Zenon
<1> HIDE DEF t
<1>d. \A i \in 1 .. Len(lh) : (Installed(i) <=> i <= tail[p]) /\ (Installed(i)' <=> i <= t)
  <2>1. ASSUME NEW i \in 1 .. Len(lh) PROVE Installed(i) <=> i <= tail[p]
    BY <1>0, <1>b, <1>f, Zenon DEF Installed, InCommit
  <2>2. ASSUME NEW i \in 1 .. Len(lh) PROVE Installed(i)' <=> i <= t
    <3>1. CASE t = Len(lh)
      <4>1. pc'[p] = "clear" /\ i <= t
        BY <1>c, <2>2, <3>1
      <4> QED
        BY <4>1, Zenon DEF Installed
    <3>2. CASE t # Len(lh)
      <4>1. \A q \in Proc : pc'[q] = "install" => q = p
        BY <1>b, Zenon DEF InCommit
      <4>2. \A q \in Proc : pc'[q] = "clear" => q = p
        BY <1>b, Zenon DEF InCommit
      <4>3. pc'[p] = "install" /\ tail'[p] = t
        BY <1>c, <3>2, Zenon
      <4> QED
        BY <4>1, <4>2, <4>3, Zenon DEF Installed
    <3> QED
      BY <3>1, <3>2, Zenon
  <2> QED
    BY <2>1, <2>2, Zenon
<1>e. pins[lh[t]] = 1
  <2>1. ~Installed(t)
    BY <1>0, <1>d, <1>f DEF t
  <2> QED
    BY <1>0, <1>f, <2>1, Zenon DEF IndInv, PinnedUntilInstalled, Running
<1>g. pins' = [pins EXCEPT ![lh[t]] = 0]
  <2>1. pins' = [pins EXCEPT ![lh[t]] = pins[lh[t]] - 1]
    BY <1>a, Zenon
  <2> QED
    BY <1>e, <2>1
<1>h. pins \in [Block -> Nat] /\ lh[t] \in Block
  BY <1>0, <1>f, Zenon
<1>1. TypeOK'
  <2>1. pins' \in [Block -> Nat]
    BY <1>g, <1>h, Zenon
  <2>2. tail' \in [Proc -> Nat] /\ pc' \in [Proc -> PC]
    <3>1. t \in Nat /\ tail \in [Proc -> Nat] /\ pc \in [Proc -> PC] /\ "clear" \in PC
      BY <1>0, <1>f DEF PC
    <3>2. tail' \in [Proc -> Nat]
      BY <1>a, <3>1, Zenon
    <3>3. pc' \in [Proc -> PC]
      BY <1>a, <3>1, Zenon
    <3> QED
      BY <3>2, <3>3, Zenon
  <2> QED
    BY <1>0, <1>a, <1>f, <2>1, <2>2, Zenon DEF TypeOK
<1>2. LogFits' /\ Recovery'
  BY <1>0, <1>a, <1>f, Zenon DEF IndInv, LogFits, Recovery, Running
<1>3. CallsCounted'
  <2>1. Callers' = Callers
    BY <1>0, <1>b, <1>c, <1>f, Zenon DEF Callers, InCall
  <2> QED
    BY <1>a, <2>1, Zenon DEF IndInv, CallsCounted
<1>4. CommitFlagged' /\ CommitAlone'
  <2>1. committing' = committing
    BY <1>a, Zenon
  <2>2. InCommit(p) /\ InCommit(p)' /\ ~InCall(p) /\ ~InCall(p)'
    BY <1>c, <1>f, Zenon DEF InCommit, InCall
  <2>3. \A q \in Proc : (InCommit(q)' <=> InCommit(q)) /\ (InCall(q)' <=> InCall(q))
    BY <1>b, <2>2, Zenon DEF InCommit, InCall
  <2> QED
    BY <2>1, <2>3, Zenon DEF IndInv, CommitFlagged, CommitAlone
<1>5. Places'
  <2>u. /\ UNCHANGED <<dlog, dhead, lh, outstanding, committing, blk, wrote, boot, rtail, panicked>>
        /\ Place(p)
    BY <1>a, Zenon DEF IndInv, Places
  <2>1. Place(p)'
    <3>1. CASE t = Len(lh)
      BY <1>0, <1>c, <1>f, <2>u, <3>1, Zenon DEF Place
    <3>2. CASE t # Len(lh)
      <4>1. pc'[p] = "install" /\ tail'[p] = t
        BY <1>c, <3>2, Zenon
      <4>2. t < Len(lh)
        BY <1>0, <3>2
      <4>3. lh' = lh /\ dhead' = lh
        BY <1>f, <2>u, Zenon DEF Place
      <4> QED
        BY <4>1, <4>2, <4>3, Zenon DEF Place
    <3> QED
      BY <3>1, <3>2, Zenon
  <2>2. ASSUME NEW q \in Proc, q # p PROVE Place(q)'
    BY <1>a, <1>b, <2>2, Zenon DEF IndInv, Places, Place, InCommit
  <2> QED
    BY <2>1, <2>2, Zenon DEF Places
<1>6. LoggedOnce'
  BY <1>a, Zenon DEF IndInv, LoggedOnce
<1>7. PinnedUntilInstalled'
  <2> SUFFICES ASSUME NEW c \in Block
               PROVE  pins'[c] = IF \E i \in 1 .. Len(lh) : lh[i] = c /\ ~(i <= t) THEN 1 ELSE 0
    BY <1>0, <1>a, <1>d, <1>f, Zenon DEF PinnedUntilInstalled, Running
  <2>1. pins[c] = IF \E i \in 1 .. Len(lh) : lh[i] = c /\ ~(i <= tail[p]) THEN 1 ELSE 0
    BY <1>0, <1>d, <1>f, Zenon DEF IndInv, PinnedUntilInstalled, Running
  <2>2. \A i, j \in 1 .. Len(lh) : lh[i] = lh[j] => i = j
    BY <1>0, <1>f, Zenon DEF IndInv, LoggedOnce, Running
  <2>3. \A i \in 1 .. Len(lh) : ~(i <= tail[p]) <=> (~(i <= t) \/ i = t)
    BY <1>0, <1>f DEF t
  <2>4. CASE c = lh[t]
    <3>1. pins'[c] = 0
      BY <1>g, <1>h, <2>4, Zenon
    <3>2. \A i \in 1 .. Len(lh) : lh[i] = c => i <= t
      BY <1>0, <1>f, <2>2, <2>4
    <3> QED
      BY <3>1, <3>2, Zenon
  <2>5. CASE c # lh[t]
    <3>1. pins'[c] = pins[c]
      BY <1>g, <1>h, <2>5, Zenon
    <3> QED
      BY <2>1, <2>3, <2>5, <3>1, Zenon
  <2> QED
    BY <2>4, <2>5, Zenon
<1> QED
  BY <1>1, <1>2, <1>3, <1>4, <1>5, <1>6, <1>7, Zenon DEF IndInv

(* Clearing the header leaves no block pinned. *)
LEMMA ClearStep == ASSUME IndInv, NEW p \in Proc, clear_head(p) PROVE IndInv'
<1>1. TypeOK'
  BY NoBlocks, Zenon DEF IndInv, clear_head, bufs, TypeOK, PC
<1>2. LogFits'
  BY NoBlocks, Zenon DEF clear_head, LogFits
<1>3. CallsCounted'
  <2>1. Callers' = Callers
    BY Zenon DEF IndInv, clear_head, bufs, TypeOK, PC, Callers, InCall
  <2> QED
    BY <2>1, Zenon DEF IndInv, clear_head, bufs, CallsCounted
<1>4. CommitFlagged' /\ CommitAlone'
  BY Zenon
     DEF IndInv, clear_head, bufs, TypeOK, PC, CommitFlagged, CommitAlone, InCommit, InCall
<1>5. Places'
  BY NoBlocks, Zenon
     DEF IndInv, clear_head, TypeOK, PC, Places, Place, CommitAlone, InCommit
<1>6. Recovery'
  BY Zenon DEF IndInv, clear_head, bufs, Recovery, Running
<1>7. LoggedOnce' /\ PinnedUntilInstalled'
  <2>1. \A i : Installed(i)
    BY Zenon DEF clear_head, Installed
  <2>2. \A b \in Block : pins[b] = 0
    BY <2>1, Zenon DEF IndInv, PinnedUntilInstalled, clear_head, Running
  <2>3. lh' = <<>> /\ pins' = pins /\ \A i \in 1 .. Len(<<>>) : FALSE
    BY NoBlocks DEF clear_head, bufs
  <2> QED
    BY <2>2, <2>3, Zenon DEF LoggedOnce, PinnedUntilInstalled
<1> QED
  BY <1>1, <1>2, <1>3, <1>4, <1>5, <1>6, <1>7, Zenon DEF IndInv

(* The end of end_op() leaves no process in commit(). *)
LEMMA DoneStep == ASSUME IndInv, NEW p \in Proc, commit_done(p) PROVE IndInv'
<1>1. TypeOK'
  BY Zenon DEF IndInv, commit_done, wakeup, disk, bufs, TypeOK, Content, PC
<1>2. LogFits'
  BY Zenon DEF IndInv, commit_done, wakeup, disk, bufs, LogFits
<1>3. CallsCounted'
  <2>1. Callers' = Callers
    BY Zenon DEF IndInv, commit_done, wakeup, disk, bufs, TypeOK, PC, Callers, InCall
  <2> QED
    BY <2>1, Zenon DEF IndInv, commit_done, wakeup, disk, bufs, CallsCounted
<1>4. CommitFlagged' /\ CommitAlone'
  <2>1. \A q \in Proc : ~InCommit(q)'
    BY Zenon DEF IndInv, commit_done, wakeup, TypeOK, CommitAlone, InCommit
  <2> QED
    BY <2>1, Zenon DEF commit_done, CommitFlagged, CommitAlone
<1>5. Places'
  BY Zenon DEF IndInv, commit_done, wakeup, disk, bufs, TypeOK, PC, Places, Place
<1>6. Recovery'
  BY Zenon DEF IndInv, commit_done, wakeup, disk, bufs, Recovery, Running
<1>7. LoggedOnce' /\ PinnedUntilInstalled'
  <2>1. \A i \in 1 .. Len(lh) : Installed(i)' <=> Installed(i)
    BY Zenon DEF IndInv, commit_done, wakeup, disk, bufs, TypeOK, PC, Installed
  <2> QED
    BY <2>1, PinFrame, Zenon DEF IndInv, commit_done, wakeup, disk, bufs
<1> QED
  BY <1>1, <1>2, <1>3, <1>4, <1>5, <1>6, <1>7, Zenon DEF IndInv

(* read_head() at boot preserves the invariant. *)
LEMMA ReadHeadStep == ASSUME IndInv, read_head PROVE IndInv'
<1>1. TypeOK'
  BY Zenon DEF IndInv, read_head, disk, bufs, procs, TypeOK, Content, PC
<1>2. LogFits'
  BY Zenon DEF IndInv, read_head, disk, bufs, procs, LogFits
<1>3. CallsCounted'
  <2>1. Callers' = Callers
    BY Zenon DEF IndInv, read_head, disk, bufs, procs, TypeOK, PC, Callers, InCall
  <2> QED
    BY <2>1, Zenon DEF IndInv, read_head, disk, bufs, procs, CallsCounted
<1>4. CommitFlagged' /\ CommitAlone'
  BY Zenon
     DEF IndInv, read_head, disk, bufs, procs, TypeOK, PC, CommitFlagged, CommitAlone, InCommit, InCall
<1>5. Places'
  BY Zenon DEF IndInv, read_head, disk, procs, TypeOK, PC, Places, Place, Recovery
<1>6. Recovery'
  <2>1. dhead # <<>> => 0 < Len(dhead)
    BY SomeBlock, Zenon DEF IndInv, TypeOK
  <2> QED
    BY <2>1, Zenon DEF IndInv, read_head, disk, bufs, procs, Recovery
<1>7. LoggedOnce' /\ PinnedUntilInstalled'
  BY Zenon DEF read_head, LoggedOnce, PinnedUntilInstalled
<1> QED
  BY <1>1, <1>2, <1>3, <1>4, <1>5, <1>6, <1>7, Zenon DEF IndInv

(* A round of install_trans(1) at boot preserves the invariant. *)
LEMMA RecoverStep == ASSUME IndInv, recover_install PROVE IndInv'
<1>a. TypeOK /\ LogFits /\ rtail \in Nat /\ rtail < Len(lh) /\ lh \in Seq(Block)
  BY Zenon DEF IndInv, recover_install, Recovery, TypeOK
<1>0. /\ TypeOK /\ rtail \in Nat /\ rtail + 1 \in 1 .. Len(lh) /\ Len(lh) \in Nat
      /\ lh[rtail + 1] \in Block /\ dlog[rtail + 1] \in Content
  BY <1>a, AtBlock
<1>1. TypeOK'
  <2>1. home' \in [Block -> Content] /\ cache' \in [Block -> Content \cup {NoBuf}]
    BY <1>0, Zenon DEF recover_install, TypeOK
  <2>2. rtail' \in Nat /\ boot' \in {"read_head", "install", "clear", "up"}
    BY <1>0 DEF recover_install
  <2> QED
    BY <1>0, <2>1, <2>2, Zenon DEF recover_install, logvars, procs, TypeOK
<1>2. LogFits'
  BY Zenon DEF IndInv, recover_install, logvars, procs, LogFits
<1>3. CallsCounted'
  <2>1. Callers' = Callers
    BY Zenon DEF IndInv, recover_install, logvars, procs, TypeOK, PC, Callers, InCall
  <2> QED
    BY <2>1, Zenon DEF IndInv, recover_install, logvars, procs, CallsCounted
<1>4. CommitFlagged' /\ CommitAlone'
  BY Zenon
     DEF IndInv, recover_install, logvars, procs, TypeOK, PC, CommitFlagged, CommitAlone, InCommit, InCall
<1>5. Places'
  BY Zenon DEF IndInv, recover_install, logvars, procs, TypeOK, PC, Places, Place
<1>6. Recovery'
  <2>1. rtail' = (IF rtail + 1 = Len(lh) THEN 0 ELSE rtail + 1)
        /\ boot' = (IF rtail + 1 = Len(lh) THEN "clear" ELSE "install")
    BY Zenon DEF recover_install
  <2>2. boot' # "install" => rtail' = 0
    BY <2>1, Zenon
  <2>3. boot' = "install" => rtail' < Len(lh)
    BY <1>0, <2>1
  <2> QED
    BY <2>2, <2>3, Zenon DEF IndInv, recover_install, logvars, procs, Recovery
<1>7. LoggedOnce' /\ PinnedUntilInstalled'
  BY Zenon DEF recover_install, LoggedOnce, PinnedUntilInstalled
<1> QED
  BY <1>1, <1>2, <1>3, <1>4, <1>5, <1>6, <1>7, Zenon DEF IndInv

(* The end of recover_from_log() leaves an empty log and no pinned block. *)
LEMMA RecoveredStep == ASSUME IndInv, recover_clear PROVE IndInv'
<1>1. TypeOK'
  BY NoBlocks, Zenon DEF IndInv, recover_clear, bufs, procs, TypeOK
<1>2. LogFits'
  BY NoBlocks, Zenon DEF recover_clear, LogFits
<1>3. CallsCounted'
  <2>1. Callers' = Callers
    BY Zenon DEF IndInv, recover_clear, bufs, procs, TypeOK, PC, Callers, InCall
  <2> QED
    BY <2>1, Zenon DEF IndInv, recover_clear, bufs, procs, CallsCounted
<1>4. CommitFlagged' /\ CommitAlone'
  BY Zenon
     DEF IndInv, recover_clear, bufs, procs, TypeOK, PC, CommitFlagged, CommitAlone, InCommit, InCall
<1>5. Places'
  BY Zenon DEF IndInv, recover_clear, procs, TypeOK, PC, Places, Place, Recovery
<1>6. Recovery'
  BY Zenon DEF IndInv, recover_clear, bufs, procs, Recovery, Running
<1>7. LoggedOnce' /\ PinnedUntilInstalled'
  <2>1. lh' = <<>> /\ (\A b \in Block : pins'[b] = 0) /\ \A i \in 1 .. Len(<<>>) : FALSE
    BY NoBlocks DEF IndInv, recover_clear, bufs, Recovery
  <2> QED
    BY <2>1, Zenon DEF LoggedOnce, PinnedUntilInstalled
<1> QED
  BY <1>1, <1>2, <1>3, <1>4, <1>5, <1>6, <1>7, Zenon DEF IndInv

(* A crash, with a block write torn or not, preserves the invariant. *)
LEMMA CrashStep == ASSUME IndInv, Crash PROVE IndInv'
<1>1. dhead' = dhead /\ home' \in [Block -> Content] /\ dlog' \in [Slot -> Content]
  <2>1. Torn \in Content
    BY Zenon DEF Content
  <2>2. ASSUME NEW x PROVE [home EXCEPT ![x] = Torn] \in [Block -> Content]
    BY <2>1, Zenon DEF IndInv, TypeOK
  <2>3. ASSUME NEW x PROVE [dlog EXCEPT ![x] = Torn] \in [Slot -> Content]
    BY <2>1, Zenon DEF IndInv, TypeOK
  <2>4. home \in [Block -> Content] /\ dlog \in [Slot -> Content]
    BY Zenon DEF IndInv, TypeOK
  <2>5. /\ dhead' = dhead
        /\ home' = home \/ \E x : home' = [home EXCEPT ![x] = Torn]
        /\ dlog' = dlog \/ \E x : dlog' = [dlog EXCEPT ![x] = Torn]
    BY Zenon DEF Crash, Lost, disk
  <2> QED
    BY <2>2, <2>3, <2>4, <2>5
<1>2. /\ lh' = <<>> /\ outstanding' = 0 /\ committing' = FALSE
      /\ cache' = [b \in Block |-> NoBuf] /\ pins' = [b \in Block |-> 0]
      /\ pc' = [p \in Proc |-> "begin"] /\ blk' = [p \in Proc |-> NoBuf]
      /\ wrote' = [p \in Proc |-> {}] /\ tail' = [p \in Proc |-> 0]
      /\ boot' = "read_head" /\ rtail' = 0 /\ panicked' = "none"
  BY Zenon DEF Crash
<1>3. TypeOK'
  <2>1. pc' \in [Proc -> PC] /\ blk' \in [Proc -> Block \cup {NoBuf}]
        /\ wrote' \in [Proc -> SUBSET Block] /\ tail' \in [Proc -> Nat]
    BY <1>2, Zenon DEF PC
  <2>2. cache' \in [Block -> Content \cup {NoBuf}] /\ pins' \in [Block -> Nat]
    BY <1>2, Zenon
  <2> QED
    BY <1>1, <1>2, <2>1, <2>2, NoBlocks, Zenon DEF IndInv, TypeOK
<1>4. CallsCounted'
  <2>1. Callers' = {}
    BY <1>2, Zenon DEF Callers, InCall
  <2> QED
    BY <1>2, <2>1, FS_EmptySet, Zenon DEF CallsCounted
<1>5. CommitFlagged' /\ CommitAlone' /\ Places' /\ Recovery'
  BY <1>2, Zenon DEF CommitFlagged, CommitAlone, InCommit, Places, Place, Recovery
<1>6. LogFits' /\ LoggedOnce' /\ PinnedUntilInstalled'
  BY <1>1, <1>2, NoBlocks, Zenon DEF IndInv, LogFits, LoggedOnce, PinnedUntilInstalled
<1> QED
  BY <1>3, <1>4, <1>5, <1>6, Zenon DEF IndInv

(* Every step of the log preserves the invariant. *)
LEMMA NextIndInv == IndInv /\ [Next]_vars => IndInv'
<1> SUFFICES ASSUME IndInv, [Next]_vars PROVE IndInv'
  BY Zenon
<1>1. CASE UNCHANGED vars
  <2>1. TypeOK'
    BY <1>1, Zenon DEF IndInv, vars, TypeOK
  <2> QED
    BY <1>1, <2>1, Frame, Zenon DEF vars, disk, logvars, bufs, procs
<1>2. ASSUME NEW p \in Proc, Call(p) PROVE IndInv'
  BY <1>2, SleepStep, BeginStep, ModifyStep, LogWriteStep, EndStep, Zenon DEF Call
<1>3. ASSUME NEW p \in Proc, Commit(p) PROVE IndInv'
  BY <1>3, WriteLogStep, WriteHeadStep, InstallStep, ClearStep, DoneStep, Zenon
     DEF Commit
<1>4. CASE Recover
  BY <1>4, ReadHeadStep, RecoverStep, RecoveredStep, Zenon DEF Recover
<1> QED
  BY <1>1, <1>2, <1>3, <1>4, LoadStep, CrashStep, Zenon DEF Next

-----------------------------------------------------------------------------
(* The inductive invariant holds of every behaviour of the log. *)
THEOREM LogInvariant == Spec => []IndInv
<1>1. Init => IndInv
  BY InitIndInv, Zenon
<1>2. IndInv /\ [Next]_vars => IndInv'
  BY NextIndInv, Zenon
<1> QED
  BY <1>1, <1>2, PTL DEF Spec

(* The variables keep their types, for any processes, blocks and log size.  *)
THEOREM TypeCorrect == Spec => []TypeOK
<1>1. IndInv => TypeOK
  BY Zenon DEF IndInv
<1> QED
  BY <1>1, LogInvariant, PTL

(* commit() runs alone: no call is between begin_op() and end_op() and no    *)
(* other process commits.                                                   *)
THEOREM CommitsAlone == Spec => []CommitAlone
<1>1. IndInv => CommitAlone
  BY Zenon DEF IndInv
<1> QED
  BY <1>1, LogInvariant, PTL

(* A block the running transaction lists keeps its buffer until it is       *)
(* installed, and is listed once.                                           *)
THEOREM StaysPinned == Spec => [](LoggedOnce /\ PinnedUntilInstalled)
<1>1. IndInv => LoggedOnce /\ PinnedUntilInstalled
  BY Zenon DEF IndInv
<1> QED
  BY <1>1, LogInvariant, PTL

(* install_trans(), also in recovery and also when it is torn by a crash,   *)
(* writes only home blocks the header on disk lists.                        *)
THEOREM WritesAhead == Spec => WriteAhead
<1> DEFINE Listed == \A b \in Block : home'[b] # home[b] => \E i \in 1 .. Len(dhead) : dhead[i] = b
<1>1. IndInv /\ [Next]_vars => [Listed]_vars
  <2> SUFFICES ASSUME IndInv, Next PROVE Listed
    BY Zenon
  <2>1. ASSUME home' = home PROVE Listed
    BY <2>1, Zenon
  <2>2. ASSUME NEW t \in Nat, t < Len(lh), dhead = lh,
               NEW c, home' = [home EXCEPT ![lh[t + 1]] = c]
        PROVE  Listed
    BY <2>2, AtBlock, Zenon DEF IndInv, TypeOK
  <2> HIDE DEF Listed
  <2>3. ASSUME NEW p \in Proc, Call(p) \/ write_log(p) \/ write_head(p) \/ clear_head(p) \/ commit_done(p)
        PROVE  home' = home
    BY <2>3, Zenon
       DEF Call, begin_op_sleep, begin_op, Modify, log_write, Panics, end_op, write_log,
                write_head, clear_head, commit_done, disk
  <2>4. ASSUME NEW p \in Proc, install_trans(p) PROVE Listed
    BY <2>2, <2>4, Zenon DEF install_trans, IndInv, Places, Place, TypeOK
  <2>5. CASE recover_install
    BY <2>2, <2>5, Zenon DEF recover_install, IndInv, Recovery, TypeOK
  <2>6. CASE Crash
    <3>1. ASSUME NEW p \in Proc, pc[p] = "install", home' = [home EXCEPT ![lh[tail[p] + 1]] = Torn]
          PROVE  Listed
      BY <2>2, <3>1, Zenon DEF IndInv, Places, Place, TypeOK
    <3>2. ASSUME boot = "install", home' = [home EXCEPT ![lh[rtail + 1]] = Torn]
          PROVE  Listed
      BY <2>2, <3>2, Zenon DEF IndInv, Recovery, TypeOK
    <3> QED
      BY <2>1, <2>6, <3>1, <3>2, Zenon DEF Crash, Lost, disk
  <2>7. CASE read_head \/ recover_clear \/ (\E b \in Block : Load(b) \/ Evict(b))
    BY <2>1, <2>7, Zenon DEF read_head, recover_clear, Load, Evict, disk
  <2> QED
    BY <2>1, <2>3, <2>4, <2>5, <2>6, <2>7, Zenon DEF Next, Commit, Recover
<1> QED
  BY <1>1, LogInvariant, PTL DEF Spec, WriteAhead

-----------------------------------------------------------------------------
(* Log implements TxDisk: a group of calls becomes durable in one step or   *)
(* not at all, through any crash.  IndInv says where processes and indices  *)
(* are; Data says where the contents of a block are.                        *)

InHead(b) == \E i \in 1 .. Len(dhead) : dhead[i] = b

(* The header on disk lists a block once, and none unless blocks are being  *)
(* installed.                                                               *)
HeadOnce == \A i, j \in 1 .. Len(dhead) : dhead[i] = dhead[j] => i = j
HeadEmpty == boot = "up" /\ (\A p \in Proc : pc[p] \notin {"install", "clear"}) => dhead = <<>>

(* A process has a buffer locked between bread() and log_write() only. *)
LockedInCall == \A p \in Proc : blk[p] # NoBuf => pc[p] = "buf"

(* A buffer that is neither pinned nor locked is as on disk; one that is    *)
(* stays in the cache.                                                      *)
Clean(b) == pins[b] = 0 /\ ~Locked(b) => cache[b] \in {NoBuf, home[b]}
Kept(b) == pins[b] # 0 \/ Locked(b) => cache[b] # NoBuf
Buffers == \A b \in Block : Clean(b) /\ Kept(b)

(* The log blocks that write_log() has written hold what the calls read. *)
Copied(i) ==
  \E p \in Proc : pc[p] \in {"write_head", "install", "clear"} \/ (pc[p] = "write_log" /\ i <= tail[p])
Copies == \A i \in 1 .. Len(lh) : Copied(i) => dlog[i] = bread(lh[i])

(* The home blocks that install_trans() has written hold what the log does. *)
Home(i) == Installed(i) \/ boot = "clear" \/ (boot = "install" /\ i <= rtail)
Homes == \A i \in 1 .. Len(dhead) : Home(i) => home[dhead[i]] = dlog[i]

Data == HeadOnce /\ HeadEmpty /\ LockedInCall /\ Buffers /\ Copies /\ Homes

-----------------------------------------------------------------------------
(* After mkfs every buffer and both copies of the log are empty. *)
LEMMA InitData == Init => Data
<1> SUFFICES ASSUME Init PROVE Data
  BY Zenon
<1> USE LogAssumption, NoBlocks DEF Init
<1>1. HeadOnce /\ HeadEmpty /\ LockedInCall
  BY DEF HeadOnce, HeadEmpty, LockedInCall
<1>2. Buffers
  BY Zenon DEF Buffers, Clean, Kept, Locked
<1>3. Copies /\ Homes
  BY DEF Copies, Homes
<1> QED
  BY <1>1, <1>2, <1>3, Zenon DEF Data

(* A step of a process that moves no block. *)
LEMMA DataFrame ==
  ASSUME Data, UNCHANGED <<disk, lh, bufs, blk, boot, rtail>>,
         \A p \in Proc : pc[p] \in {"install", "clear", "buf"} => pc'[p] = pc[p],
         \A i \in 1 .. Len(lh) : Copied(i)' => Copied(i),
         \A i \in 1 .. Len(dhead) : Installed(i)' => Installed(i)
  PROVE  Data'
<1> USE DEF Data, disk, bufs
<1>1. HeadOnce' /\ HeadEmpty' /\ LockedInCall'
  BY DEF HeadOnce, HeadEmpty, LockedInCall
<1>2. Buffers'
  BY Zenon DEF Buffers, Clean, Kept, Locked
<1>3. Copies' /\ Homes'
  BY Zenon DEF Copies, Homes, Home, bread
<1> QED
  BY <1>1, <1>2, <1>3, Zenon

(* begin_op(), and end_op() up to the call of commit(). *)
LEMMA CallData ==
  ASSUME IndInv, Data, NEW p \in Proc, begin_op_sleep(p) \/ begin_op(p) \/ end_op(p) \/ commit_done(p)
  PROVE  Data'
<1>1. pc \in [Proc -> PC] /\ tail \in [Proc -> Nat] /\ lh \in Seq(Block) /\ dhead \in Seq(Block)
  BY Zenon DEF IndInv, TypeOK
<1>2. pc[p] \in {"begin", "op", "done"} /\ tail[p] = 0
  BY Zenon DEF begin_op_sleep, begin_op, end_op, commit_done, IndInv, Places, Place
<1>3. UNCHANGED <<disk, lh, bufs, blk, boot, rtail, tail>>
  BY Zenon DEF begin_op_sleep, begin_op, end_op, commit_done, logvars, procs
<1>4. /\ \A q \in Proc : pc[q] \in {"install", "clear", "buf", "write_log", "write_head"} => pc'[q] = pc[q]
      /\ \A q \in Proc : pc'[q] \in {"install", "clear", "write_head"} => pc'[q] = pc[q]
      /\ \A q \in Proc : pc'[q] = "write_log" => pc'[q] = pc[q] \/ q = p
  BY <1>1, <1>2, Zenon DEF begin_op_sleep, begin_op, end_op, commit_done, wakeup, PC
<1>5. \A i \in 1 .. Len(lh) : Copied(i)' => Copied(i)
  BY <1>1, <1>2, <1>3, <1>4 DEF Copied
<1>6. \A i \in 1 .. Len(dhead) : Installed(i)' => Installed(i)
  BY <1>3, <1>4, Zenon DEF Installed
<1> QED
  BY <1>3, <1>4, <1>5, <1>6, DataFrame, Zenon

(* A reader fills a buffer, or bget() recycles one that is as on disk. *)
LEMMA LoadData ==
  ASSUME IndInv, Data, NEW b \in Block, Load(b) \/ Evict(b)
  PROVE  Data' /\ \A c \in Block : bread(c)' = bread(c)
<1> USE DEF disk, logvars, procs
<1>0. cache \in [Block -> Content \cup {NoBuf}] /\ home \in [Block -> Content] /\ lh \in Seq(Block) /\ NoBuf \notin Content
  BY LogAssumption, Zenon DEF IndInv, TypeOK, Content
<1>1. \A c \in Block : bread(c)' = bread(c)
  BY <1>0, Zenon DEF Load, Evict, bread, Data, Buffers, Clean
<1>2. Buffers'
  BY <1>0 DEF Load, Evict, Data, Buffers, Clean, Kept, Locked
<1>3. HeadOnce' /\ HeadEmpty' /\ LockedInCall' /\ Homes'
  BY DEF Load, Evict, Data, HeadOnce, HeadEmpty, LockedInCall, Homes, Home, Installed
<1>4. Copies'
  BY <1>0, <1>1 DEF Load, Evict, Data, Copies, Copied
<1> QED
  BY <1>1, <1>2, <1>3, <1>4, Zenon DEF Data

(* While a call is active nothing is being committed. *)
LEMMA NoCommit ==
  ASSUME IndInv, NEW p \in Proc, InCall(p)
  PROVE  /\ \A q \in Proc : ~InCommit(q)
         /\ \A i : ~Installed(i) /\ ~Copied(i)
<1>1. \A q \in Proc : ~InCommit(q)
  BY Zenon DEF IndInv, CommitAlone
<1> QED
  BY <1>1, Zenon DEF InCommit, Installed, Copied

(* The body of a call changes a buffer that it locks. *)
LEMMA ModifyData ==
  ASSUME IndInv, Data, NEW p \in Proc, NEW b \in Block, NEW v \in Val, Modify(p, b, v)
  PROVE  Data'
<1> USE DEF Modify, disk, logvars
<1>1. cache \in [Block -> Content \cup {NoBuf}] /\ pc \in [Proc -> PC] /\ blk \in [Proc -> Block \cup {NoBuf}]
      /\ v # NoBuf /\ b # NoBuf
  BY LogAssumption, Zenon DEF IndInv, TypeOK
<1>2. InCall(p) /\ InCall(p)' /\ boot' = "up"
  BY <1>1, Zenon DEF InCall, Running
<1>3. \A i : ~Installed(i)' /\ ~Copied(i)'
  BY <1>1, <1>2, NoCommit, Zenon DEF Installed, Copied, InCommit
<1>4. HeadOnce' /\ HeadEmpty' /\ LockedInCall'
  BY <1>1, <1>2, NoCommit DEF Data, HeadOnce, HeadEmpty, LockedInCall, InCommit
<1>5. Locked(b)' /\ \A c \in Block : c # b => (Locked(c)' <=> Locked(c))
  <2>1. blk[p] = NoBuf /\ blk' = [blk EXCEPT ![p] = b] /\ NoBuf \notin Block
    BY <1>1, LogAssumption, Zenon DEF Data, LockedInCall
  <2> QED
    BY <1>1, <2>1, Zenon DEF Locked
<1>6. Buffers'
  BY <1>1, <1>5, Zenon DEF Data, Buffers, Clean, Kept
<1> QED
  BY <1>2, <1>3, <1>4, <1>6, Zenon DEF Data, Copies, Homes, Home

(* log_write() unlocks a buffer that is pinned. *)
LEMMA LogWriteData ==
  ASSUME IndInv, IndInv', Data, NEW p \in Proc, log_write(p)
  PROVE  Data'
<1>1. CASE UNCHANGED <<disk, logvars, bufs, procs, boot, rtail>>
  BY <1>1, DataFrame, Zenon DEF disk, logvars, bufs, procs, Copied, Installed
<1>2. CASE ~ UNCHANGED <<disk, logvars, bufs, procs, boot, rtail>>
  <2> DEFINE b == blk[p]
  <2>1. /\ pc[p] = "buf" /\ boot = "up"
        /\ UNCHANGED <<disk, outstanding, committing, cache, tail, boot, rtail, panicked>>
        /\ blk' = [blk EXCEPT ![p] = NoBuf] /\ pc' = [pc EXCEPT ![p] = "op"]
        /\ IF Logged(b) THEN UNCHANGED <<lh, pins>>
           ELSE lh' = Append(lh, b) /\ pins' = [pins EXCEPT ![b] = @ + 1]
    BY <1>2, Zenon DEF log_write, Panics, Running
  <2>2. /\ pc \in [Proc -> PC] /\ blk \in [Proc -> Block \cup {NoBuf}] /\ b \in Block
        /\ pins \in [Block -> Nat]
    BY <2>1, Zenon DEF IndInv, TypeOK, Places, Place
  <2>3. InCall(p) /\ InCall(p)'
    BY <2>1, <2>2, Zenon DEF InCall
  <2>4. \A i : ~Installed(i)' /\ ~Copied(i)' /\ ~Installed(i)
    BY <2>1, <2>2, <2>3, NoCommit, Zenon DEF Installed, Copied, InCommit
  <2>5. HeadOnce' /\ HeadEmpty' /\ LockedInCall'
    BY <2>1, <2>2, <2>3, NoCommit
       DEF Data, HeadOnce, HeadEmpty, LockedInCall, InCommit, disk
  <2>6. pins'[b] # 0 /\ \A c \in Block : c # b => pins'[c] = pins[c]
    BY <2>1, <2>2, <2>4 DEF IndInv, PinnedUntilInstalled, Logged
  <2>7. Locked(b) /\ \A c \in Block : c # b => (Locked(c)' <=> Locked(c))
    BY <2>1, <2>2, LogAssumption, Zenon DEF Locked
  <2>8. Buffers'
    BY <2>1, <2>2, <2>6, <2>7, Zenon DEF Data, Buffers, Clean, Kept, disk
  <2> QED
    BY <2>1, <2>4, <2>5, <2>8, Zenon DEF Data, Copies, Homes, Home
<1> QED
  BY <1>1, <1>2, Zenon

(* The process in commit() is the only one that copies and installs. *)
LEMMA OnlyCommitter ==
  ASSUME IndInv, NEW p \in Proc, InCommit(p)
  PROVE  /\ \A q \in Proc : ~InCall(q) /\ (InCommit(q) => q = p)
         /\ boot = "up"
<1>1. \A q \in Proc : ~InCall(q) /\ (InCommit(q) => q = p)
  BY Zenon DEF IndInv, CommitAlone
<1>2. boot = "up"
  BY Zenon DEF IndInv, Recovery, InCommit
<1> QED
  BY <1>1, <1>2, Zenon

(* write_log() copies the buffer of the next block, which is pinned. *)
LEMMA WriteLogData ==
  ASSUME IndInv, Data, NEW p \in Proc, write_log(p)
  PROVE  /\ Data'
         /\ dhead = <<>> /\ UNCHANGED <<home, dhead, blk, boot>>
         /\ \A c \in Block : bread(c)' = bread(c)
<1> DEFINE i == tail[p] + 1
           b == lh[i]
<1>1. /\ pc[p] = "write_log" /\ dlog' = [dlog EXCEPT ![i] = bread(b)]
      /\ cache' = [cache EXCEPT ![b] = bread(b)]
      /\ tail' = [tail EXCEPT ![p] = IF i = Len(lh) THEN 0 ELSE i]
      /\ pc' = [pc EXCEPT ![p] = IF i = Len(lh) THEN "write_head" ELSE @]
      /\ UNCHANGED <<home, dhead, logvars, pins, blk, wrote, boot, rtail, panicked>>
  BY Zenon DEF write_log
<1>2. /\ tail \in [Proc -> Nat] /\ tail[p] < Len(lh) /\ pc \in [Proc -> PC] /\ lh \in Seq(Block)
      /\ cache \in [Block -> Content \cup {NoBuf}] /\ dlog \in [Slot -> Content]
  BY <1>1, Zenon DEF IndInv, TypeOK, Places, Place
<1>3. i \in 1 .. Len(lh) /\ i \in Slot /\ b \in Block
  BY <1>2, AtBlock, Zenon DEF IndInv
<1>4. boot = "up" /\ \A q \in Proc : ~InCall(q) /\ (InCommit(q) => q = p)
  BY <1>1, OnlyCommitter, Zenon DEF InCommit
<1>5. dhead = <<>>
  BY <1>1, <1>4, Zenon DEF Data, HeadEmpty, InCommit
<1>6. ~Installed(i) /\ pins[b] # 0
  BY <1>1, <1>3, <1>4 DEF Installed, InCommit, IndInv, PinnedUntilInstalled
<1>7. cache' = cache
  BY <1>1, <1>2, <1>3, <1>6, Zenon DEF Data, Buffers, Kept, bread
<1>8. \A c \in Block : bread(c)' = bread(c)
  BY <1>1, <1>7, Zenon DEF bread
<1>9. HeadOnce' /\ HeadEmpty' /\ LockedInCall' /\ Homes'
  <2>1. dhead' = <<>> /\ 1 .. Len(dhead') = {}
    BY <1>1, <1>5, NoBlocks
  <2>2. \A q \in Proc : blk'[q] = NoBuf
    BY <1>1, <1>4, Zenon DEF Data, LockedInCall, InCall
  <2> QED
    BY <2>1, <2>2, Zenon DEF HeadOnce, HeadEmpty, LockedInCall, Homes
<1>10. Buffers'
  BY <1>1, <1>7, Zenon DEF Data, Buffers, Clean, Kept, Locked
<1>11. ASSUME NEW j \in 1 .. Len(lh), Copied(j)'
       PROVE  dlog'[j] = bread(lh[j])
  <2>1. CASE j = i
    BY <2>1, <1>1, <1>2, <1>3, Zenon
  <2>2. CASE j # i
    <3>1. j <= tail[p]
      BY <2>2, <1>1, <1>2, <1>4, <1>11 DEF Copied, InCommit
    <3>2. Copied(j)
      BY <3>1, <1>1, Zenon DEF Copied
    <3> QED
      BY <2>2, <3>2, <1>1, <1>2, <1>3 DEF Data, Copies
  <2> QED
    BY <2>1, <2>2, Zenon
<1>12. Copies'
  BY <1>1, <1>2, <1>8, <1>11 DEF Copies, logvars
<1> QED
  BY <1>1, <1>5, <1>8, <1>9, <1>10, <1>12, Zenon DEF Data

(* The header that write_head() puts on disk lists blocks that are in the   *)
(* log, none of which is installed.                                         *)
LEMMA WriteHeadData ==
  ASSUME IndInv, Data, NEW p \in Proc, write_head(p)
  PROVE  Data'
<1> USE DEF write_head, logvars, bufs
<1>1. pc \in [Proc -> PC] /\ tail[p] = 0 /\ InCommit(p)
  BY Zenon DEF IndInv, TypeOK, Places, Place, InCommit
<1>2. boot = "up" /\ \A q \in Proc : ~InCall(q) /\ (InCommit(q) => q = p)
  BY <1>1, OnlyCommitter, Zenon
<1>3. HeadOnce'
  BY <1>2, Zenon DEF HeadOnce, IndInv, LoggedOnce
<1>4. HeadEmpty' /\ LockedInCall'
  BY <1>1, <1>2, Zenon DEF HeadEmpty, Data, LockedInCall
<1>5. Buffers'
  BY Zenon DEF Data, Buffers, Clean, Kept, Locked
<1>6. Copies'
  BY <1>1 DEF Data, Copies, Copied, bread
<1>7. Homes'
  BY <1>1, <1>2 DEF Homes, Home, Installed, InCommit
<1> QED
  BY <1>3, <1>4, <1>5, <1>6, <1>7, Zenon DEF Data

(* install_trans() writes home what the calls read anyway. *)
LEMMA InstallData ==
  ASSUME IndInv, Data, NEW p \in Proc, install_trans(p)
  PROVE  /\ Data'
         /\ UNCHANGED <<dlog, dhead, blk, boot>>
         /\ \A c \in Block : ~InHead(c) => home'[c] = home[c]
         /\ \A c \in Block : bread(c)' = bread(c)
<1> DEFINE i == tail[p] + 1
           b == lh[i]
<1>1. /\ pc[p] = "install" /\ home' = [home EXCEPT ![b] = dlog[i]]
      /\ cache' = [cache EXCEPT ![b] = dlog[i]]
      /\ pins' = [pins EXCEPT ![b] = @ - 1]
      /\ tail' = [tail EXCEPT ![p] = IF i = Len(lh) THEN 0 ELSE i]
      /\ pc' = [pc EXCEPT ![p] = IF i = Len(lh) THEN "clear" ELSE @]
      /\ UNCHANGED <<dlog, dhead, logvars, blk, wrote, boot, rtail, panicked>>
  BY Zenon DEF install_trans
<1>2. /\ tail \in [Proc -> Nat] /\ tail[p] < Len(lh) /\ pc \in [Proc -> PC] /\ lh \in Seq(Block)
      /\ cache \in [Block -> Content \cup {NoBuf}] /\ home \in [Block -> Content]
      /\ pins \in [Block -> Nat] /\ dhead = lh /\ NoBuf \notin Content
  BY <1>1, LogAssumption, Zenon DEF IndInv, TypeOK, Places, Place, Content
<1>3. i \in 1 .. Len(lh) /\ b \in Block /\ dlog[i] \in Content
  BY <1>2, AtBlock, Zenon DEF IndInv
<1>4. boot = "up" /\ \A q \in Proc : ~InCall(q) /\ (InCommit(q) => q = p)
  BY <1>1, OnlyCommitter, Zenon DEF InCommit
<1>5. dlog[i] = bread(b)
  BY <1>1, <1>3, Zenon DEF Data, Copies, Copied
<1>6. \A c \in Block : bread(c)' = bread(c)
  BY <1>1, <1>2, <1>3, <1>5, Zenon DEF bread
<1>7. \A c \in Block : ~InHead(c) => home'[c] = home[c]
  BY <1>1, <1>2, <1>3, Zenon DEF InHead
<1>8. HeadOnce' /\ HeadEmpty' /\ LockedInCall'
  <2>1. HeadOnce' /\ LockedInCall'
    BY <1>1, <1>2, <1>4, SMTT(30) DEF Data, HeadOnce, LockedInCall, InCall
  <2>2. pc'[p] \in {"install", "clear"}
    BY <1>1, <1>2, Zenon
  <2> QED
    BY <2>1, <2>2, Zenon DEF HeadEmpty
<1>9. Buffers'
  BY <1>1, <1>2, <1>3, Zenon DEF Data, Buffers, Clean, Kept, Locked
<1>10. Copies'
  <2>1. \A j : Copied(j)' => Copied(j)
    BY <1>1, <1>2, Zenon DEF Copied
  <2> QED
    BY <1>1, <1>2, <1>6, <2>1, SMTT(30) DEF Data, Copies, logvars
<1>11. ASSUME NEW j \in 1 .. Len(lh), Installed(j)'
       PROVE  home'[lh[j]] = dlog[j]
  <2>1. CASE j = i
    BY <2>1, <1>1, <1>2, <1>3, Zenon
  <2>2. CASE j # i
    <3>1. j <= tail[p]
      BY <2>2, <1>1, <1>2, <1>4, <1>11, SMTT(30) DEF Installed, InCommit
    <3>2. Home(j)
      BY <3>1, <1>1, Zenon DEF Home, Installed
    <3>3. lh[j] # b
      BY <2>2, <1>3, <1>4, Zenon DEF IndInv, LoggedOnce
    <3> QED
      BY <3>2, <3>3, <1>1, <1>2, <1>3, SMTT(30) DEF Data, Homes
  <2> QED
    BY <2>1, <2>2, Zenon
<1>12. Homes'
  BY <1>1, <1>2, <1>4, <1>11, Zenon DEF Homes, Home, logvars
<1> QED
  BY <1>1, <1>6, <1>7, <1>8, <1>9, <1>10, <1>12, Zenon DEF Data

(* Both ways to erase the log: after a commit and after a recovery. *)
LEMMA ClearData ==
  ASSUME IndInv, Data, (\E p \in Proc : clear_head(p)) \/ recover_clear
  PROVE  Data'
<1> USE NoBlocks DEF bufs
<1>1. lh' = <<>> /\ dhead' = <<>> /\ UNCHANGED <<home, dlog, cache, pins, blk>>
  BY Zenon DEF clear_head, recover_clear, procs
<1>2. LockedInCall'
  BY <1>1, Zenon
     DEF Data, LockedInCall, clear_head, recover_clear, procs, IndInv, TypeOK
<1>3. Buffers'
  BY <1>1, Zenon DEF Data, Buffers, Clean, Kept, Locked
<1>4. HeadOnce' /\ HeadEmpty' /\ Copies' /\ Homes'
  BY <1>1 DEF HeadOnce, HeadEmpty, Copies, Homes
<1> QED
  BY <1>2, <1>3, <1>4, Zenon DEF Data

(* While the machine boots nobody holds a buffer and no call runs. *)
LEMMA Booting ==
  ASSUME IndInv, Data, boot # "up"
  PROVE  /\ \A p \in Proc : pc[p] = "begin"
         /\ \A b \in Block : pins[b] = 0 /\ ~Locked(b)
         /\ \A i : ~Installed(i) /\ ~Copied(i)
<1>1. (\A p \in Proc : pc[p] = "begin") /\ \A b \in Block : pins[b] = 0
  BY Zenon DEF IndInv, Recovery
<1>2. \A b \in Block : ~Locked(b)
  BY <1>1, LogAssumption, Zenon DEF Data, LockedInCall, Locked
<1> QED
  BY <1>1, <1>2, Zenon DEF Installed, Copied

(* initlog() has read the header and has installed nothing yet. *)
LEMMA ReadHeadData ==
  ASSUME IndInv, Data, read_head
  PROVE  Data'
<1> USE DEF read_head, disk, bufs, procs
<1>1. \A i : ~Installed(i)' /\ ~Copied(i)'
  BY Booting, Zenon DEF Installed, Copied
<1>2. HeadOnce' /\ HeadEmpty' /\ LockedInCall' /\ Buffers'
  BY DEF Data, HeadOnce, HeadEmpty, LockedInCall, Buffers, Clean, Kept, Locked
<1>3. Homes'
  BY <1>1, NoBlocks DEF Homes, Home, IndInv, Recovery
<1> QED
  BY <1>1, <1>2, <1>3, Zenon DEF Data, Copies

(* install_trans() of a recovery. *)
LEMMA RecoverData ==
  ASSUME IndInv, Data, recover_install
  PROVE  /\ Data'
         /\ UNCHANGED <<dlog, dhead, pc>> /\ boot # "up" /\ boot' # "up"
         /\ \A c \in Block : ~InHead(c) => home'[c] = home[c]
<1> DEFINE i == rtail + 1
           b == lh[i]
<1>1. /\ boot = "install" /\ home' = [home EXCEPT ![b] = dlog[i]]
      /\ cache' = [cache EXCEPT ![b] = dlog[i]]
      /\ rtail' = IF i = Len(lh) THEN 0 ELSE i
      /\ boot' = IF i = Len(lh) THEN "clear" ELSE boot
      /\ UNCHANGED <<dlog, dhead, logvars, pins, procs, panicked>>
  BY Zenon DEF recover_install
<1>2. /\ rtail \in Nat /\ rtail < Len(lh) /\ lh \in Seq(Block) /\ dhead = lh
      /\ cache \in [Block -> Content \cup {NoBuf}] /\ home \in [Block -> Content]
  BY <1>1, Zenon DEF IndInv, TypeOK, Recovery
<1>3. i \in 1 .. Len(lh) /\ b \in Block /\ dlog[i] \in Content
  BY <1>2, AtBlock, Zenon DEF IndInv
<1>4. (\A j : ~Installed(j)' /\ ~Copied(j)') /\ (\A c \in Block : pins'[c] = 0 /\ ~Locked(c)')
  BY <1>1, Booting, Zenon DEF Installed, Copied, Locked, procs
<1>5. \A c \in Block : ~InHead(c) => home'[c] = home[c]
  BY <1>1, <1>2, <1>3, Zenon DEF InHead
<1>6. HeadOnce' /\ HeadEmpty' /\ LockedInCall'
  <2>1. UNCHANGED <<dhead, pc, blk>> /\ boot' # "up"
    BY <1>1, Zenon DEF procs
  <2>2. HeadOnce'
    BY <2>1, Zenon DEF Data, HeadOnce
  <2>3. HeadEmpty'
    BY <2>1, Zenon DEF HeadEmpty
  <2>4. LockedInCall'
    BY <2>1, Zenon DEF Data, LockedInCall
  <2> QED
    BY <2>2, <2>3, <2>4, Zenon
<1>7. \A c \in Block : cache[c] \in {NoBuf, home[c]}
  BY <1>1, Booting, Zenon DEF Data, Buffers, Clean
<1>8. Buffers'
  BY <1>1, <1>2, <1>3, <1>4, <1>7, Zenon DEF Buffers, Clean, Kept
<1>9. ASSUME NEW j \in 1 .. Len(lh), j <= i
      PROVE  home'[lh[j]] = dlog[j]
  <2>1. CASE j = i
    BY <2>1, <1>1, <1>2, <1>3, Zenon
  <2>2. CASE j # i
    <3>1. Home(j)
      BY <2>2, <1>1, <1>2, <1>9 DEF Home
    <3>2. lh[j] # b
      BY <2>2, <1>2, <1>3, Zenon DEF Data, HeadOnce
    <3> QED
      BY <3>1, <3>2, <1>1, <1>2, <1>3 DEF Data, Homes
  <2> QED
    BY <2>1, <2>2, Zenon
<1>10. Homes'
  <2>1. dhead' = lh /\ dlog' = dlog
    BY <1>1, <1>2, Zenon
  <2>2. ASSUME NEW j \in 1 .. Len(lh), Home(j)' PROVE j <= i
    BY <2>2, <1>1, <1>2, <1>4 DEF Home
  <2> QED
    BY <2>1, <2>2, <1>9, Zenon DEF Homes
<1> QED
  BY <1>1, <1>4, <1>5, <1>6, <1>8, <1>10, Zenon DEF Data, Copies, procs

(* A crash empties memory and tears at most a block that the header does    *)
(* not rely on, or whose copy is in the log.                                *)
LEMMA CrashData ==
  ASSUME IndInv, Data, Crash
  PROVE  /\ Data'
         /\ dhead' = dhead
         /\ \A c \in Block : ~InHead(c) => home'[c] = home[c]
         /\ \A j \in 1 .. Len(dhead) : dlog'[j] = dlog[j]
<1>1. /\ lh' = <<>> /\ cache' = [b \in Block |-> NoBuf] /\ pins' = [b \in Block |-> 0]
      /\ pc' = [p \in Proc |-> "begin"] /\ blk' = [p \in Proc |-> NoBuf]
      /\ boot' = "read_head"
  BY Zenon DEF Crash
<1>2. /\ dhead' = dhead
      /\ \A c \in Block : ~InHead(c) => home'[c] = home[c]
      /\ \A j \in 1 .. Len(dhead) : dlog'[j] = dlog[j]
  <2>1. ASSUME NEW t \in Nat, t < Len(lh), dhead = lh,
               NEW c, home' = [home EXCEPT ![lh[t + 1]] = c], NEW d \in Block, ~InHead(d)
        PROVE  home'[d] = home[d]
    BY <2>1, AtBlock, Zenon DEF IndInv, TypeOK, InHead
  <2>2. CASE UNCHANGED disk
    BY <2>2, Zenon DEF disk
  <2>3. ASSUME NEW p \in Proc, pc[p] = "write_log", UNCHANGED <<home, dhead>>
        PROVE  dhead = <<>>
    BY <2>3, OnlyCommitter, Zenon DEF InCommit, Data, HeadEmpty
  <2>4. ASSUME NEW p \in Proc, pc[p] = "install", home' = [home EXCEPT ![lh[tail[p] + 1]] = Torn]
        PROVE  \A d \in Block : ~InHead(d) => home'[d] = home[d]
    BY <2>1, <2>4, Zenon DEF IndInv, Places, Place, TypeOK
  <2>5. ASSUME boot = "install", home' = [home EXCEPT ![lh[rtail + 1]] = Torn]
        PROVE  \A d \in Block : ~InHead(d) => home'[d] = home[d]
    BY <2>1, <2>5, Zenon DEF IndInv, Recovery, TypeOK
  <2>6. CASE \E p \in Proc : /\ pc[p] = "write_log" /\ UNCHANGED <<home, dhead>>
    <3>1. dhead = <<>> /\ UNCHANGED <<home, dhead>>
      BY <2>3, <2>6, Zenon
    <3>2. 1 .. Len(dhead) = {}
      BY <3>1, NoBlocks
    <3> QED
      BY <3>1, <3>2, Zenon
  <2>7. CASE \E p \in Proc : /\ pc[p] = "install" /\ home' = [home EXCEPT ![lh[tail[p] + 1]] = Torn]
                             /\ UNCHANGED <<dlog, dhead>>
    BY <2>4, <2>7, Zenon
  <2>8. CASE /\ boot = "install" /\ home' = [home EXCEPT ![lh[rtail + 1]] = Torn]
             /\ UNCHANGED <<dlog, dhead>>
    BY <2>5, <2>8, Zenon
  <2> QED
    BY <2>2, <2>6, <2>7, <2>8, Zenon DEF Crash, Lost
<1>3. HeadOnce' /\ HeadEmpty' /\ LockedInCall'
  <2>1. dhead' = dhead /\ HeadOnce
    BY <1>2, Zenon DEF Data
  <2>2. HeadOnce'
    BY <2>1, Zenon DEF HeadOnce
  <2>3. boot' # "up" /\ \A p \in Proc : blk'[p] = NoBuf
    BY <1>1, Zenon
  <2> QED
    BY <2>2, <2>3, Zenon DEF HeadEmpty, LockedInCall
<1>4. Buffers'
  BY <1>1, LogAssumption, Zenon DEF Buffers, Clean, Kept, Locked
<1>5. Copies' /\ Homes'
  <2>1. 1 .. Len(lh') = {}
    BY <1>1, NoBlocks
  <2>2. boot' = "read_head" /\ \A p \in Proc : pc'[p] = "begin"
    BY <1>1, Zenon
  <2>3. \A j : ~Home(j)'
    BY <2>2, Zenon DEF Home, Installed
  <2> QED
    BY <2>1, <2>3, Zenon DEF Copies, Homes
<1> QED
  BY <1>2, <1>3, <1>4, <1>5, Zenon DEF Data

(* Every step keeps Data. *)
LEMMA NextData == IndInv /\ Data /\ [Next]_vars => Data'
<1> SUFFICES ASSUME IndInv, Data, [Next]_vars PROVE Data'
  BY Zenon
<1>1. IndInv'
  BY NextIndInv, Zenon
<1>2. CASE UNCHANGED vars
  BY <1>2, DataFrame, Zenon DEF vars, disk, bufs, Copied, Installed
<1>3. ASSUME NEW p \in Proc, Call(p) PROVE Data'
  BY <1>1, <1>3, CallData, ModifyData, LogWriteData, Zenon DEF Call
<1>4. ASSUME NEW p \in Proc, Commit(p) PROVE Data'
  BY <1>4, CallData, WriteLogData, WriteHeadData, InstallData, ClearData, Zenon
     DEF Commit
<1>5. CASE Recover
  BY <1>5, ReadHeadData, RecoverData, ClearData, Zenon DEF Recover
<1> QED
  BY <1>2, <1>3, <1>4, <1>5, LoadData, CrashData, Zenon DEF Next

-----------------------------------------------------------------------------
(* The refinement: every step of Log is one of TxDisk, or none. *)

(* What recovery finds for a listed block, and for any other. *)
LEMMA RecoveredAt ==
  ASSUME IndInv, Data
  PROVE  /\ Recovered = [b \in Block |-> Recovered[b]]
         /\ \A i \in 1 .. Len(dhead) : Recovered[dhead[i]] = dlog[i]
         /\ \A b \in Block : ~InHead(b) => Recovered[b] = home[b]
<1>1. ASSUME NEW i \in 1 .. Len(dhead) PROVE Recovered[dhead[i]] = dlog[i]
  <2> DEFINE j == CHOOSE j \in 1 .. Len(dhead) : dhead[j] = dhead[i]
  <2>1. j \in 1 .. Len(dhead) /\ dhead[j] = dhead[i]
    BY Zenon
  <2>2. j = i
    BY <2>1, Zenon DEF Data, HeadOnce
  <2>3. dhead[i] \in Block
    <3> HIDE DEF j
    <3>1. dhead \in Seq(Block)
      BY Zenon DEF IndInv, TypeOK
    <3> QED
      BY <3>1
  <2> QED
    BY <2>2, <2>3, Zenon DEF Recovered
<1>2. \A b \in Block : ~InHead(b) => Recovered[b] = home[b]
  BY Zenon DEF Recovered, InHead
<1>3. Recovered = [b \in Block |-> Recovered[b]]
  BY Zenon DEF Recovered
<1> QED
  BY <1>1, <1>2, <1>3, Zenon

(* What recovery finds does not change while the header and the log blocks  *)
(* it lists stay, whatever happens to the listed home blocks.               *)
LEMMA SameRecovered ==
  ASSUME dhead' = dhead,
         \A c \in Block : ~InHead(c) => home'[c] = home[c],
         \A j \in 1 .. Len(dhead) : dlog'[j] = dlog[j]
  PROVE  Recovered' = Recovered
<1> DEFINE Index(b) == CHOOSE i \in 1 .. Len(dhead) : dhead[i] = b
           Found(b) == IF InHead(b) THEN dlog[Index(b)] ELSE home[b]
           FoundNow(b) == IF InHead(b) THEN dlog'[Index(b)] ELSE home'[b]
<1>1. Recovered = [b \in Block |-> Found(b)]
  BY Zenon DEF Recovered, InHead
<1>2. Recovered' = [b \in Block |-> FoundNow(b)]
  BY Zenon DEF Recovered, InHead
<1>3. ASSUME NEW b \in Block PROVE FoundNow(b) = Found(b)
  <2>1. InHead(b) => Index(b) \in 1 .. Len(dhead)
    BY Zenon DEF InHead
  <2> HIDE DEF Index
  <2> QED
    BY <2>1, Zenon
<1> HIDE DEF Found, FoundNow
<1> QED
  BY <1>1, <1>2, <1>3, Zenon

(* With the header empty, recovery finds the home blocks. *)
LEMMA EmptyRecovered ==
  ASSUME IndInv, Data, dhead = <<>>
  PROVE  \A b \in Block : Recovered[b] = home[b]
  BY RecoveredAt, NoBlocks DEF InHead

(* A step that TxDisk does not see. *)
LEMMA Stutter ==
  ASSUME Recovered' = Recovered, Current' = Current, Callers' = Callers
  PROVE  UNCHANGED Tx!vars
  BY Zenon DEF Tx!vars, Callers

(* A step of Log is one of TxDisk: the first write of the header commits. *)
LEMMA LoadRefines ==
  ASSUME IndInv, Data, IndInv', Data', NEW b \in Block, Load(b) \/ Evict(b)
  PROVE  UNCHANGED Tx!vars
<1>1. UNCHANGED <<home, dlog, dhead, pc, boot>> /\ boot = "up"
  BY Zenon DEF Load, Evict, disk, procs, Running
<1>2. Recovered' = Recovered
  BY <1>1, SameRecovered, Zenon
<1>3. Current' = Current
  BY <1>1, LoadData, Zenon DEF Current
<1>4. Callers' = Callers
  BY <1>1, Zenon DEF Callers, InCall
<1> QED
  BY <1>2, <1>3, <1>4, Stutter, Zenon

(* A call begins, writes and ends. *)
LEMMA CallRefines ==
  ASSUME IndInv, Data, IndInv', Data', NEW p \in Proc, Call(p)
  PROVE  [Tx!Next]_(Tx!vars)
<1>1. UNCHANGED <<home, dlog, dhead, boot>> /\ boot = "up" /\ pc \in [Proc -> PC]
  BY Zenon
     DEF Call, begin_op_sleep, begin_op, Modify, log_write, Panics, end_op, disk, Running, IndInv, TypeOK
<1>2. Recovered' = Recovered
  BY <1>1, SameRecovered, Zenon
<1>3. ASSUME cache' = cache PROVE Current' = Current
  BY <1>1, <1>3, Zenon DEF Current, bread
<1>4. CASE begin_op_sleep(p)
  <2>1. cache' = cache /\ Callers' = Callers
    BY <1>1, <1>4, Zenon DEF begin_op_sleep, bufs, Callers, InCall
  <2> QED
    BY <1>2, <1>3, <2>1, Stutter, Zenon
<1>5. CASE begin_op(p)
  <2>1. cache' = cache /\ p \notin Callers /\ Callers' = Callers \cup {p}
    BY <1>1, <1>5, Zenon DEF begin_op, bufs, Callers, InCall
  <2>2. Tx!Begin(p)
    BY <1>2, <1>3, <2>1, Zenon DEF Tx!Begin, Callers
  <2> QED
    BY <2>2, Zenon DEF Tx!Next
<1>6. ASSUME NEW b \in Block, NEW v \in Val, Modify(p, b, v) PROVE [Tx!Next]_(Tx!vars)
  <2>1. cache' = [cache EXCEPT ![b] = v] /\ p \in Callers /\ Callers' = Callers
    BY <1>1, <1>6, Zenon DEF Modify, Callers, InCall
  <2>2. cache \in [Block -> Content \cup {NoBuf}] /\ v # NoBuf
    BY LogAssumption, Zenon DEF IndInv, TypeOK
  <2>3. Current' = [Current EXCEPT ![b] = v]
    BY <1>1, <2>1, <2>2, Zenon DEF Current, bread
  <2>4. Tx!Write(p, b, v)
    BY <1>2, <2>1, <2>3, Zenon DEF Tx!Write, Callers
  <2> QED
    BY <2>4, Zenon DEF Tx!Next
<1>7. CASE log_write(p)
  <2>1. cache' = cache /\ Callers' = Callers
    BY <1>1, <1>7, Zenon DEF log_write, Panics, bufs, procs, Callers, InCall
  <2> QED
    BY <1>2, <1>3, <2>1, Stutter, Zenon
<1>8. CASE end_op(p)
  <2>1. cache' = cache
    BY <1>8, Zenon DEF end_op, bufs
  <2>2. ~committing
    BY <1>8, NoCommit, Zenon DEF end_op, IndInv, CommitFlagged, InCall
  <2>3. p \in Callers /\ Callers' = Callers \ {p}
    BY <1>1, <1>8, <2>2, Zenon DEF end_op, wakeup, Callers, InCall
  <2>4. Tx!End(p)
    BY <1>2, <1>3, <2>1, <2>3, Zenon DEF Tx!End, Callers
  <2> QED
    BY <2>4, Zenon DEF Tx!Next
<1> QED
  BY <1>4, <1>5, <1>6, <1>7, <1>8, Zenon DEF Call

(* Once every listed block is installed, the log can be erased. *)
LEMMA ErasedRecovered ==
  ASSUME IndInv, Data, dhead' = <<>>, home' = home, \A i \in 1 .. Len(dhead) : Home(i)
  PROVE  Recovered' = Recovered /\ \A b \in Block : Recovered[b] = home[b]
<1>1. \A b \in Block : Recovered[b] = home[b]
  BY RecoveredAt DEF Data, Homes, InHead
<1>2. Recovered' = [b \in Block |-> home[b]]
  BY NoBlocks DEF Recovered
<1> QED
  BY <1>1, <1>2, RecoveredAt, Zenon

(* write_head() makes everything durable that the calls have written. *)
LEMMA HeadCommits ==
  ASSUME IndInv, Data, NEW p \in Proc, write_head(p)
  PROVE  Tx!Commit
<1>1. /\ pc[p] = "write_head" /\ dhead' = lh /\ pc' = [pc EXCEPT ![p] = "install"]
      /\ UNCHANGED <<home, dlog, cache, boot>>
  BY Zenon DEF write_head, bufs
<1>2. boot = "up" /\ \A q \in Proc : ~InCall(q) /\ (InCommit(q) => q = p)
  BY <1>1, OnlyCommitter, Zenon DEF InCommit
<1>3. Callers = {} /\ Callers' = {}
  BY <1>1, <1>2, Zenon DEF Callers, InCall, IndInv, TypeOK
<1>4. Current' = Current
  BY <1>1, <1>2, Zenon DEF Current, bread
<1> DEFINE InLh(b) == \E i \in 1 .. Len(lh) : lh[i] = b
           Index(b) == CHOOSE i \in 1 .. Len(lh) : lh[i] = b
           Found(b) == IF InLh(b) THEN dlog[Index(b)] ELSE home[b]
<1>5. Recovered' = [b \in Block |-> Found(b)]
  BY <1>1, Zenon DEF Recovered
<1>6. ASSUME NEW b \in Block PROVE Found(b) = bread(b)
  <2>1. CASE InLh(b)
    <3>1. Index(b) \in 1 .. Len(lh) /\ lh[Index(b)] = b
      BY <2>1, Zenon
    <3> HIDE DEF Index
    <3>2. dlog[Index(b)] = bread(lh[Index(b)])
      BY <1>1, <3>1, Zenon DEF Data, Copies, Copied
    <3> QED
      BY <2>1, <3>1, <3>2, Zenon
  <2>2. CASE ~InLh(b)
    <3>1. pins[b] = 0
      BY <1>2, <2>2, Zenon DEF IndInv, PinnedUntilInstalled
    <3>2. ~Locked(b)
      BY <1>2, LogAssumption, Zenon DEF Locked, Data, LockedInCall, InCall
    <3>3. bread(b) = home[b]
      BY <3>1, <3>2, Zenon DEF Data, Buffers, Clean, bread
    <3> QED
      BY <2>2, <3>3, Zenon
  <2> QED
    BY <2>1, <2>2, Zenon
<1> HIDE DEF Found
<1>7. Recovered' = Current
  BY <1>2, <1>5, <1>6, Zenon DEF Current
<1> QED
  BY <1>3, <1>4, <1>7, Zenon DEF Tx!Commit, Callers

(* Of commit(), TxDisk sees the first write of the header only. *)
LEMMA CommitRefines ==
  ASSUME IndInv, Data, NEW p \in Proc, Commit(p)
  PROVE  [Tx!Next]_(Tx!vars)
<1>1. boot = "up" /\ boot' = "up" /\ pc \in [Proc -> PC]
  BY Zenon
     DEF Commit, write_log, write_head, install_trans, clear_head, commit_done, Running, IndInv, TypeOK
<1>2. ASSUME \A c \in Block : bread(c)' = bread(c) PROVE Current' = Current
  BY <1>1, <1>2, Zenon DEF Current
<1>3. Callers' = Callers
  BY <1>1, Zenon
     DEF Commit, write_log, write_head, install_trans, clear_head, commit_done, wakeup, Callers, InCall
<1>4. CASE write_log(p)
  <2>1. Recovered' = Recovered
    BY <1>4, WriteLogData, SameRecovered, NoBlocks, SMTT(30)
  <2> QED
    BY <1>2, <1>3, <1>4, <2>1, WriteLogData, Stutter, Zenon
<1>5. CASE write_head(p)
  BY <1>5, HeadCommits, Zenon DEF Tx!Next
<1>6. CASE install_trans(p)
  <2>1. Recovered' = Recovered
    BY <1>6, InstallData, SameRecovered, Zenon
  <2> QED
    BY <1>2, <1>3, <1>6, <2>1, InstallData, Stutter, Zenon
<1>7. CASE clear_head(p)
  <2>1. dhead' = <<>> /\ home' = home /\ cache' = cache /\ \A i : Home(i)
    BY <1>7, Zenon DEF clear_head, bufs, Home, Installed
  <2>2. Recovered' = Recovered /\ Current' = Current
    BY <1>2, <2>1, ErasedRecovered, Zenon DEF bread
  <2> QED
    BY <1>3, <2>2, Stutter, Zenon
<1>8. CASE commit_done(p)
  <2>1. UNCHANGED <<home, dlog, dhead, cache>>
    BY <1>8, Zenon DEF commit_done, disk, bufs
  <2>2. Recovered' = Recovered /\ Current' = Current
    BY <1>2, <2>1, SameRecovered, Zenon DEF bread
  <2> QED
    BY <1>3, <2>2, Stutter, Zenon
<1> QED
  BY <1>4, <1>5, <1>6, <1>7, <1>8, Zenon DEF Commit

(* Recovery changes nothing that TxDisk sees. *)
LEMMA RecoverRefines ==
  ASSUME IndInv, Data, Recover
  PROVE  UNCHANGED Tx!vars
<1>1. Callers' = Callers
  BY Zenon
     DEF Recover, read_head, recover_install, recover_clear, procs, Callers, InCall
<1>2. CASE read_head
  <2>1. UNCHANGED <<home, dlog, dhead>> /\ boot # "up" /\ boot' # "up"
    BY <1>2, Zenon DEF read_head, disk
  <2>2. Recovered' = Recovered
    BY <2>1, SameRecovered, Zenon
  <2> QED
    BY <1>1, <2>1, <2>2, Stutter, Zenon DEF Current
<1>3. CASE recover_install
  <2>1. Recovered' = Recovered
    BY <1>3, RecoverData, SameRecovered, Zenon
  <2> QED
    BY <1>1, <1>3, <2>1, RecoverData, Stutter, Zenon DEF Current
<1>4. CASE recover_clear
  <2>1. /\ dhead' = <<>> /\ home' = home /\ cache' = cache /\ boot = "clear" /\ boot' = "up"
        /\ \A i : Home(i)
    BY <1>4, Zenon DEF recover_clear, bufs, Home
  <2>2. Recovered' = Recovered /\ \A b \in Block : Recovered[b] = home[b]
    BY <2>1, ErasedRecovered, Zenon
  <2>3. \A b \in Block : bread(b)' = home[b]
    BY <2>1, Booting, Zenon DEF bread, Data, Buffers, Clean
  <2>4. Current' = Current
    BY <2>1, <2>2, <2>3, RecoveredAt, Zenon DEF Current
  <2> QED
    BY <1>1, <2>2, <2>4, Stutter, Zenon
<1> QED
  BY <1>2, <1>3, <1>4, Zenon DEF Recover

(* A crash loses what was not committed, and nothing else. *)
LEMMA CrashRefines ==
  ASSUME IndInv, Data, Crash
  PROVE  Tx!Crash
<1>1. Recovered' = Recovered
  BY CrashData, SameRecovered, Zenon
<1>2. Current' = Recovered
  BY <1>1, Zenon DEF Crash, Current
<1>3. Callers' = {}
  BY Zenon DEF Crash, Callers, InCall
<1> QED
  BY <1>1, <1>2, <1>3, Zenon DEF Tx!Crash, Callers

(* mkfs leaves TxDisk's initial state. *)
LEMMA InitRefines == Init => Tx!Init
<1> SUFFICES ASSUME Init PROVE Tx!Init
  BY Zenon
<1>1. Recovered = [b \in Block |-> InitVal]
  BY NoBlocks DEF Init, Recovered
<1>2. Current = Recovered
  BY Zenon DEF Init, Current
<1>3. {p \in Proc : InCall(p)} = {}
  BY Zenon DEF Init, InCall
<1> QED
  BY <1>1, <1>2, <1>3, Zenon DEF Tx!Init

-----------------------------------------------------------------------------
(* The write-ahead log implements an atomic, group-committing disk: what a  *)
(* group of calls wrote becomes durable all at once, with no call active,   *)
(* or is lost all at once (log.c:193-203, 116-123), for any processes,      *)
(* blocks, contents and log size, through crashes and torn block writes.    *)
THEOREM LogImplementsTxDisk == Spec => CrashAtomic
<1>1. Init => IndInv /\ Data
  BY InitIndInv, InitData, Zenon
<1>2. IndInv /\ Data /\ [Next]_vars => (IndInv /\ Data)'
  BY NextIndInv, NextData, Zenon
<1>3. IndInv /\ Data /\ [Next]_vars => [Tx!Next]_(Tx!vars)
  <2> SUFFICES ASSUME IndInv, Data, [Next]_vars PROVE [Tx!Next]_(Tx!vars)
    BY Zenon
  <2>1. IndInv' /\ Data'
    BY NextIndInv, NextData, Zenon
  <2>2. CASE UNCHANGED vars
    <3>1. Recovered' = Recovered /\ Current' = Current /\ Callers' = Callers
      BY <2>2, Zenon DEF vars, Recovered, Current, bread, Callers, InCall
    <3> QED
      BY <3>1, Stutter, Zenon
  <2>3. CASE Next
    BY <2>1, <2>3, LoadRefines, CallRefines, CommitRefines, RecoverRefines, CrashRefines, Zenon
       DEF Next, Tx!Next
  <2> QED
    BY <2>2, <2>3, Zenon
<1> QED
  BY <1>1, <1>2, <1>3, InitRefines, PTL DEF Spec, CrashAtomic, Tx!Spec

-----------------------------------------------------------------------------
(* Why log_write() and end_op() never panic: begin_op() has reserved the    *)
(* log space of every call.                                                 *)
INSTANCE FunctionTheorems

(* The blocks the calls that run have written, by call.                     *)
Uses == {x \in Proc \X Block : x[2] \in wrote[x[1]]}

(* A call writes at most OpBlocks distinct blocks, all in the header; when   *)
(* it is over, it has written none.                                         *)
Within(p) ==
  /\ IsFiniteSet(wrote[p]) /\ Cardinality(wrote[p]) <= OpBlocks
  /\ ~InCall(p) => wrote[p] = {}
  /\ pc[p] = "buf" => Cardinality(wrote[p] \cup {blk[p]}) <= OpBlocks
  /\ \A b \in wrote[p] : Logged(b)

(* What the header holds, and what the calls that run may still add to it,  *)
(* leaves two blocks of LOGSIZE free.                                       *)
Reserved == Callers # {} => Len(lh) + outstanding * OpBlocks + 2 <= LOGSIZE + Cardinality(Uses)

(* Between transactions the header is empty. *)
Emptied ==
  /\ boot = "up" /\ outstanding = 0 /\ ~committing => lh = <<>>
  /\ \A p \in Proc : pc[p] = "done" => lh = <<>>

SpaceInv == NoPanic /\ Emptied /\ Reserved /\ \A p \in Proc : Within(p)

(* A call writes fewer blocks than begin_op() reserves for it, a reservation *)
(* fits the log, and the log on disk has the LOGSIZE blocks mkfs gives it.  *)
Enough == OpBlocks < MAXOPBLOCKS /\ MAXOPBLOCKS < LOGSIZE /\ LOGSIZE <= LogSize

-----------------------------------------------------------------------------
(* Counting. *)

(* n calls that write at most k blocks each write at most n * k. *)
LEMMA PairsBounded ==
  ASSUME NEW P, IsFiniteSet(P), NEW B, NEW W, NEW k \in Nat,
         \A p \in P : IsFiniteSet(W[p]) /\ Cardinality(W[p]) <= k
  PROVE  LET U == {x \in P \X B : x[2] \in W[x[1]]}
         IN  IsFiniteSet(U) /\ Cardinality(U) <= Cardinality(P) * k
<1> DEFINE U == {x \in P \X B : x[2] \in W[x[1]]}
           num == [p \in P |-> CHOOSE f : f \in Injection(W[p], 1 .. k)]
           g == [x \in U |-> <<x[1], num[x[1]][x[2]]>>]
<1>1. ASSUME NEW p \in P PROVE num[p] \in Injection(W[p], 1 .. k)
  <2> DEFINE c == Cardinality(W[p])
  <2>1. c \in Nat /\ ExistsBijection(1 .. c, W[p])
    BY <1>1, FS_CardinalityType, Zenon
  <2>2. ExistsBijection(W[p], 1 .. c)
    BY <2>1, Fun_ExistsBijSymmetric, Zenon
  <2>3. PICK f : f \in Injection(W[p], 1 .. c)
    BY <2>2, Zenon DEF ExistsBijection, Bijection
  <2>4. f \in Injection(W[p], 1 .. k)
    <3>1. \A x \in 1 .. c : x \in 1 .. k
      BY <1>1, <2>1
    <3> QED
      BY <2>3, <3>1, Zenon DEF Injection
  <2> QED
    BY <2>4, Zenon
<1>2. \A x \in U : x = <<x[1], x[2]>> /\ x[1] \in P /\ x[2] \in W[x[1]]
  OBVIOUS
<1> HIDE DEF num
<1>3. \A p \in P : /\ \A b \in W[p] : num[p][b] \in 1 .. k
                   /\ \A b, c \in W[p] : num[p][b] = num[p][c] => b = c
  BY <1>1, Zenon DEF Injection, IsInjective
<1>4. g \in Injection(U, P \X (1 .. k))
  <2> HIDE DEF U
  <2>1. g \in [U -> P \X (1 .. k)]
    BY <1>2, <1>3, Zenon
  <2>2. ASSUME NEW x \in U, NEW y \in U, g[x] = g[y] PROVE x = y
    <3>1. x[1] = y[1] /\ num[x[1]][x[2]] = num[y[1]][y[2]]
      BY <2>2, Zenon
    <3>2. x[2] = y[2]
      BY <1>2, <1>3, <3>1, Zenon
    <3> QED
      BY <1>2, <3>1, <3>2, Zenon
  <2> HIDE DEF g
  <2>3. DOMAIN g = U
    BY <2>1, Zenon
  <2> QED
    BY <2>1, <2>2, <2>3, Zenon DEF Injection, IsInjective
<1>5. IsFiniteSet(1 .. k) /\ Cardinality(1 .. k) = k
  BY FS_Interval
<1>6. IsFiniteSet(P \X (1 .. k)) /\ Cardinality(P \X (1 .. k)) = Cardinality(P) * k
  BY <1>5, FS_Product, Zenon
<1> HIDE DEF U, g
<1>7. IsFiniteSet(U) /\ Cardinality(U) <= Cardinality(P) * k
  BY <1>4, <1>6, FS_Injection
<1> QED
  BY <1>7, Zenon DEF U

(* The calls that run write at most OpBlocks blocks each. *)
LEMMA UsesBounded ==
  ASSUME IndInv, \A p \in Proc : Within(p)
  PROVE  IsFiniteSet(Uses) /\ Cardinality(Uses) \in Nat /\ Cardinality(Uses) <= outstanding * OpBlocks
<1> DEFINE U == {x \in Callers \X Block : x[2] \in wrote[x[1]]}
<1>1. Uses = U
  BY Zenon DEF Uses, Callers, Within
<1> HIDE DEF U
<1>2. \A p \in Callers : IsFiniteSet(wrote[p]) /\ Cardinality(wrote[p]) <= OpBlocks
  BY Zenon DEF Callers, Within
<1>3. OpBlocks \in Nat
  BY LogAssumption, Zenon
<1>4. IsFiniteSet(U) /\ Cardinality(U) <= Cardinality(Callers) * OpBlocks
  BY <1>2, <1>3, CallersFinite, PairsBounded, Zenon DEF U
<1> QED
  BY <1>1, <1>4, FS_CardinalityType, Zenon DEF IndInv, CallsCounted

(* n reservations of m blocks hold n more blocks than n calls of k < m. *)
LEMMA Reservations ==
  ASSUME NEW n \in Nat, NEW k \in Nat, NEW m \in Nat, k < m
  PROVE  n * k + n <= n * m
<1>1. PICK d \in Nat : m = k + 1 + d
  <2>1. m - k - 1 \in Nat /\ m = k + 1 + (m - k - 1)
    OBVIOUS
  <2> QED
    BY <2>1, Zenon
<1>2. n * m = n * k + n + n * d
  BY <1>1
<1>3. n * d \in Nat /\ n * k \in Nat /\ n * m \in Nat
  BY <1>1
<1> QED
  BY <1>2, <1>3

-----------------------------------------------------------------------------
(* Steps that neither begin nor end a call, nor log a block. *)
LEMMA SpaceFrame ==
  ASSUME SpaceInv, Emptied',
         UNCHANGED <<lh, outstanding, wrote, panicked>>,
         \A p \in Proc : /\ InCall(p)' <=> InCall(p)
                         /\ pc'[p] = "buf" => pc[p] = "buf" /\ blk'[p] = blk[p]
  PROVE  SpaceInv'
<1>1. Callers' = Callers /\ Uses' = Uses
  BY Zenon DEF Callers, Uses
<1>2. \A p \in Proc : Within(p)'
  BY Zenon DEF SpaceInv, Within, Logged
<1>3. Reserved' /\ NoPanic'
  BY <1>1, Zenon DEF SpaceInv, Reserved, NoPanic
<1> QED
  BY <1>2, <1>3, Zenon DEF SpaceInv

(* Steps after which no call runs. *)
LEMMA SpaceIdle ==
  ASSUME NoPanic', Emptied', \A p \in Proc : ~InCall(p)' /\ wrote'[p] = {}
  PROVE  SpaceInv'
<1>1. Callers' = {}
  BY Zenon DEF Callers
<1>2. \A p \in Proc : Within(p)'
  <2> SUFFICES ASSUME NEW p \in Proc PROVE Within(p)'
    BY Zenon
  <2>1. IsFiniteSet(wrote'[p]) /\ Cardinality(wrote'[p]) <= OpBlocks
    BY FS_EmptySet, LogAssumption
  <2>2. pc'[p] # "buf"
    BY Zenon DEF InCall
  <2> QED
    BY <2>1, <2>2, Zenon DEF Within
<1> QED
  BY <1>1, <1>2, Zenon DEF SpaceInv, Reserved

(* Before the first call nothing is reserved. *)
LEMMA InitSpace == Init => SpaceInv
<1> SUFFICES ASSUME Init PROVE SpaceInv
  BY Zenon
<1>1. Callers = {}
  BY Zenon DEF Init, Callers, InCall
<1>2. \A p \in Proc : Within(p)
  <2> SUFFICES ASSUME NEW p \in Proc PROVE Within(p)
    BY Zenon
  <2>1. wrote[p] = {} /\ pc[p] = "begin"
    BY Zenon DEF Init
  <2>2. IsFiniteSet(wrote[p]) /\ Cardinality(wrote[p]) <= OpBlocks
    BY <2>1, FS_EmptySet, LogAssumption
  <2> QED
    BY <2>1, <2>2, Zenon DEF Within
<1> QED
  BY <1>1, <1>2, Zenon DEF SpaceInv, Reserved, Emptied, NoPanic, Init

(* The buffer cache reserves nothing. *)
LEMMA LoadSpace ==
  ASSUME IndInv, SpaceInv, NEW b \in Block, Load(b) \/ Evict(b)
  PROVE  SpaceInv'
<1>1. UNCHANGED <<logvars, procs, boot, panicked>>
  BY Zenon DEF Load, Evict
<1>2. Emptied'
  BY <1>1, Zenon DEF SpaceInv, Emptied, logvars, procs
<1>3. \A p \in Proc : (InCall(p)' <=> InCall(p)) /\ pc'[p] = pc[p] /\ blk'[p] = blk[p]
  BY <1>1, Zenon DEF procs, InCall
<1> QED
  BY <1>1, <1>2, <1>3, SpaceFrame, Zenon DEF logvars, procs

(* A process that goes to sleep in begin_op() reserves nothing. *)
LEMMA SleepSpace ==
  ASSUME IndInv, SpaceInv, NEW p \in Proc, begin_op_sleep(p)
  PROVE  SpaceInv'
<1>1. /\ pc[p] = "begin" /\ pc' = [pc EXCEPT ![p] = "sleep"] /\ pc \in [Proc -> PC]
      /\ UNCHANGED <<lh, outstanding, committing, wrote, blk, boot, panicked>>
  BY Zenon DEF begin_op_sleep, logvars, IndInv, TypeOK
<1>2. Emptied'
  BY <1>1, Zenon DEF SpaceInv, Emptied
<1>3. \A q \in Proc : (InCall(q)' <=> InCall(q)) /\ (pc'[q] = "buf" => pc[q] = "buf")
  BY <1>1, Zenon DEF InCall
<1> QED
  BY <1>1, <1>2, <1>3, SpaceFrame, Zenon

(* begin_op() waits until one more reservation fits. *)
LEMMA BeginSpace ==
  ASSUME Enough, IndInv, SpaceInv, NEW p \in Proc, begin_op(p)
  PROVE  SpaceInv'
<1>1. /\ pc[p] = "begin" /\ pc' = [pc EXCEPT ![p] = "op"] /\ pc \in [Proc -> PC]
      /\ outstanding' = outstanding + 1 /\ outstanding \in Nat /\ ~NoRoom /\ boot = "up"
      /\ UNCHANGED <<lh, committing, wrote, blk, boot, panicked>>
      /\ lh \in Seq(Block) /\ outstanding = Cardinality(Callers)
  BY Zenon DEF begin_op, IndInv, TypeOK, Running, CallsCounted
<1>2. Emptied' /\ NoPanic'
  BY <1>1 DEF SpaceInv, Emptied, NoPanic
<1>3. \A q \in Proc : Within(q)'
  <2> SUFFICES ASSUME NEW q \in Proc PROVE Within(q)'
    BY Zenon
  <2>1. Within(q)
    BY Zenon DEF SpaceInv
  <2>2. (InCall(q) => InCall(q)') /\ (pc'[q] = "buf" => pc[q] = "buf")
    BY <1>1, Zenon DEF InCall
  <2> QED
    BY <1>1, <2>1, <2>2, Zenon DEF Within, Logged
<1>4. Len(lh) \in Nat /\ Len(lh) + (outstanding + 1) * MAXOPBLOCKS <= LOGSIZE /\ ~committing
  <2>1. Len(lh) \in Nat /\ (outstanding + 1) * MAXOPBLOCKS \in Nat /\ LOGSIZE \in Nat
    BY <1>1, LogAssumption
  <2> QED
    BY <1>1, <2>1 DEF NoRoom
<1>5. Uses' = Uses /\ Cardinality(Uses) \in Nat
  BY <1>1, UsesBounded, Zenon DEF Uses, SpaceInv
<1>6. Len(lh) + (outstanding + 1) * OpBlocks + 2 <= LOGSIZE + Cardinality(Uses)
  <2>0. /\ OpBlocks \in Nat /\ MAXOPBLOCKS \in Nat /\ LOGSIZE \in Nat
        /\ OpBlocks < MAXOPBLOCKS /\ MAXOPBLOCKS < LOGSIZE
    BY LogAssumption, Zenon DEF Enough
  <2>1. CASE outstanding = 0
    <3>1. lh = <<>> /\ Len(lh) = 0
      BY <1>1, <1>4, <2>1, NoBlocks, Zenon DEF SpaceInv, Emptied
    <3> QED
      BY <1>5, <2>0, <2>1, <3>1
  <2>2. CASE outstanding # 0
    <3> DEFINE n == outstanding + 1
               x == n * OpBlocks
               y == n * MAXOPBLOCKS
    <3>1. n \in Nat /\ n >= 2
      BY <1>1, <2>2
    <3>2. Len(lh) + y <= LOGSIZE
      BY <1>4, Zenon
    <3> HIDE DEF n
    <3>3. x + n <= y /\ x \in Nat /\ y \in Nat
      BY <2>0, <3>1, Reservations
    <3> HIDE DEF x, y
    <3>4. Len(lh) + x + 2 <= LOGSIZE + Cardinality(Uses)
      BY <1>4, <1>5, <2>0, <3>1, <3>2, <3>3
    <3> QED
      BY <3>4, Zenon DEF x, n
  <2> QED
    BY <2>1, <2>2, Zenon
<1>7. Reserved'
  BY <1>1, <1>5, <1>6, Zenon DEF Reserved
<1> QED
  BY <1>2, <1>3, <1>7, Zenon DEF SpaceInv

(* A call changes only as many blocks as it may write. *)
LEMMA ModifySpace ==
  ASSUME IndInv, SpaceInv, NEW p \in Proc, NEW b \in Block, NEW v \in Val, Modify(p, b, v)
  PROVE  SpaceInv'
<1>1. /\ pc[p] = "op" /\ pc' = [pc EXCEPT ![p] = "buf"] /\ pc \in [Proc -> PC]
      /\ blk' = [blk EXCEPT ![p] = b] /\ blk \in [Proc -> Block \cup {NoBuf}]
      /\ Cardinality(wrote[p] \cup {b}) <= OpBlocks
      /\ UNCHANGED <<lh, outstanding, committing, wrote, boot, panicked>>
  BY Zenon DEF Modify, logvars, IndInv, TypeOK
<1>2. Emptied' /\ NoPanic'
  BY <1>1, Zenon DEF SpaceInv, Emptied, NoPanic
<1>3. \A q \in Proc : InCall(q)' <=> InCall(q)
  BY <1>1, Zenon DEF InCall
<1>4. \A q \in Proc : Within(q)'
  <2> SUFFICES ASSUME NEW q \in Proc PROVE Within(q)'
    BY Zenon
  <2>1. Within(q)
    BY Zenon DEF SpaceInv
  <2>2. pc'[q] = "buf" => Cardinality(wrote[q] \cup {blk'[q]}) <= OpBlocks
    <3>1. CASE q = p
      BY <1>1, <3>1, Zenon
    <3>2. CASE q # p
      BY <1>1, <2>1, <3>2, Zenon DEF Within
    <3> QED
      BY <3>1, <3>2, Zenon
  <2> QED
    BY <1>1, <1>3, <2>1, <2>2, Zenon DEF Within, Logged
<1>5. Callers' = Callers /\ Uses' = Uses
  BY <1>1, <1>3, Zenon DEF Callers, Uses
<1>6. Reserved'
  BY <1>1, <1>5, Zenon DEF SpaceInv, Reserved
<1> QED
  BY <1>2, <1>4, <1>6, Zenon DEF SpaceInv

(* log_write() finds room: the block it logs, or the absorbed one, is within *)
(* the reservation of its call.                                             *)
LEMMA NotTooBig ==
  ASSUME Enough, IndInv, SpaceInv, NEW p \in Proc, pc[p] = "buf"
  PROVE  ~TooBig /\ outstanding \in Nat /\ outstanding >= 1
<1>1. p \in Callers /\ lh \in Seq(Block) /\ outstanding \in Nat
  BY Zenon DEF Callers, InCall, IndInv, TypeOK
<1>2. outstanding >= 1
  <2>1. outstanding # 0
    BY <1>1, CallersFinite, FS_EmptySet, Zenon DEF IndInv, CallsCounted
  <2> QED
    BY <1>1, <2>1
<1> DEFINE x == outstanding * OpBlocks
           u == Cardinality(Uses)
<1>3. x \in Nat /\ u \in Nat /\ u <= x
  BY <1>1, UsesBounded, LogAssumption DEF SpaceInv
<1>4. Len(lh) + x + 2 <= LOGSIZE + u
  BY <1>1, Zenon DEF SpaceInv, Reserved
<1>5. LOGSIZE \in Nat /\ LogSize \in Nat /\ LOGSIZE <= LogSize /\ Len(lh) \in Nat
  BY <1>1, LogAssumption DEF Enough
<1> HIDE DEF x, u
<1>6. ~(Len(lh) >= LOGSIZE) /\ ~(Len(lh) >= LogSize - 1)
  BY <1>3, <1>4, <1>5
<1> QED
  BY <1>1, <1>2, <1>6, Zenon DEF TooBig

(* log_write() uses up one block of the reservation for each block it adds. *)
LEMMA LogWriteSpace ==
  ASSUME Enough, IndInv, SpaceInv, NEW p \in Proc, log_write(p)
  PROVE  SpaceInv'
<1> DEFINE b == blk[p]
<1>1. pc[p] = "buf" /\ ~TooBig /\ ~(outstanding < 1)
  <2>1. pc[p] = "buf"
    BY Zenon DEF log_write
  <2> QED
    BY <2>1, NotTooBig
<1>2. /\ IF Logged(b) THEN lh' = lh ELSE lh' = Append(lh, b)
      /\ wrote' = [wrote EXCEPT ![p] = @ \cup {b}]
      /\ blk' = [blk EXCEPT ![p] = NoBuf]
      /\ pc' = [pc EXCEPT ![p] = "op"]
      /\ UNCHANGED <<outstanding, committing, boot, panicked>>
  BY <1>1, Zenon DEF log_write
<1>3. /\ b \in Block /\ lh \in Seq(Block) /\ pc \in [Proc -> PC] /\ wrote \in [Proc -> SUBSET Block]
      /\ blk \in [Proc -> Block \cup {NoBuf}] /\ outstanding \in Nat /\ outstanding >= 1
      /\ Within(p) /\ Cardinality(wrote[p] \cup {b}) <= OpBlocks
  BY <1>1, NotTooBig, Zenon DEF IndInv, Places, Place, TypeOK, SpaceInv, Within
<1> HIDE DEF b
<1>4. \A q \in Proc : InCall(q)' <=> InCall(q)
  BY <1>1, <1>2, <1>3, Zenon DEF InCall
<1>5. NoPanic'
  BY <1>2, Zenon DEF SpaceInv, NoPanic
<1>6. Emptied'
  <2>1. \A q \in Proc : ~InCommit(q)
    BY <1>1, Zenon DEF IndInv, CommitAlone, InCall
  <2>2. \A q \in Proc : pc'[q] # "done"
    BY <1>2, <1>3, <2>1, Zenon DEF InCommit
  <2>3. outstanding' # 0
    BY <1>2, <1>3
  <2> QED
    BY <2>2, <2>3, Zenon DEF Emptied
<1>7. /\ Len(lh) \in Nat /\ Len(lh') = (IF Logged(b) THEN Len(lh) ELSE Len(lh) + 1)
      /\ \A c : Logged(c) \/ c = b => Logged(c)'
  <2>1. CASE Logged(b)
    BY <1>2, <1>3, <2>1 DEF Logged
  <2>2. CASE ~Logged(b)
    <3>1. /\ lh' = Append(lh, b) /\ Len(lh') = Len(lh) + 1 /\ Len(lh) \in Nat
          /\ \A i \in 1 .. Len(lh) : lh'[i] = lh[i]
          /\ lh'[Len(lh) + 1] = b
      <4>1. lh' = Append(lh, b) /\ lh \in Seq(Block) /\ b \in Block
        BY <1>2, <1>3, <2>2, Zenon
      <4> QED
        BY <4>1, OneMore, SMTT(30)
    <3>2. \A i \in 1 .. Len(lh) : i \in 1 .. Len(lh')
      BY <3>1
    <3>3. Len(lh) + 1 \in 1 .. Len(lh')
      BY <3>1
    <3> QED
      BY <2>2, <3>1, <3>2, <3>3, Zenon DEF Logged
  <2> QED
    BY <2>1, <2>2, Zenon
<1>8. \A q \in Proc : Within(q)'
  <2>1. ASSUME NEW q \in Proc, q # p PROVE Within(q)'
    <3>1. Within(q) /\ pc'[q] = pc[q] /\ wrote'[q] = wrote[q] /\ blk'[q] = blk[q]
      BY <1>2, <1>3, <2>1, Zenon DEF SpaceInv
    <3> QED
      BY <1>4, <1>7, <3>1, Zenon DEF Within
  <2>2. Within(p)'
    <3>1. pc'[p] = "op" /\ wrote'[p] = wrote[p] \cup {b} /\ InCall(p)'
      BY <1>2, <1>3, Zenon DEF InCall
    <3>2. IsFiniteSet(wrote[p] \cup {b})
      BY <1>3, FS_AddElement, Zenon DEF Within
    <3> QED
      BY <1>3, <1>7, <3>1, <3>2, Zenon DEF Within
  <2> QED
    BY <2>1, <2>2, Zenon
<1>9. Reserved'
  <2>1. Callers' = Callers /\ p \in Callers
    BY <1>1, <1>4, Zenon DEF Callers, InCall
  <2>2. Len(lh) + outstanding * OpBlocks + 2 <= LOGSIZE + Cardinality(Uses)
    BY <2>1, Zenon DEF SpaceInv, Reserved
  <2>3. Uses' = Uses \cup {<<p, b>>}
    <3>1. \A q \in Proc, c \in Block : c \in wrote'[q] <=> c \in wrote[q] \/ (q = p /\ c = b)
      BY <1>2, <1>3, Zenon
    <3> QED
      BY <1>3, <3>1 DEF Uses
  <2>4. IsFiniteSet(Uses) /\ Cardinality(Uses) \in Nat
    BY UsesBounded, Zenon DEF SpaceInv
  <2>5. Cardinality(Uses') = IF <<p, b>> \in Uses THEN Cardinality(Uses) ELSE Cardinality(Uses) + 1
    BY <2>3, <2>4, FS_AddElement, Zenon
  <2>6. ~Logged(b) => <<p, b>> \notin Uses
    BY <1>3, Zenon DEF Uses, Within
  <2>7. outstanding * OpBlocks \in Nat /\ LOGSIZE \in Nat
    BY <1>3, LogAssumption
  <2>8. Len(lh') + outstanding * OpBlocks + 2 <= LOGSIZE + Cardinality(Uses')
    <3> DEFINE x == outstanding * OpBlocks
               u == Cardinality(Uses)
               w == Cardinality(Uses')
    <3> HIDE DEF x, u, w
    <3>1. x \in Nat /\ u \in Nat /\ Len(lh) + x + 2 <= LOGSIZE + u /\ LOGSIZE \in Nat
      BY <2>2, <2>4, <2>7, Zenon DEF x, u
    <3>2. (w = u + 1) \/ (Logged(b) /\ w = u)
      BY <2>5, <2>6, Zenon DEF u, w
    <3>3. Len(lh') + x + 2 <= LOGSIZE + w
      BY <1>7, <3>1, <3>2
    <3> QED
      BY <3>3, Zenon DEF x, w
  <2> QED
    BY <1>2, <2>8, Zenon DEF Reserved
<1> QED
  BY <1>5, <1>6, <1>8, <1>9, Zenon DEF SpaceInv

(* end_op() gives back what its call reserved and did not use. *)
LEMMA EndSpace ==
  ASSUME Enough, IndInv, SpaceInv, NEW p \in Proc, end_op(p)
  PROVE  SpaceInv'
<1>1. ~committing
  BY Zenon DEF IndInv, CommitFlagged, CommitAlone, InCall, end_op
<1>2. /\ pc[p] = "op" /\ pc \in [Proc -> PC] /\ wrote \in [Proc -> SUBSET Block]
      /\ lh \in Seq(Block) /\ outstanding \in Nat /\ outstanding' = outstanding - 1
      /\ IF outstanding' = 0
         THEN /\ committing' = TRUE
              /\ pc' = [pc EXCEPT ![p] = IF lh = <<>> THEN "done" ELSE "write_log"]
         ELSE pc' = wakeup([pc EXCEPT ![p] = "begin"]) /\ UNCHANGED committing
      /\ wrote' = [wrote EXCEPT ![p] = {}]
      /\ UNCHANGED <<lh, blk, boot, panicked>>
  BY <1>1, Zenon DEF end_op, IndInv, TypeOK
<1>3. \A q \in Proc \ {p} :
        /\ pc'[q] = pc[q] \/ (pc[q] = "sleep" /\ pc'[q] = "begin")
        /\ wrote'[q] = wrote[q] /\ blk'[q] = blk[q]
  BY <1>2, Zenon DEF wakeup
<1>4. /\ pc'[p] = IF outstanding' = 0 THEN IF lh = <<>> THEN "done" ELSE "write_log" ELSE "begin"
      /\ wrote'[p] = {}
  BY <1>2, Zenon DEF wakeup
<1>5. NoPanic'
  BY <1>2, Zenon DEF SpaceInv, NoPanic
<1>6. Emptied'
  <2>1. \A q \in Proc : pc'[q] = "done" => lh' = <<>>
    BY <1>2, <1>3, <1>4, Zenon DEF SpaceInv, Emptied
  <2> QED
    BY <1>2, <2>1, Zenon DEF Emptied
<1>7. \A q \in Proc : Within(q)'
  <2>1. ASSUME NEW q \in Proc, q # p PROVE Within(q)'
    <3>1. Within(q) /\ (InCall(q)' <=> InCall(q)) /\ wrote'[q] = wrote[q] /\ blk'[q] = blk[q]
          /\ (pc'[q] = "buf" => pc[q] = "buf")
      BY <1>3, <2>1, Zenon DEF SpaceInv, InCall
    <3> QED
      BY <1>2, <3>1, Zenon DEF Within, Logged
  <2>2. Within(p)'
    <3>1. IsFiniteSet(wrote'[p]) /\ Cardinality(wrote'[p]) <= OpBlocks /\ pc'[p] # "buf"
      BY <1>4, FS_EmptySet, LogAssumption
    <3> QED
      BY <1>4, <3>1, Zenon DEF Within
  <2> QED
    BY <2>1, <2>2, Zenon
<1>8. Reserved'
  <2>0. p \in Callers /\ Within(p)
    BY <1>2, Zenon DEF Callers, InCall, SpaceInv
  <2>1. Len(lh) + outstanding * OpBlocks + 2 <= LOGSIZE + Cardinality(Uses)
    BY <2>0, Zenon DEF SpaceInv, Reserved
  <2>2. Uses' = Uses \ ({p} \X wrote[p])
    <3>1. \A q \in Proc, c \in Block : c \in wrote'[q] <=> c \in wrote[q] /\ q # p
      BY <1>3, <1>4, Zenon
    <3> QED
      BY <1>2, <3>1, Zenon DEF Uses
  <2>3. IsFiniteSet(Uses) /\ Cardinality(Uses) \in Nat
    BY UsesBounded, Zenon DEF SpaceInv
  <2>4. /\ IsFiniteSet({p} \X wrote[p])
        /\ Cardinality({p} \X wrote[p]) = Cardinality(wrote[p])
        /\ Cardinality(wrote[p]) \in Nat /\ Cardinality(wrote[p]) <= OpBlocks
    <3>1. IsFiniteSet({p}) /\ Cardinality({p}) = 1 /\ IsFiniteSet(wrote[p])
      BY <2>0, FS_Singleton, Zenon DEF Within
    <3>2. Cardinality(wrote[p]) \in Nat
      BY <3>1, FS_CardinalityType, Zenon
    <3>3. IsFiniteSet({p} \X wrote[p]) /\ Cardinality({p} \X wrote[p]) = 1 * Cardinality(wrote[p])
      BY <3>1, FS_Product, Zenon
    <3> QED
      BY <2>0, <3>2, <3>3 DEF Within
  <2>5. Cardinality(Uses') \in Nat /\ Cardinality(Uses) <= Cardinality(Uses') + OpBlocks
    <3> DEFINE W == {p} \X wrote[p]
               c == Cardinality(Uses \cap W)
    <3>1. IsFiniteSet(Uses \ W) /\ Cardinality(Uses \ W) = Cardinality(Uses) - c
      BY <2>3, FS_Difference, Zenon
    <3>2. IsFiniteSet(Uses \cap W) /\ c <= Cardinality(W)
      BY <2>4, FS_Intersection, Zenon
    <3>3. c \in Nat /\ Cardinality(Uses \ W) \in Nat
      BY <3>1, <3>2, FS_CardinalityType, Zenon
    <3> HIDE DEF c
    <3>4. c <= OpBlocks
      BY <2>4, <3>2, <3>3, LogAssumption
    <3> HIDE DEF W
    <3>5. Uses' = Uses \ W
      BY <2>2, Zenon DEF W
    <3> QED
      BY <2>3, <3>1, <3>3, <3>4, <3>5, LogAssumption
  <2>6. Len(lh) + (outstanding - 1) * OpBlocks + 2 <= LOGSIZE + Cardinality(Uses')
    <3> DEFINE x == outstanding * OpBlocks
               u == Cardinality(Uses)
               w == Cardinality(Uses')
    <3>1. (outstanding - 1) * OpBlocks = x - OpBlocks /\ x \in Nat
      BY <1>2, LogAssumption
    <3> HIDE DEF x, u, w
    <3>2. u \in Nat /\ Len(lh) + x + 2 <= LOGSIZE + u
      BY <2>1, <2>3, Zenon DEF x, u
    <3>3. w \in Nat /\ u <= w + OpBlocks
      BY <2>5, Zenon DEF u, w
    <3>4. Len(lh) + (x - OpBlocks) + 2 <= LOGSIZE + w
      <4>1. Len(lh) \in Nat /\ LOGSIZE \in Nat /\ OpBlocks \in Nat
        BY <1>2, LogAssumption
      <4> QED
        BY <3>1, <3>2, <3>3, <4>1
    <3> QED
      BY <3>1, <3>4, Zenon DEF w
  <2> QED
    BY <1>2, <2>6, Zenon DEF Reserved
<1> QED
  BY <1>5, <1>6, <1>7, <1>8, Zenon DEF SpaceInv

(* commit() runs while no call does, and leaves the header empty. *)
LEMMA CommitSpace ==
  ASSUME IndInv, SpaceInv, NEW p \in Proc, Commit(p)
  PROVE  SpaceInv'
<1>1. /\ InCommit(p) /\ pc \in [Proc -> PC] /\ UNCHANGED <<outstanding, blk, wrote, boot, panicked>>
  BY Zenon
     DEF Commit, write_log, write_head, install_trans, clear_head, commit_done, logvars,
         InCommit, IndInv, TypeOK
<1>2. committing /\ \A q \in Proc : ~InCall(q) /\ (q # p => pc[q] # "done")
  BY <1>1, Zenon DEF IndInv, CommitFlagged, CommitAlone, InCommit
<1>3. pc' \in [Proc -> PC] /\ pc'[p] \notin {"op", "buf"}
      /\ \A q \in Proc : q # p => pc'[q] = pc[q] \/ pc'[q] = "begin"
  <2>1. CASE write_log(p) \/ write_head(p) \/ install_trans(p) \/ clear_head(p)
    BY <1>1, <2>1, Zenon DEF write_log, write_head, install_trans, clear_head, PC
  <2>2. CASE commit_done(p)
    BY <1>1, <2>2, Zenon DEF commit_done, wakeup, PC
  <2> QED
    BY <2>1, <2>2, Zenon DEF Commit
<1>4. \A q \in Proc : ~InCall(q)' /\ wrote'[q] = {}
  BY <1>1, <1>2, <1>3, Zenon DEF InCall, SpaceInv, Within
<1>5. Emptied'
  <2>1. CASE write_log(p) \/ write_head(p) \/ install_trans(p)
    <3>1. committing' /\ pc'[p] # "done"
      BY <1>1, <1>2, <2>1, Zenon DEF write_log, write_head, install_trans, logvars
    <3> QED
      BY <1>2, <1>3, <3>1, Zenon DEF Emptied
  <2>2. CASE clear_head(p)
    BY <2>2, Zenon DEF clear_head, Emptied
  <2>3. CASE commit_done(p)
    <3>1. lh = <<>> /\ lh' = lh
      BY <2>3, Zenon DEF commit_done, SpaceInv, Emptied
    <3> QED
      BY <3>1, Zenon DEF Emptied
  <2> QED
    BY <2>1, <2>2, <2>3, Zenon DEF Commit
<1>6. NoPanic'
  BY <1>1, Zenon DEF SpaceInv, NoPanic
<1> QED
  BY <1>4, <1>5, <1>6, SpaceIdle, Zenon

(* No call runs before initlog() is done, which leaves the header empty. *)
LEMMA BootSpace ==
  ASSUME IndInv, SpaceInv, Recover \/ Crash
  PROVE  SpaceInv'
<1>1. CASE Recover
  <2>1. boot # "up" /\ UNCHANGED <<pc, wrote, panicked>>
    BY <1>1, Zenon DEF Recover, read_head, recover_install, recover_clear, procs
  <2>2. \A q \in Proc : ~InCall(q)' /\ wrote'[q] = {} /\ pc'[q] # "done"
    BY <2>1, Zenon DEF IndInv, Recovery, InCall, SpaceInv, Within
  <2>3. boot' = "up" => lh' = <<>>
    BY <1>1, Zenon DEF Recover, read_head, recover_install, recover_clear
  <2>4. Emptied' /\ NoPanic'
    BY <2>1, <2>2, <2>3, Zenon DEF Emptied, SpaceInv, NoPanic
  <2> QED
    BY <2>2, <2>4, SpaceIdle, Zenon
<1>2. CASE Crash
  <2>1. \A q \in Proc : ~InCall(q)' /\ wrote'[q] = {}
    BY <1>2, Zenon DEF Crash, InCall
  <2>2. Emptied' /\ NoPanic'
    BY <1>2, Zenon DEF Crash, Emptied, NoPanic
  <2> QED
    BY <2>1, <2>2, SpaceIdle, Zenon
<1> QED
  BY <1>1, <1>2, Zenon

(* Every step keeps the reservations. *)
LEMMA NextSpace == ASSUME Enough, IndInv, SpaceInv, [Next]_vars PROVE SpaceInv'
<1>1. CASE UNCHANGED vars
  <2>1. UNCHANGED <<lh, outstanding, committing, wrote, blk, pc, boot, panicked>>
    BY <1>1, Zenon DEF vars
  <2>2. Emptied' /\ \A q \in Proc : InCall(q)' <=> InCall(q)
    BY <2>1, Zenon DEF SpaceInv, Emptied, InCall
  <2> QED
    BY <2>1, <2>2, SpaceFrame, Zenon
<1>2. ASSUME NEW p \in Proc, Call(p) PROVE SpaceInv'
  BY <1>2, SleepSpace, BeginSpace, ModifySpace, LogWriteSpace, EndSpace, Zenon DEF Call
<1> QED
  BY <1>1, <1>2, LoadSpace, CommitSpace, BootSpace, Zenon DEF Next

-----------------------------------------------------------------------------
(* With calls that write fewer blocks than MAXOPBLOCKS, log_write() never   *)
(* finds "too big a transaction" or itself "outside of trans", and end_op() *)
(* never finds log.committing set, whatever runs and crashes.               *)
THEOREM NeverPanics == ASSUME Enough PROVE Spec => []NoPanic
<1>1. Init => SpaceInv
  BY InitSpace, Zenon
<1>2. IndInv /\ SpaceInv /\ [Next]_vars => SpaceInv'
  BY NextSpace, Zenon
<1>3. SpaceInv => NoPanic
  BY Zenon DEF SpaceInv
<1> QED
  BY <1>1, <1>2, <1>3, LogInvariant, PTL DEF Spec
=============================================================================
