# xv6 in TLA+

TLA+ specifications of this repository's xv6 kernel (RISC-V), of `mkfs` and of
its larger user programs; the TLC configurations that check them on small
instances; and TLAPS proofs about the log, the contents of files, the buffer
cache, the disk driver, pipes, the console, the scheduler and the process table
for instances of any size. `PROJECT.json` lists the runs, the faulty variants
each property is tried against, the source lines every definition stands for,
the hazards, the findings and the theorems.

To repeat the checks, in this directory:

    tlc -workers 2 -config MCLog.cfg MCLog     # one run; see "Runs"
    tlapm LogProofs.tla                        # proofs; see "Proofs"

## The system

| Part | Source | Modules |
|---|---|---|
| Write-ahead log | `kernel/log.c` | `Log`, `TxDisk` (what it promises), `LogProofs` |
| Buffer cache, sleep locks | `kernel/bio.c`, `kernel/sleeplock.c` | `BufferCache`, `SleepLock`, `BufferCacheProofs` |
| Disk driver | `kernel/virtio_disk.c` | `VirtioDisk`, `VirtioDiskProofs` |
| Names: inode table, directories, file table and their system calls | `kernel/fs.c`, `kernel/file.c`, `kernel/sysfile.c` | `FileSys` |
| Contents: blocks of files, read, write, truncate; the first image | `kernel/fs.c`, `kernel/file.c`, `mkfs/mkfs.c` | `FileData`, `FileDataProofs` |
| Page allocator, page tables | `kernel/kalloc.c`, `kernel/vm.c` | `Vm` |
| Memory of processes: fork, exec, sbrk, exit | `kernel/proc.c`, `kernel/exec.c`, `kernel/sysproc.c`, `kernel/syscall.c` | `ProcMem` |
| Process lifecycle | `kernel/proc.c` (fork, exit, wait, kill) | `Proc`, `ProcProofs` |
| Scheduler, sleep and wakeup, spin locks | `kernel/proc.c`, `kernel/swtch.S`, `kernel/spinlock.c` | `Sched`, `SchedProofs` |
| Pipes | `kernel/pipe.c` | `Pipe`, `Channel` (what it promises), `PipeProofs` |
| Console input | `kernel/console.c` | `Console`, `LineQueue` (what it promises); proof in `SharedProofs` |
| Console output | `kernel/uart.c` | `Uart`, `Channel` (what its ring promises) |
| Shell | `user/sh.c` | `ShLine` (editor), `ShParse` (parser), `ShRun` (processes) |
| grep, xargs | `user/grep.c`, `user/xargs.c` | `Filters` |
| Prime sieve | `user/primes.c` | `Primes` |
| malloc | `user/umalloc.c` | `Umalloc` |

How the parts meet. A file-system call brackets its work with `begin_op()` and
`end_op()`. It looks names up and changes inodes (`FileSys`) and their blocks
(`FileData`) through the buffer cache, and hands changed blocks to
`log_write()`, which pins them. The last `end_op()` commits: log blocks, header,
home blocks, empty header. The cache transfers blocks through the disk driver,
which sleeps until the completion interrupt. Everything that sleeps relies on
`sleep()` and `wakeup()` losing no wakeup.

Each module assumes of the part below what that part's own run or proof shows.
`FileData` and `FileSys` see an operation of the log as a unit because `Log`
implements `TxDisk`. `WithinReservation` of `FileData` is in turn the bound that
`begin_op()` relies on: a chunk logs at most `MAXOPBLOCKS` blocks. `Log`'s
`NoPanic` asks for one less (see "Runs"). A chunk logs all of them only if each
block it allocates has its bit in another bitmap block; the disk here has a single
bitmap block (`FSSIZE` is 2000), and a chunk logs at most 7 of 10. `Log` and `VirtioDisk` let one process use a
buffer at a time, which is `SeesLatest` of `BufferCache`. Sleeping is one step
outside `Sched` because of `NoMissedWakeup`. `ShRun` and `Primes` use pipes as
`Channel` promises them.

## Conventions

**Granularity.** One action is one critical section of a spin lock, one disk
write, one acquisition of a sleep lock, one page or block of a loop that others
can interleave with, one system call of a user program, or one device step. A
handler that gives a lock up and takes it again is several actions, and every
other process may run in between. `sleep()` is one step in every module but
`Sched`. `Sched` justifies that: there spin locks are variables, each lock
operation is a step, and `NoMissedWakeup` shows that the window between giving
up the caller's lock and being marked `SLEEPING` is harmless.

**Where the lock is a variable.** `Pipe`, `Console` and `Uart` keep the lock as
a variable, because a call holds it from byte to byte. Only what does not take
the lock can come in between: `kill()`, and CPUs that write the UART directly.
The sleep locks of inodes are variables of `FileData` and `FileSys`.

**Numbers.** `nread`, `nwrite`, the console's `r`, `w`, `e` and the virtio ring
indices are unsigned and wrap. The constant `Wrap` is their range. It is a
multiple of the ring size, as 2^32 and 2^16 are of the sizes in the code. The
addresses in an ELF header wrap at `WORD`.

**Faulty variants.** An operator commented `Faulty:` stands before the
definition it distorts. No specification uses it. Substituting it for the
definition must make TLC report the property that `PROJECT.json` names for it.

**Several parts in one run.** `MCShared`, `MCDrivers` and `MCUser` each hold
several modules that do not interact. `part` says which of them a behaviour is
about; `v1`, `v2`, ... are its variables. Their properties read
`part = "..." => ...`, or the like for steps and liveness. `MCShared` takes the
parts about which something is proved from their proof modules, so that
`SharedProofs` can carry the theorems over to the composition that TLC checks.

## Modules

**Log.** State: the disk (`home`, `dlog`, `dhead`), `struct log` (`lh`,
`outstanding`, `committing`), valid buffers and pins, and per process the place
in its call or commit. `begin_op`, `begin_op_sleep`, `log_write` and `end_op`
are the critical sections. `write_log`, `write_head`, `install_trans` and
`clear_head` each do one disk write of a commit. `read_head`, `recover_install`
and `recover_clear` are recovery. `Crash` may happen between any two steps. It
leaves the data block that was being written either untouched, written, or
torn. The header is written atomically: `struct logheader` fits one 512-byte
sector. `Evict` drops an unpinned, unlocked buffer at any time, which is more
than the LRU order of `bget()` allows. `TxDisk` is the promise: groups of calls
become durable together, between calls, or not at all.

**BufferCache, SleepLock.** `bget_hit` and `bget_miss` are the two ends of the
critical section of `bget()`. `bget_lock` is `acquiresleep()` after it.
`brelse` releases the sleep lock; `brelse_put` drops the reference and moves
the buffer to the head of the list. A process has up to two buffers: `bmap()`
keeps the indirect block while `balloc()` reads others, `write_log()` and
`install_trans()` keep the log block. `Outer` are the blocks kept in this way, and
`MayGet` says who may read which. `bget()` panics when every buffer is in use.
Callers keep the contract of `log.c`: a changed buffer is written or pinned before
it is released, and only a commit unpins it, after writing it. There is one
exception in the code, the failed copy in `writei()` (`kernel/fs.c:522-525`), and
`FileData` has that (`Torn`). `latest` is a history variable. The device number is
left out: the kernel has one disk.

**VirtioDisk.** Descriptors, the avail and used rings, and `virtio_disk_intr()`
one ring entry at a time. The device is external. It fetches requests, finishes
them in any order, and raises an interrupt; it may do so while the handler
runs. Each process has a buffer and a block of its own while a request is in
progress, which the buffer cache guarantees.

**FileSys.** `dinode` is the disk, `itable` the inodes in memory (`ref`,
`valid`, `type`, `nlink`, the holder of the lock), `ftable` the open files. A
process has its working directory, its descriptors, and its call: `pc`, the
locals that hold references (`ip`, `dp`, `old`), and `todo`, the inode and log
operations to be done before it goes on at `pc`. Each of `ilock`, `iunlock`,
`iput`, `begin_op`, `end_op` is a step; the steps of a call between two of them
(`sys_link`, `create`, `Descend` for one element of a path in `namex()`, ...)
are named after the function they belong to. `iput()` of the last reference to
an inode without links is three steps, as the code gives up `itable.lock`
while it frees. A directory is a function from names to inode numbers, and
writing an entry may fail for want of a block; `create_fail` undoes what
`create()` has done until then, and `dirlink_taken` is the path of a name that
another call has added meanwhile. The inode table has `NINODE` entries. A panic
is recorded with its message and stops the kernel. `lost` is a history variable:
a directory was freed while it had entries, so their link counts stay too high.
`Starts` are the images and working directories to begin with.

**FileData.** `addrs`, `size`, `used` and `data` are the inodes' block maps and
sizes, the bitmap and the blocks. A block of data and an indirect block are
both sequences of words, so a stale block number can be mistaken for data and
the other way round, as in the code. `Init` is the image that the `iappend()`
calls of `mkfs` build. `writei`, `readi` and `itrunc` go block by block with
the inode locked; operations on another inode take and free blocks in between,
and `balloc` may find none. The copy from user memory may fail behind any number
of words. Those are changed in the buffer and not logged: later reads may find
the old or the new ones, so such a word is `Torn`. Every write has a number of its
own, and `written` is a history variable with the last one at each offset of each
file. `Hole` is the block that `mkfs` may leave out at the end of the root.

**Vm, ProcMem.** `Vm` has `kalloc.c` and `vm.c` as operators on a record of a
page table and the free list. `ProcMem` has the calls: `allocproc`, `fork`
(`uvmcopy` page by page), `sbrk` (`grow_page`), `exec` (the argument pages of
`sys_exec()`, headers, pages, `loadseg`, stack and arguments, `exec_commit`, and
`args_bad` for its `bad:` path), `exit` and `wait`. One page is
one step, and each may find the free list empty, also for a page of the page
table. Programs are ELF records, malformed and truncated ones included.

**Proc.** A process is a slot of `proc[]`. `fork()` is `fork_alloc`,
`fork_parent`, `fork_run`, or `fork_fail` when `uvmcopy()` fails. `exit()` is
`exit_reparent`, `exit_wake`, `exit_zombie`. `wait()` is `wait_acquire`,
then `wait_reap`, `wait_copyout_fails`, `wait_none` or `wait_sleep`. `kill()` is
one step and may come between any two of the others. `RUNNING` and `RUNNABLE`
are one state here. `reqs` is a history variable.

**Sched.** Which kernel stack each CPU is on, who holds each `p->lock`, and the
hand-over of that lock across `swtch()`. Clients wait under a lock `lk` for a
condition; an interrupt handler makes it true and calls `wakeup()`, which visits
the processes one at a time.

**Pipe.** `write_full`, `write_byte`, `write_fail`, `write_end` are the paths
through the loop of `pipewrite()`, one byte at a time; likewise for
`piperead()`. `pipeclose()` of one end happens once no process of that end is in
a call, as the file's reference count ensures (`RefsExact` of `FileSys`).

**Console.** `consoleintr()` is one step per key, by case. `consoleread()` is
`read_wait`, `sleep`, `read_eof`, `read_byte`, `read_end`. Echo is output and
belongs to `Uart`. `LineQueue` is the promise: editing in cooked mode only, keys
handed out at once in raw mode, and no more keys than the buffer holds.

**Uart.** `uartputc()`, `uartstart()` and `uartintr()` under `uart_tx_lock`;
`uartputc_sync()` without it. Testing LSR and writing THR are separate steps.
The UART is external.

**ShLine.** `readline()` key by key: `buf`, the history ring, and `screen`, the
line the user sees of what was written to the raw console. `main()` says what
is done with a finished line. `handle_tab_completion()` does not look at the
size of the line; a completion that runs past its end is undefined behaviour, and
the model stops there (`Overrun`). `typed` and `shown` are history variables.

**ShParse.** `gettoken()`, `peek()`, `parseline()`, `parsepipe()`,
`parseexec()`, `parseredirs()`, `parseblock()`, `nulterminate()` as operators
on a line and a position. The reference definition is the shell's grammar as a
set of trees, written independently of the position.

**ShRun.** `runcmd()` as a list of system calls per process, interleaved; the
calls of the kernel it uses (`fork`, `pipe`, `dup`, `close`, `wait`, `exec`) are
external and are modelled by what the shell sees of them. Any `fork`, `pipe`,
`open` or `exec` may fail.

**Filters, Primes, Umalloc.** `grep()`'s buffer and `match()`, and xargs' loop,
over input cut at any place, with any `fork()` failing; the chain of sieve
processes with every descriptor they inherit and close; the circular free list in
units of a header. `primes` looks at the result of neither `pipe()` nor `fork()`.
Without a child a stage goes on alone, and its writes fail; after a failed
`pipe()` it uses an uninitialised array, and the model stops.

## Runs

Each property is stated in words above its definition.

| Run | Instance | Properties |
|---|---|---|
| `log` | 2 processes, 3 blocks, 2 values, log of 4 blocks | `CommitAlone`, `PinnedUntilInstalled`, `NoPanic`, `WriteAhead`, `CrashAtomic` (implements `TxDisk`), `SleeperWoken` |
| `proc` | 4 slots, pids up to 5 | `NoMissedExit`, `KilledOnlyIfAsked`, `OrphansReaped` |
| `pipe` | 1 writer, 2 readers, 2 bytes of room | `ImplementsFifo` (implements `Channel`), `CallsReturn` |
| `shared_state`: cache | 2 processes with up to 2 buffers each, 3 buffers, 4 blocks | `RefcntExact`, `SeesLatest`, `SleeperHasHolder` |
| `shared_state`: disk | 2 processes, 6 descriptors | `Transferred` |
| `shared_state`: scheduler | 4 processes, 3 CPUs | `OneCpuPerStack`, `NoMissedWakeup` |
| `shared_state`: console | 2 readers, buffer of 3, both modes | `ConsoleSleepersHaveReason`, `ImplementsLineQueue` (implements `LineQueue`) |
| `drivers_progress`: disk | 3 processes, 4 descriptors | `DiskProgresses` |
| `drivers_progress`: UART | 2 writers, 2 printing CPUs, ring of 2 | `ImplementsWire` (implements `Channel`), `Drains` |
| `memory` | 2 processes, 19 pages, three programs | `PagesAccounted`, `ImageExact` |
| `file_data` | 2 processes, 2 files beside the root, 7 blocks of 2 words, 3 writes | `BlocksAccounted`, `ReadsBack`, `WithinReservation`, `OffsetStable` |
| `file_system` | 2 processes, 4 inodes and 3 entries of the table, two initial trees, 12 calls of which 3 are made | `RefsExact`, `CopyCurrent`, `EntriesBacked`, `OnlyPanics`, `CallsReturn` |
| `userland` | every pattern of 3 and line of 2 characters; every line of 5; 7 commands; 2 .. 13; a heap of 13 units | `FilteredExactly`, `ParsedByGrammar`, `ShowsTyped`, `WiredAsWritten`, `CommandEnds`, `SieveEnds`, `HeapTiled` |

Three runs are expected to fail, and show where the code and what is written
about it differ:

| Run | What it shows |
|---|---|
| `proc_kill0` | `kill(0)` matches a free slot, and the next process in it is born killed. `proc` gives `kill()` only pids that processes have had. |
| `console_overrun` | In raw mode, backspace is stored in a full buffer (`RingNotOverrun`). `ImplementsLineQueue` in `shared_state` asks nothing of that step (`RawGaps`). |
| `shell_cd` | `main()` drops the last character of the directory of a `cd` command (`CdAsTyped`): it means to drop the newline, which `readline()` has not stored. |

More such points have no run of their own:

- With `OpBlocks = MAXOPBLOCKS` in `MCLog.cfg` the log's `NoPanic` fails:
  `begin_op()` hands out `LOGSIZE` blocks, but the header takes one of them, so
  calls that write all they may reach the panic in `log_write()`. (`OpBlocks` is
  one less in the run.)
- ^U erases the keys of an unfinished line in raw mode too, where
  `docs/xv6_console-2.md:60-62` has "Kernel does no editing". `RawGaps` in
  `Console` names this step and the one of `console_overrun`;
  `ImplementsLineQueue` is about all others.
- `mkfs` rounds the root's size up by a block too many when the entries fill
  their last block. The image of `file_data` is such a one, and `ReadsBack`
  excepts the missing block (`Hole`).
- When the copy of a write fails part-way, the buffer keeps the words that were
  copied, though the write has failed and nothing is logged. `ReadsBack` says
  that only those words are in doubt.
- A process in a removed directory whose parent was removed as well reaches
  the panic "ilock: no type" through `..`. `OnlyPanics` allows that panic for
  `..` only, and the panic of `iget()` only when more than `NINODE` inodes are
  in use; both are reached. A file created in a directory that is being removed
  is never freed (`EntriesBacked` allows a link count that is too high once
  `lost`).
- `NBUF` is 30, `NPROC` 64, and a process may have two buffers: enough processes
  in the file system at once reach the panic of `bget()`. `RefcntExact` says that
  it takes that many.
- `handle_tab_completion()` does not compare a completion with the size of the
  line (`user/sh.c:74`). An empty line ends the shell like the end of the input.
- When the history has wrapped, going further up shows the younger lines again,
  where `docs/xv6_enhanced_sh.md:7,48` has "valid history entries" and "shows
  older cmds"; `ShowsTyped` is about the entries that the ring still has.
- `xargs` drops a last line without a newline and runs its command for an empty
  one; `docs/xv6_xargs.md:65-66` has both the other way. It passes over a line
  whose `fork()` fails without a message. `FilteredExactly` takes no side on the
  former and allows the latter.
- `primes` needs a pipe for each of 59 primes, one for the generator and one for
  the report, two open files each. When the first stages have not closed theirs
  yet, that is more than the `NFILE = 100` open files of the system, and the
  program does not see `pipe()` fail. `SieveEnds` makes no claim about such
  behaviours; when only forks fail, the primes are the first ones, none missing
  in between.
- `find` calls `match(p, pattern)` (`user/find.c:150`) with the file's name as
  the regular expression and the pattern as the text, the other way round from
  `match(re, text)` as `grep` uses it.

**Bounds, and why they are enough.** Every run has several actors on each side
that can race. In `log` a group holds the blocks of two calls, a call may
change a block twice and a block may be absorbed; calls find the log full and
sleep. The cache has fewer buffers than blocks, so recycling occurs, and fewer
than two processes and a pin can use, so that `bget()` also finds none. Six descriptors let two requests finish in either
order; four hold one request and leave one over, so `alloc3_desc()` fails
half-way and two processes wait. The rings are smaller than what passes through
them, and their counters wrap within a run.

In `memory` 19 pages are too few for two processes to do what they try, so
every allocation of every call fails in some behaviour; sizes that are not
multiples of the page exercise the rounding. In `file_data` two files fill the
disk, three writes let one overwrite another behind a truncation, a file has one direct block and reaches the indirect one with its second,
writes are not aligned, and a bitmap block holds a single bit, the worst case
for `WithinReservation`; `MAXOPBLOCKS = 6` is the smallest for which
`filewrite()` makes progress. In `file_system` the two processes' calls all meet
on two names, and three calls suffice for a removal or link to come between
look-up and lock of another call, and for a process to be left in a directory
whose parent is gone; a removed directory stays in use as a working
directory, and a freed inode is allocated again. In `userland` grep's buffer is
shorter than its lines may be, and the pipes of the sieve hold fewer numbers
than are sent. As in the program, the report pipe holds all primes.

`MaxPid` bounds the number of forks, `MaxPins` the pinned blocks, `MaxWrites` the
calls of `write()` in `FileData`, `MaxSync` the characters printed, `MaxCond` the counter of
`Sched`, `MaxN` and `Lengths` the length of a read or write, `OpBlocks` the
blocks a call writes, `MaxCalls` the calls of `ProcMem` and `FileSys`, `MaxLines`
and `MaxGiven` the lines of the editor. Symmetry is used in runs without
liveness only. The view of `MCShared` leaves out ring entries, descriptor fields
and slots of the input buffer that no later step reads.

**Deadlock** is checked in `log`, `proc`, `shared_state`, `drivers_progress`
and `file_data`. The others may really stop: a pipe ends up closed and freed,
a user program comes to its end, and the number of calls is bounded in `memory`
and `file_system`; there `CallsReturn`, `CommandEnds` and `SieveEnds` say that
nobody is stuck.

**Fairness.** Weak fairness for the steps of code that holds a lock or is
in the middle of a handler: a CPU goes on executing it. Strong fairness for what
contends for a lock (`acquire` of a pipe, `fork_parent`, init's
`wait_acquire`, finishing a disk request): the scheduler runs every `RUNNABLE`
process again and again, and locks are held for finite times. In `file_system`
the calls are bounded and weak fairness of each process is enough. `end_op` is
strongly fair because file-system calls are finite. The devices are weakly fair.
Interrupts are delivered while requested. User processes are weakly fair. No fairness is put on calling anything: nobody has to
call `write()`, type a key or exit. `DiskProgresses` says less than "every
request finishes" on purpose: `sleep()` has no queue, so a process that waits
for descriptors can be overtaken for ever.

## Proofs

TLAPS proves the following for any values of the constants that satisfy the
named assumptions; TLC evaluates those for the values of the runs. TLC has also
checked the inductive invariants on small instances before their proofs.

### Log: `LogProofs`

For any finite set of processes, any blocks, values and sizes (`LogAssumption`):

- `TypeCorrect`: `Spec => []TypeOK`;
- `CommitsAlone`: `Spec => []CommitAlone`;
- `StaysPinned`: `Spec => [](LoggedOnce /\ PinnedUntilInstalled)`;
- `WritesAhead`: `Spec => WriteAhead`, an action property;
- `LogImplementsTxDisk`: `Spec => CrashAtomic`, that is, the log implements
  `TxDisk` under the mapping in `Log`;
- `NeverPanics`: under `Enough`, `Spec => []NoPanic`.

All rest on one inductive invariant, `IndInv`. The safety invariants are not
inductive alone. `CommitAlone` needs `outstanding` to be the number of callers
(`CallsCounted`) and `committing` to say whether a process is in `commit()`
(`CommitFlagged`): otherwise `end_op()` could start a commit while a call is in
progress. `PinnedUntilInstalled` needs the loop index of `install_trans()` to be
inside the header (`Places`), each block to be listed once (`LoggedOnce`), and
all pins gone during recovery (`Recovery`). `WriteAhead` needs the header on disk
to equal the one in memory during installation (`Places`, `Recovery`). There is
one lemma per action; `NextIndInv` collects them.

`IndInv` says where processes and indices are. The refinement also needs where
the contents are (`Data`): an unpinned buffer equals its home block and a pinned
one stays cached (`Buffers`), the log blocks already written equal the buffers
(`Copies`), and the home blocks already installed equal the log (`Homes`). With
that, what recovery would produce from the disk changes in one step only, the
write of the header (`HeadCommits`), where it becomes what the calls have
written; the installing steps, recovery and torn writes leave it alone
(`SameRecovered`), and a crash leaves exactly it (`CrashRefines`).

`NoPanic` adds up what calls have reserved. `Reserved` does it without a sum: the
pairs of a call and a block it wrote (`Uses`) are counted as one set, and the log
with what the calls may still write stays below `LOGSIZE`. `Enough` is what
`kernel/param.h` has (`MAXOPBLOCKS` is 10, `LOGSIZE` 30, and the log on disk has
`LOGSIZE` blocks), together with calls that write fewer than `MAXOPBLOCKS`
blocks. A call that writes all `MAXOPBLOCKS` is the point made under "Runs".

### Contents of files: `FileDataProofs`

For any processes, disk, block and bitmap sizes, files and writes
(`FileDataAssumption`), if the image of mkfs is consistent (`ImageConsistent`):

- `BitmapAlwaysExact`: `Spec => []BlocksAccounted`;
- `FilesReadBack`: `Spec => []ReadsBack`;
- `ChunksFitReservation`: `Spec => []WithinReservation`;
- `OffsetsStable`: `Spec => []OffsetStable`.

Every place of an inode that can name a block is a *slot*: its direct addresses,
its indirect block, and the entries of that. `Accounted` says that the slots name
each used block once, `Contents` that the slots below the size hold the words
that were written last (`Wanted`), the missing block of the root apart. While a
`writei()` is under way the words behind it are new, a word of a failed copy is
torn, and the rest are as before. Since `balloc()`, `bmap()`, a copy of words and `itrunc()` each
fill, use or empty one slot, the lemmas are about one slot, and the invariant
follows for the steps. It counts an inode that is being truncated or written as
far as the loop has come (`Gone`, `Filled`), and needs that whoever is in the
loop holds the inode's lock (`Locks`) and that what `writei()` checked at its
start still holds (`Transfers`). `Logs` bounds what a transaction has logged by
the blocks its chunk covers; counting those gives `WithinReservation`.

`ImageConsistent` is a hypothesis because `Image` is recursive over the files,
and what a recursive function computes cannot be proved by induction here.
`MCFileData` lets TLC evaluate it for the files of the run.

### Buffer cache: `BufferCacheProofs`

For any finite sets of processes and buffers, any blocks and values
(`BufferCacheAssumption`):

- `CountsExact`: `Spec => []RefcntExact`, which includes that `bget()` panics
  only when every buffer is in use;
- `LatestSeen`: `Spec => []SeesLatest`;
- `SleepersWoken`: `Spec => []SleeperHasHolder`.

The invariant says that a block has at most one buffer and a pinned one has one
(`Buffers`), that a count is the number of uses and of pins (`Counts`), and
that a valid buffer has the latest value while the disk has it for every block
that is neither pinned nor being changed (`Valid`, `OnDisk`). A use is one of the
two buffers of a process, so nothing is assumed about how many buffers there are.

### Disk driver: `VirtioDiskProofs`

For any processes, blocks and values, at least three descriptors, and any range
of the indices that is a multiple of their number (`VirtioDiskAssumption`):

- `RequestsCarriedOut`: `Spec => []Transferred`;
- `DriverNeverPanics`: neither `free_desc()` nor `virtio_disk_intr()` panics.

The heads in the avail ring, with the device and in the used ring are different
ones (`Rings`), and each is that of a process that waits for it (`Owners`). A
process that waits has three descriptors that are neither free nor another's
(`Chains`), and its block is its own (`Requests`), so what the device does for one
request is not undone by another before it returns (`Results`). That a ring has
room is a matter of counting: the second descriptor of a chain is never a head, so
a ring holds at most `NUM - 2` entries when the next is added (`Counting`).

### Pipes: `PipeProofs`

- `PipeImplementsChannel`: `Spec => ImplementsFifo`, that is, a pipe implements
  `Channel`, for any readers, writers and bytes and any `PIPESIZE` that divides
  the range of `nread` and `nwrite` (`PipeAssumption`).

The argument is the arithmetic of the circular buffer: the bytes between `nread`
and `nwrite` are at different places of it, also when the counters have wrapped.

### Scheduler: `SchedProofs`

For any processes and CPUs (`SchedAssumption`):

- `StackHasOneCpu`: `Spec => []OneCpuPerStack`;
- `WakeupNotMissed`: `Spec => []NoMissedWakeup`.

The first follows from who holds `p->lock` at each line (`Locks`): a process on a
CPU is `RUNNING`, or holds its lock with that CPU; a process that a CPU has just
left has its lock held by that CPU until `scheduler()` releases it; off the CPUs
its lock is free. The second adds what `lk` protects (`Waiting`): between the
test and giving up `lk` the condition is false, and from then on a handler that
makes it true still has the sleeper to visit.

### Process table: `ProcProofs`

For any number of slots (`ProcAssumption`):

- `ExitNotMissed`: `Spec => []NoMissedExit`;
- `KilledWereAsked`: if 0 is not among the pids given to `kill()`, then
  `Spec => []KilledOnlyIfAsked`. `proc_kill0` shows that the condition is needed.

`NoMissedExit` speaks of moments when `wait_lock` is free; its strengthening
`Waiting` covers the steps that hold it: who sleeps, or is about to with
`wait_lock` held, has children, none dead and none between its wakeup and its
death. It needs who holds `wait_lock` (`LockHeld`), that the slot a `fork()` fills
is its own and nobody's child yet (`Forked`, `FreeSlots`), and that sleepers
sleep on their own channel (`Asleep`, `OwnChannel`). `KilledOnlyIfAsked` needs
that free slots have pid 0 and are not killed (`Asked`).

### The composition, and the console: `SharedProofs`

`MCShared` runs one of four parts in each behaviour. A step of it is a step of
that part, so the theorems above hold of it: `RefcntAlwaysExact`,
`LatestAlwaysSeen`, `SleepersAlwaysWoken`, `AlwaysTransferred`,
`StackAlwaysOneCpu` and `WakeupNeverMissed` state exactly the invariants that
`shared_state` checks. Proved there directly, for any readers and keys:

- `ConsoleSleepersAlwaysHaveReason`: `Spec => []ConsoleSleepersHaveReason`.

Its invariant (`Readers`) covers the time between the test in `consoleread()` and
`sleep()`, during which the reader has `cons.lock` and nothing can be published.

### Only model-checked

- Liveness everywhere, which is out of the prover's reach.
- `FilteredExactly`, `ParsedByGrammar`, `ShowsTyped`, `WiredAsWritten` and
  `HeapTiled`: the matcher, the parser, `runcmd()` and the free list are
  RECURSIVE operators, for which the provers have no support.
- `PagesAccounted`, `ImageExact` (`ProcMem`) and `RefsExact`, `CopyCurrent`,
  `EntriesBacked`, `OnlyPanics` (`FileSys`): not proved. Counting references over
  the locals, the pending operations and the open files of all processes at once
  would take an invariant for each place of each system call.
- `ImplementsLineQueue` and `ImplementsWire`: refinements to a line and a wire,
  by TLC only. The first leaves two steps of raw mode open (`RawGaps`).

## Not modelled

- Boot code, trap entry and return, PLIC and page-table set-up of the kernel:
  register programming, mostly before there is concurrency.
- The clock: `sys_sleep()` is an instance of the sleep protocol of `Sched`.
- The nesting counter of `push_off()`; memory ordering: spin locks are taken to
  order memory as their fences say. Disk errors: the driver panics on one.
- `printf`, string functions, `sys_fstat` and `stati`: copying and formatting.
- `sys_pipe`, which puts the two ends of a pipe in the file table.
- `find`: a sequential walk whose matcher is a copy of the one in `Filters`.
  `pingpong` and the small user programs: straight-line code.
- The tests (`usertests`, `grind`, ...).
- The contents of user memory, and the data in a directory's blocks: `FileSys`
  takes a directory for a function, `FileData` a file for words.
