# A TLA+ verification of xv6

This directory holds TLA+ models of the xv6-riscv kernel and of some of its
user programs in `src/`, the configurations that check them with TLC, and
proofs checked by TLAPS. (Despite the repository's name this tree has no
copy-on-write fork: `fork()` copies every page in `uvmcopy()`.)

`PROJECT.json` maps every definition to source lines and lists components,
runs, mutants, hazards, findings and theorems.

## 1. The system

| part | code | state | actors |
|---|---|---|---|
| process table, scheduler | `proc.c`, `swtch.S`, `trap.c` | `proc[]`, `cpus[]`, `wait_lock`, `nextpid` | one scheduler per CPU, one kernel thread per process, timer interrupts |
| spinlocks, traps, clock | `spinlock.c`, `trap.c`, `sysproc.c` | `locked`, `noff`, `intena`, the enable bit, `ticks` | CPUs, timer, sleepers |
| sleep locks, buffer cache | `sleeplock.c`, `bio.c` | `bcache` list, `refcnt`, `valid` | processes |
| write-ahead log | `log.c` | `log`, header and log blocks on disk | FS system calls, recovery at boot |
| virtio disk | `virtio_disk.c` | descriptors, avail and used rings | processes, the device, its interrupt |
| inodes, directories, paths | `fs.c`, `sysfile.c` | `itable`, bitmap, disk inodes | FS system calls |
| open files, pipes | `file.c`, `pipe.c`, `sysfile.c` | `ftable`, `ofile[]`, `struct pipe` | processes |
| memory | `kalloc.c`, `vm.c`, `exec.c`, `proc.c` | free list, page tables | processes |
| console, uart | `console.c`, `uart.c` | input ring, transmit ring | processes, interrupts, the UART |
| user allocator, `grep`, shell | `user/umalloc.c`, `user/grep.c`, `user/sh.c` | free ring; line buffer; command tree and processes | a process each; the shell's children |
| system call dispatch, start-up, PLIC, `printf` | `syscall.c`, `start.c`, `main.c`, `plic.c`, ... | none that is shared here | boot, each process |
| other programs, `mkfs` | `user/`, `mkfs/` | clients of the kernel | |

How they interact: a system call enters through a trap and is preempted by
timer interrupts wherever no spinlock is held. An FS system call is a
transaction of the log; the log writes through the buffer cache and *pins*
buffers there so that they are not recycled before they are installed; the
cache reads and writes through the disk driver; the driver sleeps until the
disk's interrupt. `fork` and `exit` copy and close descriptors and copy and
free memory; pipes, the console and the clock use `sleep` and `wakeup`.

What is hard to test: a wakeup between a test and a sleep, a thread that still
stands on a stack another CPU is about to reuse, a power failure between two
disk writes, completions out of order, a reference dropped twice on an error
path, the last page or block taken by somebody else half way through a call,
counters that wrap. `hazards` in `PROJECT.json` lists them line by line.

## 2. Modules

| module | what it is | code |
|---|---|---|
| `Proc` | process table, schedulers, sleep and wakeup, fork, exit, wait, kill, preemption | `proc.c`, `trap.c` |
| `ProcTree` | what it promises: a family tree with fork, exit, reparenting and reaping | |
| `Cpu` | `push_off`/`pop_off`, trap handlers, the clock, `sys_sleep` | `spinlock.c`, `trap.c`, `sysproc.c`, `proc.c` |
| `Log` | `log.c` with crashes and recovery | `log.c` |
| `AtomicLog` | what it promises: system calls whose updates become durable together or not at all | |
| `Virtio` | descriptors, rings, interrupt handler, and the device (external) | `virtio_disk.c` |
| `BlockDev` | what it promises: each request transfers one block once, before it returns | |
| `Bcache` | `bget` ... `bunpin` and sleep locks, over the steps of `BlockDev` | `bio.c`, `sleeplock.c` |
| `BlockCache` | what it promises: `bread` returns the block's contents to one holder at a time; what is pinned or held is not dropped | |
| `Inodes` | inode table, block and inode allocation, directories, path names and the calls on them | `fs.c`, `sysfile.c` |
| `Files` | file table, descriptors, pipes | `file.c`, `pipe.c`, `sysfile.c` |
| `Memory` | page allocator, page tables, sbrk, fork, exec, exit | `kalloc.c`, `vm.c`, `exec.c`, `proc.c` |
| `Console` | console and UART, with the device (external) | `console.c`, `uart.c` |
| `Tty` | what it promises: an editable line, ended input in order, output in order | |
| `Heap` | `malloc` and `free` | `user/umalloc.c` |
| `Grep` | the matcher and the loop over a file, with a reference matcher | `user/grep.c` |
| `Shell` | parser and execution of command lines, with a reference grammar | `user/sh.c` |
| `ProcInv`, `LogInv` | inductive invariants | |
| `ProcInvProofs`, `ProcProofs` | proofs about `Proc` | |
| `LogThreadProofs`, `LogInvProofs`, `LogProofs` | proofs about `Log` | |
| `BcacheProofs` | proofs about `Bcache` | |
| `VirtioProofs` | proofs about `Virtio` | |
| `CpuProofs` | proofs about `Cpu` | |
| `MCProc`, `MCLog`, `MCVirtio`, `MCBcache` | symmetry sets and the like for TLC | |
| `MCResources`, `MCInterrupts`, `MCPrograms` | `Inodes` and `Memory`; `Console` and `Cpu`; `Files`, `Heap`, `Grep` and `Shell` side by side | |

The storage layers are a chain. `Virtio` implements `BlockDev`; `Bcache` uses
`BlockDev`'s actions as its disk and implements `BlockCache`; `Log` assumes of
the cache what `BlockCache` says (an unpinned buffer may be dropped and read
again, a pinned one not) and implements `AtomicLog`; `Inodes` takes the
updates of a system call as what the log makes of them.

The last three MC modules hold several components, of which a variable that
never changes chooses one; the others stand still. The components of such a
module do not interact, and its state space is the sum of theirs.

### Atomicity

A critical section of a spinlock that acquires, works and releases is one
action whose guard is that the lock is free. Sections that stay open across
steps keep the lock visibly owned: `p->lock` through `swtch()`, `wait_lock` in
`exit()` and `wait()`, `pi->lock` in `pipewrite()` and `piperead()` (a `kill()`
may come between the test of `killed()` and `sleep()`), `cons.lock` and
`uart_tx_lock` while the device or another CPU can interfere. Loops over a
table that take a lock per entry are one step per entry. `bwrite()` is one
step of `Log` (it returns when the device is done) and several of `Virtio`.
`Cpu` looks inside `acquire()`: turning interrupts off is one step and getting
the lock the next.

### Proc

`state`, `chan`, `killed`, `pid`, `parent` are the fields of `struct proc`;
`cproc` and `plock`, `waitLock` say which CPU is on which stack and owns which
lock; `pc`, `idx`, `widx`, `np` are the thread's place and locals; `inyield`
says that it is inside `yield()`. `SchedSkip` and `SchedRun` are the loop of
`scheduler()`, `Swtch` is `sched()`, the `Fork*`, `Exit*`, `Reparent*`,
`Wait*`, `Kill*` actions follow the functions of these names. Address spaces
and open files decide no branch here; that `kalloc`, `uvmcopy` and `copyout`
fail is kept.

### Cpu

`noff` and `intena` are `struct cpu`, `sie` the enable bit, `lock` the owner of
each spinlock. Contexts (processes and schedulers) have a place in their code,
`pc`, and one in the trap handler on top of it, `tr`. What is followed is
`acquire`, `release`, `sched()`'s saved `intena`, `usertrap`, `usertrapret`,
`kerneltrap`, `clockintr` with its `wakeup(&ticks)`, and `sys_sleep()`. The
clock is, for each sleeper, the ticks it still waits for.

### Log

The disk is `home`, `logblk` and `hdr`; `lh`, `outstanding`, `committing` are
`struct log`; `cache` and `pins` stand for the buffer cache. A crash keeps the
disk and restarts at `fsinit()`; it may come during recovery too. A header
write is one block write, as in the code.

### Virtio and Bcache

`Virtio` has the descriptor table, the rings with wrapping indexes, `info[]`
with `b->disk`, and the device as an external process that takes requests in
order, finishes them in any order and raises interrupts. `Bcache` keeps the
MRU list as a sequence. `kill()` wakes sleepers at any time (`KillWake`).
Ring entries and commands nobody reads again are forgotten.

### Inodes

`disk`, `bitmap` and `ent` are the disk, `mem`, `ref`, `valid` and `lk` the
inode table, `cwd` and `fd` the inodes that processes keep, `call` the locals
of the system call each is in. A walk along a path locks one directory after
the other; `unlink` and `create` hold a directory while they take a second
lock; `iput` may truncate and free. Directories and files grow block by block
(`addrs`), `DPB` entries to a block, up to `MAXFILE` blocks. Every allocation
of an inode or a block can find none left: for a new directory, for the entry
in its parent when the new directory has its block already, for a link, for a
write. `lost` and `stale` are history: entries that disappeared
with the directory they were made in, and that `..` of a removed directory was
followed.

### Files

`ref`, `ftype`, `fpipe`, `writable` are `struct file`, the pipe variables are
`struct pipe`, one per page. `closing` lists the files a call still passes to
`fileclose()`; `ending` is the copy `ff` that `fileclose()` hands to
`pipeclose()` after it dropped `ftable.lock`. `fork()`'s `filedup()`s are one
step, since they only raise counts that the caller keeps above zero. `missed`
is history: the readers that a killed writer left asleep. Taken
bytes and the fields of free files are forgotten.

### Memory

`nfree` is the length of the free list, `dirs` and `pte` the page-table pages
and the leaf entries of each page table, `scall` what each process is
allocating for. Each `kalloc()` is one step and may fail; the frees of an error
path belong to the step that takes it. `held` pages stand for pipes, which
share the allocator.

### Console

`buf`, `r`, `w`, `e` and `txBuf`, `txW`, `txR` are the rings with their
unsigned indexes, modulo `Wrap`; `thr` and `rhr` are the UART's registers. One
interrupt handler runs at a time, as the PLIC hands an interrupt out once;
readers and writers run besides it. Echo through `uartputc_sync()` takes no
lock and may meet a busy transmitter.

### Heap, Grep, Shell

`Heap` counts memory in headers, keeps the free ring of `next` and the sizes
in the headers, and lets `sbrk()` fail and the program call `sbrk()` itself.
`Grep` has the recursive matcher and the loop that reads pieces of any length
into a buffer of `BUFSIZE`. `Shell` takes a line as the tokens of `gettoken()`,
parses it as the code does, and runs it with processes that have descriptors;
`fork`, `pipe`, `open` and `exec` may fail. The process of a pipeline has both
ends of the pipe from `pipe()` until it closes them after the second `fork()`,
and a program that reads a pipe ends when nobody, that process included, can
write to it.

## 3. Runs

| run | checks | result |
|---|---|---|
| `proc_safety` | `StackExclusive`, `SchedLocks`, `NoLostWakeup`, `Family`, implements `ProcTree` | holds |
| `proc_live` | `RunnableRuns`, `WaitReturns`, `ZombieOnlyReaped` | holds |
| `proc_kill_free` | `UnusedNotKilled` | **violated** |
| `proc_kill_race` | `KilledLeavesWait` | **violated** |
| `log_crash` | `QuiescentDurable`, `UnpinnedClean`, implements `AtomicLog` | holds |
| `log_space` | `LogFits`, `SleeperHasWaker`, `SleeperWakes` | holds |
| `log_full` | `ReservationHonoured` | **violated** |
| `virtio` | `DescriptorsOwned`, `CompletionPending`, `DescWakeup`, implements `BlockDev` | holds |
| `bcache` | `OneBuffer`, `RefExact`, `SleeperHasHolder`, implements `BlockCache` | holds |
| `resources` | inodes: `InodeInUse`, `LinkCount`, `NoLockCycle`, `BlocksOwned`; memory: `PagesOwned`, `TableExact`, `MemoryStable` | holds |
| `interrupts` | CPUs: `IntrExact`, `TickWakes`; console: implements `Tty`, `ConsProgress` | holds |
| `programs` | files: `RefExact`, `PipeLives`, `PipeWakeup`, `PipeFifo`; `HeapExact`; `GrepExact`; `ShellExact` | holds |

What they show, beyond a unit test: that no wakeup is lost in `wait`, in the
log, for descriptors, for sleep locks, in pipes, on the console and in
`sys_sleep`; that nothing counted (files, inodes, links, blocks, pages,
buffers, descriptors) is leaked or given back twice on any error path or in
any order of calls; that a crash at any step leaves whole transactions; that
locks cannot be waited for in a circle along directories; and that the three
user programs compute what an independent definition says. Each property of a
run that holds has a mutant, a plausible mistake in the code that TLC shows to
break it.

### Bounds

- `proc_safety`: 2 CPUs, 3 slots (init, a child, a grandchild to be
  reparented), pids up to 3, so that the table is full and `fork` fails.
  `proc_live`: 1 CPU and 2 slots, with `kill`.
- `log_crash`: 3 calls writing up to 2 of 3 blocks, `MAXOPBLOCKS` 3,
  `LOGSIZE` 6: two calls fit, the third waits; groups commit and absorption
  happens. `log_space`: 5 blocks, so that the log can fill up to its limit.
  `log_full`: 3 calls that write the 2 blocks each reserves, to a log of 6, so
  that all of it is reserved.
- `virtio`: 7 descriptors, two chains and one left over, so that a partial
  allocation is undone; ring indexes wrap at 7; 3 processes, so that one waits
  for descriptors. The code's indexes are 16 bits and `NUM` 8.
- `bcache`: 3 processes, 2 buffers, 3 blocks: recycling, and `bget`'s panic
  with no buffer left, are reached. The panic stops the kernel, hence no
  deadlock check.
- `resources`, inodes: 2 processes, 3 inodes, 3 blocks of 3 directory entries,
  at most 2 in an inode, two names: beside `.` and `..` the second name in a
  directory takes a second block, and two new directories leave none for it.
  What the processes call, again and again and in any order, is one of three
  lists: directories that are removed while somebody is in them, with attempts
  to unlink `..`; files that lose their names while open or being linked; and
  too few inodes and blocks. Memory: 2 slots, 17 pages, page tables of three
  levels with 2 entries each, `sbrk` by 1 or 3 and down by 1 or 9 (more than
  there is) units of half a page; programs of up to two segments, also with
  the second below the first, and one argument; pipes hold 0 or 4 pages, so
  that each allocation of `fork`, `exec` and `sbrk` is the one that fails in
  some run. `ilock`'s panic and a process that finds no memory may stop
  everything, hence no deadlock check.
- `interrupts`: rings of 2 bytes with indexes modulo 4, so that they fill and
  wrap; one reader or one or two writers, with characters that end, erase and
  kill a line. 2 CPUs, 2 processes, of which one sleeps for up to 2 ticks.
- `programs`, files: 2 processes, pipes of 2 bytes with counters modulo 4,
  writes of up to 3 bytes. A write longer than the pipe matters: only then
  does a writer fill the pipe under a sleeping reader. 3 files: `pipealloc`
  fails after its first file. Heap: 10 units, requests of 1, 2 and 5 units,
  `morecore` of 4, so that a block is split, joined on either side, both and
  neither, and is larger than `morecore`'s least. Grep: all patterns of up to
  4 characters on lines of up to 3, and files of up to 6 characters in a
  buffer of 5, read in any pieces. Shell: all lines of up to 4 tokens, those
  with redirections and pipes of up to 5, and longer nested ones. Programs end,
  and a process may wait on a pipe for ever, hence no deadlock check.

### Fairness

`Proc`: strong fairness of each CPU's scheduler steps, of a thread's way
through `swtch()`, of its steps in the kernel, and of the timer interrupt. A
CPU executes whatever it runs, spinlocks are retried until they are free, and
the timer of `start.c` fires for ever; a lock that is free again and again is
assumed to be obtained in the end, which the amoswap loop gives only
statistically. No user program is assumed to make a call. `Log`: weak fairness
of recovery, of waiting in `begin_op`, of `end_op` and of commit. `Console`:
weak fairness of the steps of `consoleread`, `consolewrite` and the interrupt
handler, which are running kernel code, and of the UART finishing a byte.
Nothing is assumed of crashes, kills, evictions or typing.

## 4. Findings

1. `kill(0)` matches an `UNUSED` slot (pid 0) and marks it killed; the next
   process in that slot dies at its first trap (`proc.c:597`).
2. A `kill()` between `wait()`'s test of `killed(p)` and `sleep()`'s
   `acquire(&p->lock)` is not seen until something else wakes the process
   (`proc.c:427`).
3. `begin_op()` reserves all `LOGSIZE` entries but `log_write()` panics at
   `log.size - 1`, and `mkfs` makes both sizes equal: three calls that use
   their whole reservation panic (`log.c:220`). `AllButOneAlways`
   proves that it is the last reserved block and no earlier one.

Seen while modelling; no comment or test claims otherwise, and the properties
are stated around them:

- A writer killed in the middle of `pipewrite()` returns without
  `wakeup(&pi->nread)` (`pipe.c:85`); `PipeWakeup` excepts the readers that
  were asleep then (`missed`). `piperead()` consumes a byte before the `copyout()`
  that may fail on it.
- `..` of a removed directory names an inode that may be free by then; to
  follow it panics in `ilock()` (`stale` in `InodeInUse` and `LinkCount`).
  Entries made in a removed directory are lost with it, and their inodes keep
  the links (`lost` in `LinkCount`).
- As long as characters arrive, their echo may find the transmitter free each
  time and leave it busy whenever `uartstart()` looks; `ConsProgress` excludes
  endless typing.
- `grep` stops at a line that fills its buffer; `GrepExact` is about the lines
  before it.
- Of two redirections of one descriptor the shell ends up with the first,
  because the last one is the outermost command and is applied first; and
  `a & b` is a syntax error. `ShellExact`'s grammar says the same.

## 5. Proofs

All for every value of the constants, from the named assumptions of `Proc`
(`NPROC` positive, `Null` neither a CPU nor a number), `Log` (`Boot` is not a
system call, `0 < MAXOPBLOCKS <= LOGSIZE`, `Size` positive), `Bcache`
(`None` is no process, buffer or block; processes and buffers are finitely
many), `Virtio` (`NUM` at least 3, the width `Wrap` of the ring indexes a
multiple of it, as 2^16 is of 8; `None` is no buffer, number or request) and
`Cpu` (`NTHREAD` positive, `Null` no number). Every run that uses such a module
evaluates its assumptions.

**Proc.** The invariants are not inductive alone. `ProcInv` adds three layers:

1. `LockInv`: `p->lock` is owned exactly by the CPU that is on `p`'s stack
   inside `sched()`, `wait_lock` by the CPU whose thread is in its section, and
   `p->state` determines where `p`'s thread can be. From it follow
   `StackExclusive` and `SchedLocks`.
2. `FamilyInv`: a parent has started, is alive and older than its children;
   how far `reparent()` has come; pids in use are distinct and below
   `nextpid`. From it follow `Family` and `PidUnique`.
3. The wakeup layer: a parent asleep with a `ZOMBIE` child has a wakeup under
   way by a holder of `wait_lock`. From it follows `NoLostWakeup`.

Most of the forty actions disturb little, and the proofs say so once: a frame
(`Calm`, `Quiet`, `Plain`) describes a step that cannot hurt a layer, one lemma
shows that such a step keeps the layer, another that these actions are such
steps, and only the rest have a lemma each. `ProcInvProofs` does this for the
family and wakeup layers, `ProcProofs` for the types and the locks, and then
concludes the theorems, `ZombieOnlyReaped` and the refinement of `ProcTree`
included.

**Log.** `LogInv` says who is where (recovery excludes system calls, a commit
excludes everyone else), what header, log and home blocks hold in each phase
of a commit and of recovery, and which blocks are pinned. `outstanding` is
related to the running calls by an enumeration rather than by `Cardinality`.
From it follow `UnpinnedClean`, `QuiescentDurable`, `SleeperHasWaker`, and that
`Log` implements `AtomicLog` with crashes at every step.

The space in the log is a second invariant, `SpaceInv` in `LogProofs`.
`begin_op()` adds `(outstanding + 1) * MAXOPBLOCKS` to what is in the log; what
has to stay below `LOGSIZE` is a sum over the running calls of what each may
still write. That sum is the cardinality of the set `Reserved` of pairs of a
call and an entry it has not used, so that a step adds or removes known pairs
and no induction over calls is needed. If calls write at most `MAXOPBLOCKS`
blocks the log and `Reserved` fit in `LOGSIZE` (`SpaceAlways`). What the panic
in `log_write()` tests is the smaller `log.size - 1`; the two theorems about it
carry hypotheses that say when it is enough:

- `LogFitsAlways`: every call writes fewer blocks than it reserves
  (`OpBlocks < MAXOPBLOCKS < LOGSIZE <= Size`, the case of `log_space`).
  `RoomInv` alone is not inductive for this: a call alone in the log has
  nobody else's unused entries to draw on, which is what `SlackInv` is about.
- `AllButOneAlways`: calls may write all they reserve, to a log like the one
  `mkfs` makes (`OpBlocks <= MAXOPBLOCKS`, `LOGSIZE <= Size`). When `log_write()`
  would panic, `Reserved` has one member at most; `log_full` shows that it can
  have one.

**Bcache.** `CacheInv` in `BcacheProofs` says where a process is when it uses
a buffer or has its lock, that buffers have different blocks and pinned blocks
have one, and that `refcnt` is the number of users plus the pin: a buffer with
`refcnt` 0 has no user, so recycling it takes nothing from anybody. From it
follow `OneBuffer`, `RefExact` and `SleeperHasHolder`. For the refinement of
`BlockCache`, `IoInv` adds that the owner of a lock is
where it uses the buffer, that a buffer is valid when its holder has read it,
and that the requests of the disk are those of holders; every step is then a
step of `BlockCache` on the one block that it is about.

**Virtio.** `IInv` in `VirtioProofs` says that the chain of a submitted request
has three descriptors, which no other request and not the free list has
(`ChainInv`); that `info[]`, the descriptors and the caller agree on buffer and
block (`CallerInv`, `CommandInv`); that a ring never holds `NUM` entries and has
no entry twice between its two indexes, modulo `Wrap` (`AvailInv`, `UsedInv`);
that the entries of the avail ring, what the device has taken and the entries
of the used ring are together the unfinished requests (`PlaceInv`); and that an
entry the driver has not seen has an interrupt to come (`NoticeInv`). The rings
cannot overflow because each entry is the head of a different chain of three.
From it follow `DescriptorsOwned` and `CompletionPending`, and with the
allocation of three descriptors in one section also `DescWakeup`. The refinement
of `BlockDev` takes as done what is in the used ring or no longer in `b->disk`.

**Cpu.** In `CpuProofs` the place of the context that a CPU runs, its label in
its own code or in the handler on top of it, determines everything else: how
many locks the CPU holds and spins for (`Depth`), which (`HeldAt`, `SpunAt`),
and whether interrupts are on now or will be after the last `pop_off()`
(`IntrOK`). A handler interrupts only code without locks (`ContextOK`);
what `sched()` keeps in a local variable is the `intena` of the context and not
of the CPU (`SavedOK`); a process runs on one CPU, whose scheduler waits in
`swtch()` (`RunOK`). `IntrExact` needs all of these together, because a context
switch moves a held lock from one context to another and `noff` stays with the
CPU. For `TickWakes`, `TickOK` adds that a process on its way to sleep has ticks
to wait for as long as it has `tickslock`, and that afterwards `clockintr()`
cannot pass it before `p->lock` is free. Each step is described by what it does
to the locks (`IntrStep`), to the places (`WhereStep`) and to the processes
(`SleepStep`), which leaves to be shown what it means for its own CPU
(`FrameKeeps`).

`TypeCorrect` (of `Proc`, `Log` and `Cpu`), `PidSafe`, `SpaceAlways` and
`AllButOneAlways` are proved and are in no run; the last was checked with TLC on
the instance of `log_full`. The inductive invariants `IInv` of `Cpu` and `Virtio`
were checked with TLC on the instances of their runs before they were proved.

**Only model-checked.** Liveness (out of the prover's reach): `RunnableRuns`,
`WaitReturns`, `SleeperWakes`, `ConsProgress`. `HeapExact`, `GrepExact` and
`ShellExact`, which are about recursive operators or need induction over lists
and lines. Everything about `Inodes`, `Memory`, `Files` and `Console`, its
refinement of `Tty` included: within the prover's reach, but not done.

## 6. Not modelled

- System call dispatch and argument fetching, `copyin` and `copyout`:
  sequential decoding that changes no shared state. The models let a program
  make any of their calls at any time.
- Registers and assembly, the layout of a PTE, start-up, the PLIC's registers,
  `printf` and the string routines.
- Indirect blocks, file sizes within a block and offsets; a full inode table
  (`iget`'s panic), since `itable` has room for every inode of `Inodes`.
- In `Cpu`, `wait_lock` in `exit()`: nobody waits for it there, and `Proc` has it.
- In `Heap`, requests of 2 GB and more, for which `nbytes` or the `int` argument
  of `sbrk()` overflows.
- The characters of a shell token, the reading of a line and `cd`.
- `mkfs`, whose image is the initial disk; the ramdisk, which is not linked;
  the other user programs and the tests, which are sequential clients.
- A whole system made of all modules: the abstract specifications connect the
  storage layers, but no run composes, say, processes with files.
