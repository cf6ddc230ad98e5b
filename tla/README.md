# Verification of xv6 and of the CS537 course code

The repository holds the xv6 teaching operating system (`src/xv6`, x86, several
processors) and the example programs of a course (`src/w1` ... `src/w13`). This
directory models the parts of it in which several actors share state or in which
a piece of sequential code is easy to get wrong, checks the models with TLC, and
proves seven of them with TLAPS: the spin locks, the scheduler, the process table,
the pipes, console input, the buffer cache with its disk driver, and the
write-ahead log.

## The system and its parts

The kernel is a stack of mechanisms, each of which relies on the one below:

| Part | Code | Modules |
|---|---|---|
| Spin locks and interrupt nesting | `spinlock.c` | `Cli`, `SpinLock`; `InterruptProofs` |
| Start-up of the processors, first memory | `main.c`, `mp.c`, `lapic.c`, `entryother.S`, `kalloc.c` | `Boot` |
| Real-time clock | `lapic.c` | `CmosTime` |
| Scheduler, sleep, wakeup | `proc.c`, `swtch.S`, `trap.c` | `Cli`, `Sched`; `SchedProofs` |
| Life of processes: fork, exit, wait, kill | `proc.c`, `sysproc.c`, `trap.c` | `Proc`; `ProcProofs` |
| Pages, address spaces, exec | `kalloc.c`, `vm.c`, `exec.c` | `Vm` |
| Pipes | `pipe.c` | `Pipe`, implementing `ByteQueue`; `PipeProofs` |
| Console input | `console.c` | `Console`, implementing `LineInput`; `InterruptProofs` |
| Disk driver, buffer cache, sleep locks | `ide.c`, `bio.c`, `sleeplock.c` | `Bcache`; `BcacheStepProofs`, `BcacheProofs` |
| Write-ahead log | `log.c` | `Log`, implementing `AtomicDisk`; `LogOpProofs`, `LogProofs` |
| Inode cache and link counts | `fs.c`, `sysfile.c` | `ICache` |
| Directories, path names and their system calls | `fs.c`, `sysfile.c` | `Namespace` |
| Contents of files | `fs.c`, `file.c` | `FileData` |
| Open files and descriptors | `file.c`, `sysfile.c`, `pipe.c` | `FileTable` |
| Shell and init | `sh.c`, `init.c`, `ulib.c` | `ShellSyntax`, `ShellGrammar`, `Shell` |
| User allocator | `umalloc.c` | `Umalloc` |
| Filters: cat, wc, grep | `cat.c`, `wc.c`, `grep.c` | `Filters` |
| CLOCK eviction (week 11) | `w11/clock-example.c` | `Clock`, implementing `SecondChance` |

`PROJECT.json` maps every definition to the lines it stands for, lists the
parts with their status, and lists the hazards of the code with the properties
that would catch them.

## Conventions

* Definitions have the names of the code's functions; where a function gives
  up a lock or waits, it is split, and the parts are `f`, `f_part`.
* A critical section of a spin lock is one action. `SpinLock` is what justifies
  it: the lock excludes other CPUs and handlers. Likewise `sleep(chan, lk)` is
  one step wherever `lk` is held, which is what `Sched` shows. The exception is
  kept because another lock makes it visible: `kill` takes only `ptable.lock`,
  so in `Pipe`, `Console` and `Proc` it can come between a test of `killed` and
  the `sleep` after it.
* A `panic` sets `panicked`, after which nothing else happens. A module's `Inv`
  says that none is reached or, where the code can run out of something, that
  the panic is only reached when it has: no buffer (`Bcache`), no inode (`ICache`),
  no page left under a process (`Vm`), no parent directory (`Namespace`).
* Operators commented `Variant:` are plausible errors: each property is broken
  by one of them, which shows that the property depends on that piece of code.
* Data is abstracted to what properties tell apart. The bytes of files are the
  number of the file written to, blocks hold one of two values, and sizes in
  `Vm` are in half pages so that they need not be aligned.

## Modules

**Cli, SpinLock.** A CPU runs a kernel thread and, on top of it, an interrupt
handler. `acquire`, `xchg`, `acquire_record`, `release`, `release_store` are
the instructions other CPUs can see apart; `myproc` is a `pushcli`/`popcli`
pair without a lock. Callers take locks in the order `Rank`.

**Boot.** The boot processor walks the MP table, frees the pages below 4 MB
(`kinit1`, no lock), starts the others one after the other through the word at
`code - 4`, frees the rest (`kinit2`) and only then uses the allocator's lock.
The others run from `entryother.S` through `mpenter` and `mpmain` at their own
speed. The tables of the instance have more processors than `NCPU`, the boot
processor alone or second, an entry of an unknown kind.

**CmosTime.** `cmostime` reads a clock that goes on by itself. The clock is
external: for a while around each second its registers read as anything, and it
announces that with UIP before. `PASS` is how many reads fit in between.

**Sched.** Every CPU has its scheduler loop, and each process its control point
in the pattern `acquire; while(!cond) sleep; release` or in a producer that
calls `wakeup`. `ptable.lock` is taken on one stack and released on another.
A timer preempts whatever runs with interrupts on; a device handler also
produces the condition.

**Proc.** The slots of `ptable` and the control point of the process in each.
Each failure of `kalloc` or `copyuvm` in fork is a branch; `init` follows
`init.c`.

**Vm.** The free pages and, for each process, its page directory as the pages
it owns. Loops take one step per page. A call that fails before it has
changed anything is a step that changes nothing. The shrink to size 0, which
`growproc` reports as failed after it has freed the pages, is a case of its own,
and the process goes on without pages (`emptied`).

**Pipe, ByteQueue.** `struct pipe` with counters that wrap at `UINT`. The
mapping takes the `nwrite - nread` bytes from `nread` on as the queue.

**Console, LineInput.** `struct input` with its indices `r`, `w` and `e`, which
wrap at `WRAP`. Keys are ordinary ones, those that erase a character or the
line, carriage return, newline, end of file and NUL. The mapping takes what is
between `r` and `w` as committed and what is between `w` and `e` as the line
being edited. `ConsoleLines` is `Console` with some of its names changed, so that it
can stand beside other modules.

**Bcache.** Buffers in LRU order, the request queue, and the disk's
interrupts. `log_write` stands for the log marking a buffer dirty.

**Log, AtomicDisk.** Transactions shared by concurrent calls, the commit one
disk write at a time, crash anywhere and recovery from it. The mapping takes
the home locations overlaid with the blocks a committed header names as what a
crash leaves.

**ICache, Namespace, FileData, FileTable.** Four views of the file system.
`ICache` takes `iput` apart and counts links; `Namespace` goes from one inode
lock to the next, so that every lock held while waiting is in it; `FileData`
follows blocks from the bitmap into files and back, with offsets shared by
processes; `FileTable` counts the references from descriptors to open files and
from those to inodes and pipe ends, through every failure of `open`, `dup`,
`pipe` and `fork`.

**ShellSyntax, ShellGrammar, Shell.** The recursive-descent parser over
tokens; a declarative grammar for it; and `runcmd` as the sequence of system
calls that a process still makes. What is typed is built up token by token in
`buf`. Any `fork`, `pipe` or `open` may fail. What a failed fork was to start is
remembered (`failed`), since the process that runs a pipe exits when it cannot
fork the right side, and the shell then prompts while the left side still runs.

**Umalloc.** Headers with `ptr` and `size` on a heap that `sbrk` extends; the
program may call `sbrk` itself, so that the heap gets gaps.

**Filters.** One turn of a loop round `read` is a step, and `read` returns any
number of bytes, as a pipe does. `grep` drops a buffer in which there is no
newline; where that happened is remembered (`dropped`), and `Matches` says that
`grep` is right about what follows it of the line (`Seen`). It sees whole lines
when every read brings a newline, as the reads of a file do whose lines fit
the buffer.

**Clock, SecondChance.** The ring with its hand, against a FIFO queue in which
a referenced page is passed over once.

## Runs

Parts that have nothing in common but are small enough to be checked together
share a run: a selector (`part`, `stream`, `table`) is chosen initially and says
which of them a behaviour is about, while the others stay in their initial state.
The states add up and are not multiplied. A weakly fair part that is not
selected would rule the behaviour out, so fairness is either guarded by the
selector (`BootFairness`) or of actions that are disabled initially.

Sizes are distinct states, after the reduction by symmetry in `bcache`, `tables`
(the processes of `ICache`), `namespace` and `file_data`; none of these four checks liveness.

| Run | Instance | States | Shows |
|---|---|---|---|
| `processors` | 2 CPUs, 2 locks in order; 4 MP tables, up to 4 processors of which `NCPU` = 3 fit; a clock of 3 registers and 2 updates | 15 586 | exclusion, interrupts off in critical sections and given back after them, every lock is freed; the unlocked allocator loses no page, stacks are distinct, every processor starts; the date returned is one that the clock showed |
| `sched` | 2 CPUs, 2 processes | 92 384 | no stack used by two CPUs, states true under `ptable.lock`, `sched`'s own checks; the interrupt flag follows its thread; no lost wakeup; a runnable process runs |
| `proc` | 3 slots, pids to 4 | 134 888 | unique pids, living parents, fork returns its child, stacks and page directories owned; sleep in `wait` is justified; a killed process exits |
| `log` | 2 calls, 2 blocks, 2 values, 4 of 8 log blocks reserved for a call | 88 960 | atomic updates over crashes; write-ahead; durability when quiescent; a waiting call is woken |
| `streams` | pipe: 2 writers, 1 killable reader, ring of 2, counters mod 4, writes to 3 bytes; console: 2 readers, ring of 2, indices mod 4, 5 kinds of keys and both erasures | 169 064 | the pipe is a queue, nobody sleeps beside data or room, its page is freed once, end of file reaches the reader; the console is a line editor, nobody sleeps beside a line, a line reaches its reader |
| `bcache` | 2 processes, 3 buffers, 4 blocks of which 2 may be pinned | 561 473 | one buffer per block, holder has its block, valid data was read, queue is served, no panic but that of `bget` when no buffer is left, no lost wakeup; only a holder changes what readers get |
| `tables` | memory: 2 processes, 11 frames, 4 pages; inodes: 3 processes, 2 inodes, 3 entries; files: 2 processes, 3 open files, 2 descriptors each | 1 200 783 | each frame free or owned once, a failed call leaves memory as it was (but for the shrink to size 0); one counted entry per inode, written through, exact link counts, freed only when unused; open files counted by their descriptors, what they refer to is let go once |
| `namespace` | 2 processes, 2 names; 3 inodes with 16 calls, 4 inodes with those on directories | 2 944 851 | a name leads to an inode in use; directories form a tree; references are counted; while the disk has inodes, the one panic that can be reached is that at a removed parent |
| `file_data` | 2 processes; 2 files of a direct and an indirect block of 1 byte; 1 file of 1 direct and 3 indirect blocks of 2 bytes, chunks of 4 bytes | 1 612 190 | each block free or in one place; unlocked files have the blocks of their size; the blocks a chunk changes fit what the log leaves to a call; a file reads back its own bytes |
| `programs` | shell: 9 lines run, all of up to 5 of 9 tokens parsed, 8 processes; heap of 8 units, 3 requests; filters: texts of up to 5 characters, patterns of up to 4, buffer of 5; ring of 3 with 4 pages | 543 875 | the parser implements the grammar, programs have exactly the descriptors that the line says, the prompt waits for the foreground (but for the left side of a pipe whose right side could not be forked) and always returns unless init exits; the heap is divided into blocks in use and a sorted, joined list of free ones; cat and wc are right however their input is cut, grep about what it sees of each line; CLOCK is the second-chance queue |
| `namespace_deadlock` | as `namespace`, calls on one name | violation | `create` and `unlink` can wait for each other |
| `bcache_error` | as `bcache`, with disk errors | violation | a buffer is marked valid that was not read |

**Why these bounds are enough for the cases that matter.** Each is
small and chosen so that the contended case occurs. Two processes contend for every lock, and a
third (`ICache`) is between the two; a CPU can be interrupted while another
spins. A ring of two bytes is full, empty and wrapped within a few steps, and a
write of three must sleep; a console line of two fills the ring, which commits it
without a newline. Three buffers with four blocks force recycling, and with two
of them pinned for the log two processes run out of buffers. Eleven frames are few enough that pages run out in the
middle of fork, of growproc and of exec, and three open files and two descriptors
that both run out in the middle of `pipe` and of `fork` (TLC's coverage shows
these failing branches taken). Three inodes are a root, a directory in it and
something in that; a fourth lets a removed directory get a directory of its
own. The two inodes of `ICache` run out; three inodes with a cache of two entries,
where `iget` runs out too, were checked separately (3 458 727 states, five
minutes). A process that has shrunk to nothing does not grow again in the run
(`REGROW` = FALSE); that it does was checked with ten frames (897 515 states). A ring of three with four pages evicts. The file of one
direct and one indirect block allocates both kinds; with blocks of two bytes and
chunks of two blocks, a chunk that is not aligned changes three data blocks, the
indirect block, the bitmap and the inode, which is all of the `MAXOPBLOCKS` - 2 that
the log leaves to a call. A heap of eight units is
split, joined on both sides, and extended with a gap in it. The seven reads that `PASS`
allows between two updates of the clock are those of one turn of `cmostime`'s
loop, and an update can fall between any two of them; one changes every register. `log` has two blocks,
which exercises waiting for space and every cut of a commit; that the log is not
overfilled is what the theorem says for any size.

**Where deadlock is not checked.** `programs`, because nobody has to type and a
program is done at some point, and `namespace`, because the code can deadlock
(below). Modules whose system really may stop have an explicit step for the
states in which nothing is left to do.

## Fairness

* `SpinLock`: a context that can step does; `release` is strongly fair, as
  kernel code between acquire and release is straight-line or a bounded loop.
  `xchg` is only weakly fair, since nothing orders the CPUs that spin, and the
  property says what it excludes.
* `Boot`: every processor that has been sent its start-up interrupt runs, at
  some speed.
* `Sched`: CPUs in the kernel keep executing (weak), and an interrupt that is
  pending is delivered if interrupts are on again and again (strong).
  Individual fairness of contended locks is not assumed; this is why the
  liveness property is that a *runnable* process runs.
* `Log`, `Proc`, `Pipe`, `Console`: a process in the kernel keeps running, which
  is what `Sched` shows; a call comes to its `end_op`; the clock ticks. Users
  need not do anything, and nobody has to press a key.
* `Shell`: every process that can make its next call does; nobody has to type a
  line. A program that reads the console, however, is assumed to get its end of
  file: `InputEnds` makes only the input from a pipe depend on other processes.
* The other modules are safety only.

## What is proved

Twenty-six theorems, on 222 lemmas. They hold for every value of the constants
that satisfies the assumptions named with them. TLC finds each of the inductive
invariants to hold on the instance of its run, too.

### Spin locks

`InterruptProofs` proves, for any set of CPUs and locks and any order `Rank`,
from the assumption that `Rank` maps locks to naturals and that the two null
values are not among CPUs and locks:

* `SpinLockInv`: the invariant `Inv` of the run `processors`, with its parts
  `SpinLockTypeOK`, `SpinLockMutex`, `SpinLockInterruptsOff`, `SpinLockHolding`
  (`holding()`, which reads two words of a lock that others may be changing, is
  exact for its own CPU) and `SpinLockNoPanic` (no check in `acquire`, `release`
  or `popcli` fails);
* `SpinLockInterruptsRestored`: `InterruptsRestored` of the same run.

None is inductive alone. Mutual exclusion needs that `locked` is 1 exactly
while somebody owns the lock (`LockedIsOwned`), which needs that the argument
of a call in progress is the lock it has or wants (`CallArgument`). `holding`
needs that `cpu` is set exactly outside the two windows where a lock is owned
and the field is not, or not yet, right (`CpuFieldExact`). That interrupts are
off needs that `ncli` is the number of locks owned plus the calls in progress
(`NcliCounts`), and that `intena` remembers whether the CPU was in a thread or
in a handler (`IntenaRemembers`); and that a context which is not the running
one is idle with nothing held (`OthersIdle`). Their conjunction is `IInv`; the
proof has one lemma per action, and `IInvHolds` combines them.

### Scheduler, sleep and wakeup

`SchedProofs` proves, for any set of CPUs and a process table of any size:

* `SchedInductive`: the inductive invariant;
* `SchedInv`: the invariant `Inv` of the run `sched` (`sched()` reaches none of its
  panics, no two CPUs are on one stack, states are true whenever `ptable.lock` is
  free, the interrupt flag follows its thread);
* `SchedNoLostWakeup`: `NoLostWakeup` of the same run.

A lock that is taken on one stack and released on another cannot be described
by who called `acquire`. `LocksOf` says instead which locks a CPU owns from the
control point of whatever it executes, the scheduler's loop or a process, that
`ncli` is their number, and that interrupts are off while there are any. `Executes`
says what holds on a CPU between `swtch` into a process and `swtch` out of it,
`OffCpu` that a process no CPU executes has left through `sched()` or is new, and
`Saved` that what `sched()` keeps in its local `intena` is right for where the
process goes on. For the wakeups the statement has to cover processes between
their test of the condition and SLEEPING (`WakeInv`): there they hold `lk`, then
both locks, then `ptable.lock`, and so whoever makes the condition true comes
before the test or finds them asleep.

### Processes

`ProcProofs` proves, for a process table of any size, any bound `MAXPID` and any
set `CALLS` of what programs do:

* `ProcIdentities`: the invariant `Inv` of the run `proc`, of which
  `ProcMemory` is the part `MemoryOwned`;
* `ProcWait`: `SleepInWaitIsJustified`.

Here too the invariant needs strengthening. That pids are unique needs that they
are below `nextpid`, and that fork makes RUNNABLE only the slot that it took
itself (`ForkOwns`, `OneFork`): this is what holds while fork works on an
EMBRYO without `ptable.lock`. `ForkOwns` also says how far the slot has been
filled in, for the memory. That fork returns a child which is still there
(`ForkReturn`) needs that a free slot is nobody's child and that only a parent
reaps (`Parents`). That a zombie always finds its parent awake needs that
parents live and that nobody is its own parent; for the children of a process
that exits it needs that init lives (`InitLives`). Most actions do not touch
forks in progress, which is said once (`SameForks`, `SameForksInv`); the steps
of fork are proved on their own. The loops over `ptable` take the first slot
that fits, and `MinIn` shows that there is one.

### Buffer cache and disk driver

`BcacheStepProofs` and `BcacheProofs` prove, for any finite sets of processes and
buffers and any blocks and contents:

* `BcacheConsistent`: with however few buffers and with failing reads, a block never
  has two buffers, the buffer a process holds is that of the block it asked for,
  nobody sleeps on a free sleep lock, and the disk works through a queue of locked
  buffers whose owners sleep;
* `BcacheOnlyHolderChanges`: `OnlyHolderChanges` of the run `bcache`, if no read
  fails;
* `BcacheInv`: the invariant `Inv` of that run, if no read fails. It includes that
  no check of `brelse` or `iderw` fails and that `bget` panics only when
  every buffer is in use or dirty.

Nothing is assumed of the number of buffers: `param.h` has 30, with a log of 30
blocks and 64 processes, so that this kernel can run out of them when it is loaded
to its limits. A failed read marks its buffer valid (`bcache_error` below), which
is why two of the theorems assume that none fails.

The invariant says who refers to a buffer (`Owns`), that `refcnt` is the number of
those processes (`Refs`), that the lock belongs to one of them (`Locks`), what its
holder knows of the flags at each step of `bread` and `bwrite` (`Knows`), and that
the request the disk works on is still that of the queue's head (`Served`). From
these follow the checks of `brelse` and `iderw`: who calls them holds the
lock, and a buffer that is queued is not both valid and clean.

### Log

`LogOpProofs` and `LogProofs` prove, for any blocks and
contents, any finite set of processes and any sizes with `LOGSIZE` at most `NLog`
and `OpBlocks` at most `MAXOPBLOCKS` - 2:

* `LogIInv`: the inductive invariant;
* `LogInv`: the invariant `Inv` of the run `log` (no panic, a sleeper in
  `begin_op` has somebody to wake it, durability when no call is in progress);
* `LogWriteAhead`: a home location is overwritten only while the header on disk
  lists its block;
* `LogAtomic`: `Log` implements `AtomicDisk`, with crashes between any two disk
  writes, in commits and in recoveries alike.

The assumption on `OpBlocks` is what the code's callers satisfy: `MAXOPBLOCKS` is
10, and the largest call, a chunk of `filewrite`, writes at most four data
blocks, the indirect block, one bitmap block and one inode block. With one block
to spare instead of two, `log_write`'s comparison with `size - 1` can fail.

The argument has three parts. *Space* counts what `begin_op` has set aside: `Claims`
is a set of pairs of a call and a number, one for each block that the call may
still add to the log, and the blocks in the log and the claims together never
exceed `LOGSIZE`. A call that appends gives up one of its claims; two that are
never used keep `log_write` away from its panics. *Control* and `Headers` say for
each stage of commit and of recovery who can be inside a call (nobody) and which of
the two headers is empty. *Contents* says what the cache, the log and the home
locations hold: dirty buffers are those of the logged blocks, any other cached
buffer equals its home location, `write_log` has copied the blocks before `tail`,
`install_trans` has installed those before it. The refinement maps what a
crash would leave to the home locations overlaid with the log of a committed
header; `write_head` is then the step that commits, installing is invisible
because it writes to the home location what the overlay already shows, and erasing
the header is invisible because by then everything is installed.

### Pipes

`PipeProofs` proves, for any number of readers and writers
(at least one of each, nobody both), any ring smaller than the range of a `uint`
that it divides, and reads and writes of any length:

* `PipeRing`: the ring never holds more than `PIPESIZE` bytes, an end is open as
  long as somebody holds it, and the page is freed once, by the last to leave;
* `PipeInv`: the invariant `Inv` of `Pipe`, with it that nobody sleeps on a pipe
  that has something for them, when only readers are killed;
* `PipeQueue`: `Pipe` implements `ByteQueue`, whoever is killed.

`PipeInv` needs its assumption, because a killed writer returns without waking
the readers (`pipe.c:86`). That the ring's size divides 2^32 is what lets
`nread % PIPESIZE` go on without a jump when the counter wraps; the lemmas on
remainders at the beginning of `PipeProofs` say so, and everything else about
the ring follows from them and from `Used` being at most `PIPESIZE`. To be
inductive, the statement on sleepers has to cover those who have tested their
condition and not yet fallen asleep (`Waiting`). The refinement maps the queue
to the `Used` bytes that begin at `nread`: a write extends it at the other end,
in slots that `Apart` shows to be free, and a read drops a prefix.

### Console input

`InterruptProofs` also proves, for any set of readers, any keys, and a ring of any
size smaller than the range of its indices:

* `ConsoleNoLostLine`: `NoLostLine` of the run `streams`. The indices `r`, `w` and
  `e` stay in order and within a ring's length of each other, also when they wrap;
  no reader sleeps while a line is committed; and a full ring is committed, so that
  reader and user do not wait for each other when no more can be typed.

The invariant adds that a reader inside `consoleread` has bytes left to read, and
that one who is about to sleep, having seen nothing committed, is still right. That
`consoleread` stops at the first end of a line or of the file it finds is the one
step that needs a least element.

### Only model-checked

* Liveness (`EveryLockIsFreed`, `EveryProcessorStarts`, `RunnableRuns`, `KilledExits`,
  `WaiterIsWoken`, `ReaderGetsLine`, `PromptReturns` and the others): it depends on
  fairness, which is out of the prover's reach.
* What recursive operators compute, for which induction over data is
  needed: the shell's parser (`ParsesTheGrammar`, and `Shell`, which runs what it
  parsed: `WiredAsTyped`, `PromptAfterForeground`), `grep`'s matcher (`FiltersInv`)
  and the walk along the list of free blocks (`HeapInv`).
* Where the model counts with a sum over a set or takes a subsequence by a test,
  about which the provers know nothing: the owners of a frame in `Vm` (`Inv`), the
  reference counts of `FileTable` (`FilesCounted`), and the ring and queue of
  `Clock` (`RingInv`, `IsSecondChance`).
* `StartUp` of `Boot`, `ReturnsOneDate`, `NamesLeadToInodes`, `DirectoriesAreATree`,
  `BlocksAccounted`, `InodesCounted`, `FreedWhenUnused`, `FailureLeavesMemory`, and the
  refinement `IsLineInput`: nothing known stands in the way, they have not been
  proved.

## Where code and its documentation part

Met while modelling; the models follow the code. The first two are the runs
that end in a violation. Other properties are stated so that they hold of the
code.

* `sysfile.c:280`: `create` calls `iput` on the directory with the new inode
  locked, and `sys_unlink` locks in the other order: the two can wait for each
  other (`namespace_deadlock`), which `usertests.c:855` means to look for. A
  `link` to the name `.` of a directory waits for itself: `dirlink` finds the
  name and drops the directory, whose lock its caller holds (`fs.c:560`).
* `ide.c:122`: a failed read marks the buffer valid, against `bio.c:17`
  (`bcache_error`). The disk of the run `bcache` answers every read.
* `log.c:218`: the log holds one block less than `begin_op` and `param.h:11`
  assume, since the header is inside `sb.nlog`. Calls that used all of
  `MAXOPBLOCKS` could panic rather than wait; `LogInv` shows that calls which
  leave two blocks unused cannot. That a chunk of `filewrite` does so is
  `ChunkFitsLog` in `FileData`.
* `proc.c:489`: `kill` also matches the pid left in an UNUSED slot, and
  `allocproc` does not clear `killed`, so a process can be born killed.
* `pipe.c:86`: a killed writer returns without waking the readers of what it
  has stored. `pipe.c:107`: a kill between the test of `killed` and `sleep`
  wakes nobody; the victim waits for the other side of the pipe.
  The run `streams` kills readers of the pipe only.
* `fs.c:337`: two concurrent `iput`s can both see two references, and nobody
  frees the inode, against `fs.c:327`. `fs.c:132` says that `iput` clears
  `valid` at the last reference; it does so only when it frees the inode, and
  `iget` makes up for it.
* `sysfile.c:249`: `create` does not notice that the directory has been
  removed meanwhile, and leaves a file without a name; the link count in
  `Namespace` is therefore a bound, not an equality.
* `fs.c:309`: the `..` of a removed current directory may lead to a freed
  inode, and `ilock` panics.
* `proc.c:169`: shrinking to size 0 frees the pages and reports failure, with
  the old size kept; a `fork` before the next `exec` panics in `copyuvm`.
* `sh.c:111`: when the right side of a pipe cannot be forked, the process that
  runs the pipe exits without waiting for the left one.
* `init.c:25`: `init` exits when fork fails, and the kernel panics
  (`proc.c:235`); `Proc`'s invariant says that only trouble of init itself
  leads there.
* `grep.c:29`: a read that brings no newline is dropped, together with what was
  kept before it, so a line loses its beginning when such a read ends inside it.

## Not modelled

* Hardware set-up that runs once, in one order: the boot loader (`bootasm.S`,
  `bootmain.c`, `entry.S`), the interrupt controllers (`ioapic.c`, `picirq.c`, the
  set-up half of `lapic.c`), segments, and the search for the MP structure.
* `memide.c`, one synchronous copy without interleavings.
* Output and its formatting (`cprintf`, `printf`, the CGA, the serial port), the
  keyboard's scan codes, string functions.
* Fetching of system-call arguments from user memory, which returns a value or
  fails without a change of state; modules have the failure where it matters.
* `mkfs` beyond the state it leaves, which is where `Log`, `Namespace` and
  `FileData` start.
* The tests (`usertests.c`, `forktest.c`, `stressfs.c`) and the programs that
  make one call each (`ln`, `rm`, `mkdir`, `kill`, `echo`, `ls`, `zombie`).
* The demonstrations of the other weeks, a library call each.
* Exhaustion of the disk's blocks: `balloc` panics, and `FileData` has room for all
  files. That `ialloc` panics without a free inode is in `ICache`; `Namespace`
  goes on only while there is one.
* Errors of `ide.c`'s callers that `Bcache` cannot make: a block beyond `FSSIZE`
  (`ide.c:78`) and a second disk that is not there (`ide.c:146`).
* The compositions that would replace an assumption of one module by another
  module: `Log` takes from `Bcache` that a dirty buffer stays cached, and the file
  system modules take from `Log` that a call is atomic. The product of their
  states is beyond what TLC can go through.
