# A verification of the ucore kernel

The repository holds the stages `lab0` .. `lab8` of a small teaching operating
system for RISC-V. Each stage contains the one before it; the models follow the
last one, `src/riscv64-ucore-labcodes/lab8`, and every path below is relative to
that directory. The kernel runs on one CPU. Concurrency comes from the timer
interrupt, from processes that give up the CPU inside a system call, and from
kernel threads that are interrupted between any two instructions.

## 1. Inventory

| component | state | operations | works with |
|---|---|---|---|
| process life cycle (`kern/process/proc.c`) | `proc_struct`s, the process list and the parent/child/sibling pointers, `current`, `nr_process` | `do_fork`, `do_exit`, `do_wait`, `do_kill`, `do_sleep`, `do_yield`, `do_execve`, `init_main`, `cpu_idle` | scheduler, timers, memory, files |
| core scheduler (`kern/schedule/sched.c`) | run queue, `need_resched` | `wakeup_proc`, `schedule`, `sched_class_proc_tick` | scheduling class, context switch |
| kernel timers (`kern/schedule/sched.c`) | a delta list of `timer_t`, each in the stack frame of a `do_sleep` | `add_timer`, `del_timer`, `run_timer_list` | timer interrupt, `wakeup_proc` |
| stride scheduler (`kern/schedule/default_sched_stride.c`, `libs/skew_heap.h`) | a skew heap ordered by 32-bit strides | `stride_enqueue`, `stride_dequeue`, `stride_pick_next`, `stride_proc_tick` | core scheduler |
| traps (`kern/trap/trap.c`) | trap frames | the IRQ_S_TIMER case, `trap`'s end | everything |
| semaphores, wait queues (`kern/sync/sem.c`, `wait.c`) | `value`, a list of `wait_t`, each in the frame of a `__down` | `down`, `try_down`, `up` | `wakeup_proc`, `schedule` |
| monitor (`kern/sync/monitor.c`) | `mutex`, `next`, `next_count`, one semaphore and count per condition | `cond_wait`, `cond_signal`, entry and exit code of the procedures | semaphores |
| philosophers (`kern/sync/check_sync.c`) | `state_sema`, `state_condvar` | taking and putting forks, with semaphores and with the monitor | semaphores, monitor |
| context switch (`proc_run`, `forkret`, `switch.S`) | satp, TLB | `proc_run`, `forkret` | scheduler, page tables |
| process table and pids (`get_pid`, `set_links`, `remove_links`) | `proc_list`, `cptr`/`optr`/`yptr`, `last_pid`, `next_safe` | `get_pid`, linking and unlinking | fork, exit, wait |
| physical memory (`kern/mm/pmm.c`, `default_pmm.c`) | free list, page reference counts | `alloc_pages`, `free_pages` | swap |
| virtual memory (`kern/mm/vmm.c`) | `mm_struct`, vma list | `mm_map`, `dup_mmap`, `exit_mmap`, `do_pgfault` | pages, swap |
| page replacement (`kern/mm/swap.c`, `swap_fifo.c`) | FIFO of pages | `swap_out`, `swap_in` | disk |
| open files (`kern/fs/file.c`, `fs.c`, `sysfile.c`) | file table, `files_struct` with a reference count | open, close, read, write, dup, fork and exit of processes | VFS |
| VFS (`kern/fs/vfs`) | inode reference and open counts, device list | lookup, open, close | SFS, devices |
| SFS (`kern/fs/sfs`) | inode cache, free map, on-disk blocks | read, write, load, reclaim | disk device |
| devices (`kern/fs/devs`, `kern/driver`) | keyboard ring buffer with a wait queue, disk buffer with a lock | read, write, interrupt | wait queues, semaphores |
| user programs, boot, debugging, libraries | - | - | - |

Hard behaviours: the timer interrupt in the windows between two sections with
interrupts off (`do_sleep`, `__down`, kernel threads in general); state that
another thread may change across `schedule()` (`do_wait`, `trap`'s look at
`PF_EXITING`, the monitor's hand-over); records that live in stack frames and are
linked into global lists (`timer_t`, `wait_t`); freeing what lists may still
refer to; modular arithmetic (strides, timer differences); values kept from one
call to the next and trusted (`get_pid`'s interval, a descriptor's position, an
inode in memory); calls that fail half way (`do_execve`, growth on a full disk). `PROJECT.json` lists
each hazard at its line with the properties that would catch it.

## 2. Modules and how they follow the code

**Process**. One action per system call, per section between
two calls of `schedule()`, and one for the timer interrupt. A trap clears
`sstatus.SIE` and nothing sets it again before the return, so a system call of a
user process is atomic up to its next `schedule()`. A kernel thread runs with
interrupts on, so the timer may hit it between any two steps; `trap()` switches
away only from user mode. `pc` names where a thread is:

| pc | code |
|---|---|
| `run` | user code or the body of a kernel thread |
| `tail` | the end of `trap()`, where `PF_EXITING` and `need_resched` are looked at |
| `wait` | label `repeat` of `do_wait` |
| `s_wait`, `s_sleep`, `s_read`, `s_loop`, `s_exit` | about to call `schedule()` in `do_wait`, `do_sleep`, `dev_stdin_read`, the loop of `init_main`, `do_exit` |
| `r_wait`, `r_sleep`, `r_read` | that call has to return |
| `dead`, `none` | after `do_exit`'s last switch; no such `proc_struct` |

The run pool is a bag with an arbitrary choice, so what is shown holds for every
scheduling class. `panic` records that a `panic()` or an assertion was reached;
nothing moves after it. Pids are the processes themselves. `sys_other` stands for
the calls that change nothing here: failing ones, reads that find their keys, the
other file calls. A read of stdin that finds too few keys (`sys_read`) sleeps. Whether
there are enough keys is arbitrary, because the keys are in Stdin; `wakeup_flags` is
what the `wait_t` in the reader's frame says, and `tick(typed)` is the timer
interrupt with a key from `cons_getc` or without one.

**Countdown**, **TimerList**. `TimerList` is the delta list with unsigned
differences up to `MaxExpires`; `Countdown` is what it promises: every process has a
countdown of its own. `When` adds the differences up to a position of the list; what
`add_timer`'s walk has left of the new timer's ticks is their difference to it. Process uses `Countdown`'s view (`timer`).

**Stride**. Strides of `Width` bits, the comparison by the sign
of the difference, the skew heap as a tree and its recursive merge. The history
variable `lead` is the distance in strides that a process is ahead, without
wrap-around.

**SemOps**, **SemClient**, **Semaphore**. `SemOps` is the
abstract semaphore the clients below use, a counter and a FIFO queue;
`SemClient` is a specification made of it. `Semaphore` is `sem.c` over `wait.c`:
the `wait_t` in the frame of `__down`, its flags, `wakeup_wait`, the assertions,
and `do_kill` at any time. It implements `SemClient` under the mapping
`Contract`.

**Monitor**, **PhilCondvar**. `cond_signal` and `cond_wait`, one step per semaphore
call, over `SemOps`, composed with the philosophers of `check_sync.c` that use
them. Every philosopher signals and waits, so a signaller, the thread it wakes and
a newcomer meet in the windows of the hand-over.

**ProcTable**. What Process takes for granted: that pids are unique and that the
children of a process are those whose parent it is. The loops of `get_pid` and of
`do_exit`'s reparenting are one step per turn; `proc_list` is a sequence in the
order `set_links` gives it, because `get_pid`'s walk depends on it. A `proc_struct`
is named by its pid, so a pid given out twice would merge two processes; `PidFresh`
excludes it at the moment `get_pid` returns.

**FileTable** (with `MCFileTable`). The descriptor tables of all processes, their
working directories, and for each inode the reference count, the open count, the
dirty flag, and what the disk lacks (`behind`): the size and the block pointers, or
the count of the blocks. A change of the first kind sets the dirty flag (`Touch`), one of
the count alone does not (`Count`); `GrowFails` is the seek past the end that runs out of
disk blocks half way. Actions: the file calls, `chdir`,
and what `do_fork`, `do_execve` (loaded, not found, refused), `do_exit` and
`do_wait` do with files. An entry of a table is the inode it is open on. `lost` is
a ghost: the counts that nobody can return any more because a `files_struct` was
dropped or an error path forgot one. Two calls are excluded, for which the kernel
has no operation and stops: `O_CREAT` of a name that does not exist, and
truncating a directory. The loops over a table (`CloseEach`, `DupEach`) are functions
of the number of entries they have passed.

**SfsFile**, **ByteFile** (with `MCSfsFile`). One regular file of SFS: direct
blocks, the indirect block, the free map, `sfs_bmap_*`, `sfs_io_nolock` with its
three kinds of pieces, `sfs_truncfile`, and the inode in memory against the one on
the disk. The operators have the names of the C functions and thread the file
system through; a failing assertion ends the run of the kernel (`halted`).
`ByteFile` is what users are promised: a sequence of bytes, and a position for each
descriptor.

A file call is one step in both. It runs with interrupts off or in a thread that
the timer does not switch away from, and it does not sleep: the disk is memory, so
`lock_sin`, `lock_sfs_fs` and the disk's lock are never found taken. What interleaves
are the calls of different processes.

**FirstFit**. The free list of `default_pmm.c` with the `next` and `prev` pointers
of `list.h`, because the two may disagree. `mem` holds the pointers, `property` and
the flag; `owned` is the set of pages handed out. A walk along the list is the
function `Walk`. The loop that inserts a block is given by where it stops
(`Inserted`), its extra turn at the end of the list included. The retry of
`alloc_pages` through `swap_out` is left out.

**Stdin**. The ring buffer of `dev_stdin.c`, `dev_stdin_write` from the timer
interrupt, readers that sleep on the wait queue, and `do_kill`. Keys are numbers in
the order of typing, so that what was read can be compared with what was typed.

## 3. Runs

| run | what it shows | bounds |
|---|---|---|
| `process` | the run pool is exact; every sleeper has a waker; nothing refers to a freed process; a timer lies in a live frame; every process has a live parent; every reader that sleeps is in the queue of the keyboard; zombies only leave through `do_wait`; no assertion fails; sleeps and waits return, kills are noticed | init and 2 slots (a parent and a child, a grandchild of init, reused after reaping), slice 1, sleeps up to 2 ticks |
| `semaphore` | permits conserved, FIFO, assertions, contract; `down` returns | 4 threads on 2 permits |
| `phil_condvar` | one thread in the monitor, exact counters, forks exclusive, Hoare's rule, everybody finishes | 4 philosophers (the smallest ring with two that are not neighbours), 2 meals each |
| `timer_list` | each timer goes off at its tick; no timer at 0 is met at the head | 3 timers, all sleeps of 3 bits (`MaxExpires` 7) |
| `stride_steady` | wrapped strides are ordered rightly, the heap is exact, nobody starves, when the processes start together | 3 processes, strides of 3 bits: they wrap every few steps |
| `first_fit_ample` | the free list holds exactly the free pages, in order and joined, while the highest page is never handed out | 5 pages: a block with a neighbour on both sides and one apart |
| `first_fit_full` (violation) | `default_check`'s assertions fail after memory was used up | 5 pages |
| `stdin` | keys are read once and in order, nobody sleeps past a key | 3 readers of up to 3 keys, a ring of 2, 4 keys: it fills, wraps and overruns |
| `stride_late` (violation) | with late forks or sleepers the root of the heap is not a minimum | 3 processes |
| `proc_table` | `get_pid` returns a pid that nobody has; the sibling lists are exact | 5 processes, pids below 7: pids wrap, `get_pid`'s walk starts over, children leave the middle of a list |
| `file_table` | counts equal the references that exist; a file nobody has open has its size and its block pointers on the disk | init and 2 processes, a file, the root and a directory, 3 descriptors each (two survive exec), one lost reference per inode |
| `sfs_file` | blocks behave as a sequence of bytes; none is lost or doubled; what an inode that is not marked dirty may have ahead of the disk; which assertions can fail | 2 descriptors, blocks of 2 bytes, 1 direct block and 2 behind the indirect one, a disk with 4 free blocks (the longest file fits) or any smaller number |

Bounds keep every case: three slots give reparenting and reuse of freed
processes; the one case they leave out, an orphaned zombie given to init by a
process that is not init's own child, is covered by the theorem
`ProcSleeperHasWaker`, which holds for any number of slots. In `sfs_file` a write
can touch one, two or three blocks, start and end on a border or not, pass from
direct to indirect blocks, and fail at each of its allocations; the free blocks
start with the bytes of an earlier file. The lengths of the writes differ, so that
a position tells which was done.

`file_table` and `sfs_file` declare symmetry of the process slots and of the
descriptors; their properties are invariants and properties of steps. The other
runs declare none. Deadlock is not checked where the system may stop: after a panic
or a failed assertion, when all philosophers have quit, and when the bounded
keyboard has no more keys.

### Disagreements with comments and assertions

- `default_sched_stride.c:113` says that `stride_pick_next` picks "the element
  from the run-queue with the minimum value of stride". The heap is built with a
  comparison that orders strides only while they lie within `BIG_STRIDE` of each
  other. `alloc_proc` gives a new process stride 0 and a woken process keeps the
  stride it slept with, so after some time strides lie further apart,
  the comparison is not transitive, and the root need not be a minimum
  (`stride_late`). For processes that start together `stride_steady` shows that
  `BIG_STRIDE` is small enough.
- The loop that inserts a block in `default_free_pages` (`default_pmm.c:142-150`)
  does not stop after it has linked the block behind the last one. It meets the
  block itself, adds it behind itself, and the block's `prev` points to itself. A
  later `list_del` then leaves the block in the list although it is handed out, and
  it is handed out again; `default_check` asserts that every page of the list has
  `PG_property` (line 239) and that the sizes add up to `nr_free` (line 242).
  `first_fit_full` shows it in five steps. The blocks are cut from their front, so
  the highest page is the last to be taken, and until then no block is released
  above all others: `first_fit_ample` shows that the allocator is right so far. The
  checks at boot do release a block above all others, but their next request
  removes the block below it, which repairs the pointer.

Some behaviours are worth knowing although they are stated by the properties and
not against them.

- Two assertions of SFS can fail (`FailsOnlyAfterDamage` says that no other can, and
  after what). Open a file, write two blocks or more, let a second open truncate it,
  and write through the first descriptor: its position is more than a block behind
  the end and `sfs_inode.c:473` stops the kernel. And: seek past the end on a disk
  that has some free blocks but not enough; the call fails and keeps the blocks, the
  size stays, and opening the (still empty) file with `O_TRUNC` stops at
  `sfs_inode.c:1257`.
- An inode in memory may be changed and not marked, although `sfs.h:85` says of the
  flag `dirty`: "true if inode modified". `sfs_bmap_load_nolock` adds one to
  `din->blocks` (`sfs_inode.c:492`) and leaves the flag alone. A block that an indirect
  block in use points to changes nothing else in the inode, and a seek past the end
  that runs out of blocks leaves (lines 1269-1272) before the flag is set (line 1290).
  The last close then drops the count. `OnlyCountUnmarked` says that this is all that can
  be lost: the size and the block pointers of an inode that is not dirty are those on the
  disk. The blocks that were added stay named by the indirect block, where the next growth
  finds them (`BlocksOwnedOnce`), and no byte of the file is lost (`ImplementsByteFile`).
  `Durable` says the same of the size and the pointers when the inode is shared by the
  descriptors of many processes.
- References are lost, for ever, in three ways (`RefsExact` counts them as `lost`):
  an exec whose program `load_icode` refuses, since `do_exit` calls `put_files` only
  for a process with an address space and the old one is gone; a kernel thread that
  ends; `O_CREAT|O_EXCL` on a name that exists (`vfsfile.c:63`). The note at
  `proc.c:1071`, "only after do_wait function, all resources of the child proces are
  free", does not hold in the first two.

`trap()` looks at `PF_EXITING` before its `schedule()`, not after, and `do_kill`
wakes a process only once. A process killed while it is ready or running dies at its next trap,
unless that trap is a `sleep`, a `wait` or a read of stdin that finds too few keys, in
which it first sleeps until it is woken in the usual way, by the timer, by a child or by
a key. `KilledRunnerNoticed` has these three exceptions. A reader of stdin
has a second such window: a key typed between the kill and its next run overwrites
the flags of its `wait_t`, and it may go to sleep again (the exception in
`KilledSleeperExits`). And
a key typed on a full buffer is stored in the place of the oldest one that was not
read (`dev_stdin.c:30` stores before it looks for room); `KeysInOrder` speaks of
the time before that.

## 4. Fairness

- Process: the timer interrupt is taken when it is possible again and again
  (`clock_init` arms it and each interrupt arms the next one); kernel code goes on
  (weak fairness of its steps); a process that is in the pool again and again is
  chosen (strong fairness of `ChosenNext`). The last one is a property of the
  scheduling class: `stride_steady` shows it for a steady load; `stride_late` shows
  why it is an assumption in general. A user program may do anything or nothing.
- Semaphore: a thread that is ready runs, and who is inside calls `up`.
- Philosophers: each goes on, its `do_sleep` ends (`SleepReturns`).
- ProcTable: the loops of `get_pid` and `do_exit` go on; nothing in them waits.
- Stdin, FileTable and SfsFile state safety only; that a killed reader returns is part of
  Process.
- Stride: the process on the CPU is rescheduled in the end (the time slice).

## 5. Proofs

The modules named `...Proofs` and `Induction` hold proofs that TLAPS checks; what
they state holds for every value of the constants, under the assumption named in the
module: `ProcAssumption` (init is a process, idle is not, finitely many slots, a time
slice of at least one tick), `SemAssumption` (what the semaphore starts with is a
number), `PidAssumption` (the `static_assert` of `get_pid`, that there are more pids
than processes), `PhilAssumption` (two philosophers or more), `StdinAssumption` (a
buffer of one key or more), `FileAssumption` (finitely many slots, a root directory,
room for stdin, stdout and one more descriptor; NULL is none of the names),
`TimerAssumption` (`MaxExpires` is positive), `FirstFitAssumption` (at least one page),
`SfsAssumption` (finitely many blocks, numbered above 0, the sizes are positive, what is
written are numbers).

**SemaphoreProofs.** The inductive invariant is `SemInv`: the types, no thread
twice in the queue (`QueueInjective`), how the `wait_t`, the wake-up flags and the
state of a thread go together (`SleeperShape`), `NoStrandedWaiter` and the
assertions. `NoStrandedWaiter` alone is not inductive: `up` hands the permit to the
head of the queue, and only `SleeperShape` says that this head sleeps with
`WT_KSEM` and has not been woken by anybody else, `do_kill` included. The number of
owners needs `PermitInv`, an argument about cardinalities. From the same invariant
follow `NoOvertaking`, a property of steps, and `ImplementsContract`: each step of
`sem.c` over `wait.c` is a step of `SemClient` or changes nothing it can see.

**ProcessProofs.** The inductive invariant is `ProcInv`. Besides the types and the
properties themselves it says:
- `Immortals`: idle and init never exit, and init waits for any child. The
  reparenting in `do_exit` relies on it.
- `Shape`: what `pc` says of `state`, `wait_state`, `timer` and `wakeup_flags`. `do_kill`,
  `run_timer_list` and `dev_stdin_write` look at `wait_state`, the timer list and the wait
  queue only; `Shape` is why they never wake a zombie.
- `OnCpu`: a thread on the CPU sleeps only where it is about to call `schedule()`.
  This is the window in which a timer may wake the current thread; it is why
  `wakeup_proc` may leave it out of the pool.
- `Rooted`: no set of processes without init is closed under parents. It is not
  among the properties, but `init_main`'s assertion that nobody is left when
  `do_wait` finds no child is wrong without it: a cycle of parents would never be
  given to init.
- `WaiterHasChild`: the half of `SleeperHasWaker` that is not in `Shape`.

There is one lemma per kind of step (`ForkStep`, `ExitStep`, `FoundStep`, ...);
`ScheduleEffect` is the argument that what `schedule()` puts back and takes out
balance. The theorems about all of Process's safety properties follow, and
`ProcZombieOnlyReaped` about its steps.

**ProcTableProofs.** `PidIsFresh` for all bounds. Between calls of `get_pid`
(`BetweenCalls`) no listed process has a pid strictly between `last_pid` and
`next_safe`; during the walk (`InWalk`) this is known only of the processes already
passed, and none of them has `last_pid`. `PidFresh` needs it because most calls
return without a look at the list. Forks, exits and waits must keep it: a fork adds
`last_pid` itself, which is not strictly above it, and the others only take pids out.

`FamilyIsExact` is about the sibling lists. `FamilyExact` speaks of a whole walk, so it
is not inductive; `Links` is what the pointers are locally: `optr` and `yptr` are each
other's inverse between siblings, `cptr` and `parent` at the head of a list. Locally
right pointers could still form a ring of siblings that no walk from `cptr` meets, so
`Ranked` adds a rank that falls along `optr`; a process gets the highest rank when it
becomes the youngest child, and nothing else has to change ranks. `Unlinked` and `Linked`
are the two operations on such lists. `set_links` is one, `remove_links` the other, and a
turn of `do_exit`'s loop is both. In that loop the child at the head keeps a `yptr` of
the time when it was not the head; `Younger` says in which state that is so. The rest is
control: a zombie has handed over its children (`Zombies`), so that nobody is left with
it as parent when it is reaped, and init is the first process and never goes
(`InitFirst`). From `Links` to the walk: it meets children only (`WalkMeets`), never twice
since ranks fall (`WalkFalls`), ends within `MAX_PID` turns by the pigeonhole principle
(`WalkEnds`), and misses nobody, since of the missed children one has the highest rank
(`Reached`).

**PhilCondvarProofs.** The invariant of the monitor is `MonInv`. `OneHand` is
`OneInMonitor` without counting: one thread is active and no permit is free, or no
thread is active and one permit is. It is kept because each queue holds only threads
that sleep in a `down` of that semaphore (`QueueExact`), so an `up` hands the monitor
to one of them. `CountersExact` follows a thread from the increment to the decrement.
For the philosophers, `WaitInv` is the chain from the signal to the return: a permit of a
condition's semaphore, or a thread back from its sleep, means that its philosopher is
marked EATING, and the mark stays because only he himself takes it off. `ForksExclusive`
is inductive with it: a mark is set only when both neighbours are not EATING.

**AllocatorProofs** (the two allocators, of pages of memory and of blocks of the disk).

*FirstFit.* `BlocksExact` and `MaximalBlocks` for any number of pages, under
`AmpleSpec`: memory is never used up, the case in which the code is right (see the
violation `default_check`). Both properties speak of whole walks along the list, and
neither is inductive. `FitInv` speaks of single pointers and pages. `Ring`: `next` and
`prev` are each other's inverse on the flagged pages and the header, and `next` leads from
each to the lowest one above it; from this follows that the walk meets every flagged page,
in order, and comes back (`RingWalk`). `Tiles`: the blocks are disjoint, and the pages that
are not handed out are exactly those in a block. `Apart`: no block ends where another one
begins. An allocation cuts a block from its front (`TilesCut`). A free inserts a block
before the lowest one above it (`RingAdd`), which exists because the highest page is free,
and then joins it with its two neighbours in the list (`JoinStep`); `Apart` held before,
so no other two blocks can touch (`CoalescedApart`).

*SfsFile.* `BlocksOwnedOnce` for every disk and every layout of the inode. `Map` is the
block map as one function, from the places that may name a block (the indirect block is
place -1) to blocks; `Exact` says of it that every block is free, another file's, or
named by exactly one place. Alone that is not inductive: the last close drops the inode,
and the next open takes the one on the disk, so `Kept` adds that the two name the same
blocks unless the one in memory is dirty. `Good` is what a whole call must keep at each
of its stages, whatever error it will return, unless an assertion has stopped it. There is one
lemma for each of the C functions, from `sfs_block_alloc` (`Alloc`) through
`sfs_bmap_get_sub` (`GetSub`, with the indirect block that is given back when no block is
left for its first entry), `sfs_bmap_load` and the truncation, up to `sfs_io` and
`sfs_truncfile`. What changes the map changes one place of it (`SetDirect`, `SetEntry`).
A write into a data block leaves the map alone because a data block is not the indirect
one, which `Exact` itself says (`BufOp`); that it stays inside its block is arithmetic on
the pieces (`PiecesTyped`). The loops keep `Good` by induction over their turns
(`LoopGood`), so a file that is out of space in the middle of a write is covered too.

What is in the blocks needs more: `ReadsExact`, `FailsOnlyAfterDamage` and the refinement
of `ByteFile` rest on `FileInv`. `Filled`: the file has no holes, the blocks that its inode
counts are named. `Sized`: they are enough for its bytes. `Zeroed`: behind the end of the
file, in its blocks and in those it has not got, a byte is 0 (`At` reads a place that
names no block as 0, so the cleared block that fills the place later changes nothing).
This is why a gap reads as 0. It would be false if truncation left bytes behind in a last
block that is kept, but the only truncation that a call can ask for is to 0. `DiskKept`: the inode on the disk has the same
size, and enough blocks but no more than the one in memory counts, when that one is not
dirty; with `Kept` this is `OnlyCountUnmarked`. `Reached`: a descriptor stands
at an offset that the disk had the blocks for, because the blocks of the file and the free
ones together (`Fits`) never get fewer. It is needed for the write that starts behind the
end and gets no block: `sfs_io_nolock` then sets the size to the start of the write, and
only `Reached` says that the blocks are enough for this size too. A write that starts
beyond the block that would be next fails an assertion instead, which is the first of the
two cases of `FailsOnlyAfterDamage`.

The effect of a whole call is a predicate on the file before and after it: `Reads`,
`Wrotes` (the bytes written are the first `alen` of the buffer, all others are as before),
`Truncates` (the size is set, or the blocks ran out and all bytes and the size are as
before). Each is proved by induction over the pieces
(`ReadEffect`, `WriteEffect`) or the blocks (`AddEffect`, `CutEffect`), with `Edge`, where
the piece after `k` of them begins. `BytesOf` turns the bytes under block numbers and
places into one sequence; `OverwriteBytes` is the step from `Wrotes` to the `Overwrite` of
`ByteFile`. `FileStep` then has a lemma for each call. A write that moves no byte, to a
descriptor behind the end, maps to a seek of `ByteFile`.

**TimerInterruptProofs** (both parts of what the timer interrupt does in `trap.c`: the key
that it hands to stdin, and the timers it runs).

*Stdin.* `RingExact` says where each key is: below `p_rpos` in `got`, from there
to `p_wpos` in the slot of its number, as long as nothing overran. Two positions less
than the size of the buffer apart have different slots (`SlotInjective`), which is where
the size enters. `NoReaderMissesKey` needs no strengthening but the types.

*TimerList.* `TimersFireOnTime` is a refinement: under the mapping that gives each
process the sum of the differences up to its timer, every step of the list is a step of
`Countdown`. The invariant `ListOK`: one timer per process, the first not at 0, and the
last sum within `MaxExpires`; the last is why no addition in `del_timer` wraps. For each
operation there is a lemma on how the sums change: an insertion and a deletion leave all
others alone, a tick takes one off each.

**FileTableProofs.** `RefsExact` counts references over all tables with cardinalities, so
each step has to show how the sets `Pwds` and `Fds` change (`Accounted`). Fork, exec and
exit run through a whole table: for each loop there is a lemma, by induction over the
entries, that after `k` turns the counts have moved by the number of entries below `k`
that are open on the inode, and that on the way every inode stays `Sound` (at least as
many references as openers; the disk lacks its size and block pointers only while it is
open and dirty). `Sound` is what
makes an inode that a loop lets go of in the middle, while other entries still hold it,
neither reclaimed nor left unwritten. A change of `din` moves no count and keeps `Sound`,
that of a seek that fails half way too (`DinChanges`). `FileInv` adds that a process has a `files_struct`
exactly while it lives, and that a lost opener is a lost reference.

**Induction.** The recursive functions of the models (sums of a list, the loops over a
table or over pieces of a file, the walk along siblings or the free list) are proved about with four lemmas: a set of natural
numbers has a least element; a set with 0 and all successors holds all; the same for an
interval; and a loop given by its turns has a state after each of them, so that the
function a model defines by recursion exists and satisfies its equation. They
have a set where the library's theorems have an operator, which the provers could not
instantiate. A proof by induction is then one about the set of the numbers for which
the claim holds.

What is only model-checked, and why:

- liveness (`SleepReturns`, `WaitReturns`, `KilledSleeperExits`, `KilledRunnerNoticed`,
  `DownReturns`, `AllQuit`, `NoStarvation`, `GetPidReturns`): the
  prover has no rule for fairness;
- the skew heap of Stride: its merge is a RECURSIVE operator on trees, for which the
  prover has no backend;
- the two violations.

## 6. Not modelled, and the plan

Not modelled: the parts that `PROJECT.json` lists so. Boot, printing, the ELF
loader, string functions and the drivers of console and ramdisk are straight-line
code or pure I/O. User programs are the environment of Process.

Also not modelled, and why:

- page tables, vma lists, page replacement and the kernel heap: what they do is
  data about memory that no other model refers to; in lab8 pages are swapped only by
  the check at boot;
- the TLB: `proc_run` flushes it after `switch_to`, on the way back into a process,
  and a process that runs for the first time takes the way through `forkret` instead;
  whether a stale translation is then used depends on the processor;
- `do_fork` without memory: the label taken when `setup_kstack` fails frees a stack
  that was never set, which stops the kernel in `kva2page`; the models do not use
  memory up;
- directories, mounting and devices other than stdin: no system call changes a
  directory (`vop_create` and `vop_unlink` are missing from SFS);
- the philosophers with semaphores alone, the simpler half of `check_sync.c`.

The earlier labs contain earlier versions of the same files.

Done: Process, TimerList, Semaphore, Monitor, the philosophers, Stride, FirstFit,
Stdin, ProcTable, FileTable, SfsFile, and the proofs of section 5. Next:
the vma list of `vmm.c` and the count of an `mm_struct`.
