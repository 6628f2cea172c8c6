# TLA+ models of the Simplix kernel

This directory holds TLA+ models of the kernel in `src/`, the TLC configurations
that check them, and `PROJECT.json`, which is the machine-readable index of
components, runs, mutants, the source map, findings and hazards.

## The system

Simplix is a small uniprocessor x86 kernel. Its parts and how they interact:

| Part | Source | State | Operations |
|---|---|---|---|
| Scheduler | `kernel/sched.c` | task list (in creation order), `current`, each task's `state`, `timeslice` | `schedule`, `sleep_on`, `interruptible_sleep_on`, `wake_up`, `alloc_pid` |
| Timer | `kernel/timer.c` | `ticks`, the static `sched_ticks`, each task's `timeout` | `handle_timer_interrupt` (IRQ 0) |
| Tasks | `kernel/task.c`, `kernel/sys.c` | `ppid`, `exit_status`, kernel stack, LDT segments | `kernel_thread`, `sys_fork`, `do_exit`, `do_waitpid`, `do_sleep`, `sys_brk` |
| Semaphores | `kernel/ksync.c` | `value`, FIFO wait queue | `ksema_down`, `ksema_up`, `kmutex_lock`, `kmutex_unlock` |
| Physical memory | `kernel/physmem.c` | one descriptor per page, in an address-ordered circular list of blocks | `init_physmem`, `alloc`, `free`, `realloc_physmem_block` |
| Kernel heap | `kernel/kmem.c` | slabs of caches of fixed-size objects | `kmalloc`, `kfree` |
| Block devices | `kernel/blkdev.c` | class and instance registry with reference counts | `register_*`, `unregister_*`, `blkdev_read`, `blkdev_write` |
| RAM disk | `drivers/ramdisk.c` | `ramdisk_list_head`, each disk's `minor`, `addr`, `nblocks`, the static minor counter | `create_ramdisk`, `destroy_ramdisk`, `ramdisk_read_write_blocks` |
| IDE driver | `drivers/ide.c` | per-controller `mutex` and `io_sema` | `ide_read_write_blocks`, the IRQ 14/15 handler |
| User library | `lib/stdlib.c`, `lib/string.c` | the free list, `sbrk`'s break | `malloc`, `free`, `vsnprintf`, `strncpy`, `strcmp` |
| Boot and demos | `kernel/main.c`, `kernel/timer.c` | `realtime`, the demos' buffers | `init_wall_clock`, `printk`, `compute_pi_task` |

Concurrency comes from three sources:

- **The lock.** Every kernel routine takes the single global lock with
  `disable_hwint`/`restore_hwint`. These save EFLAGS, clear IF, and restore it afterwards.
- **System calls.** Every IDT gate is an interrupt gate (`kernel/idt.c`), so system
  calls from user tasks run with IF = 0.
- **Kernel threads.** These threads start with IF = 1 (`task.c:62`). They can
  therefore be preempted by the timer anywhere outside a `disable_hwint` region.

Between two such regions, the timer IRQ and the IDE IRQ can interleave with a kernel thread.
`schedule()` is called from the tick every `SCHED_TICKS` ticks and from every
blocking call. Inside `ksema_down`, a task that blocks is switched out with
interrupts disabled. It resumes at the statement after `schedule()` when it is next elected.

## Modules

### `Sched` (scheduler, tick, `do_sleep`)

- **State.** `current`, `state`, `timeslice`, `timeout`, `sched_ticks`, and a
  program counter `pc` for each task.
- **Task order.** The task list order is the constant `TaskOrder`. The kernel
  threads come first and the idle task follows them, as `simplix_main` creates them.
- **Election.** `Elect` is the election of `schedule()`:
  - the runnable task with the strictly greatest positive slice, the first in list order on a tie;
  - otherwise, a refill of every non-idle slice, capped at `MAX_TIMESLICE`, and the last runnable non-idle task;
  - otherwise, idle.
- **Tick.** `TimerInterrupt` is `handle_timer_interrupt` as a whole: it charges
  the tick, counts down timeouts, wakes a task whose timeout reaches zero, and
  every `SCHED_TICKS` ticks calls `schedule()`.
- **Task programs.** These are the loops of `main.c`:
  - a CPU-bound thread (`prime_numbers_task`);
  - a thread looping on `do_sleep` (`clock_task`, `system_stat_task`);
  - a user task calling `sys_sleep`.
- **`do_sleep`.**
  - In a kernel thread it is two steps: `DoSleepSetTimeout`, then `SleepOn`. The
    tick may fire between them, because IF = 1.
  - Through `sys_sleep` it is one step (`SysSleep`).
- **Tick enabling.** The tick is enabled (`IntEnabled`) exactly where the current
  task runs with IF = 1.

### `KSync` (semaphores and mutexes, extends `Sched`)

A library: it declares the semaphores' state and the effect of each routine,
and a module whose tasks use semaphores (here `IDE`) applies them at its own
program counter labels.

- **State.** `value` (an unsigned int of `UINT_BITS` bits, so a decrement of 0
  wraps as in C) and the FIFO wait queue of each semaphore in `Sems`.
- **`ksema_down`** is two operators:
  - `KsemaDown` is the test, with either the take or the enqueue, sleep and
    `schedule()`;
  - `KsemaDownResume` is the decrement that the woken task executes when it is
    next elected, with no second test.
- **`KsemaUp`** increments the value and wakes the head of the queue, without
  calling `schedule()`. `kmutex_lock`/`kmutex_unlock` are these on a semaphore
  of initial value 1.

### `IDE` (IDE request protocol, extends `KSync`)

- **Tasks.** Kernel threads loop on `ide_read_write_blocks`, choosing a read or
  a write each time. Each request is cut where the code can lose the CPU or be
  interrupted:
  - `Lock` and `LockResume` are `kmutex_lock`;
  - `SelectDevice` and `SelectCheck` are the two status tests of
    `select_device`, before and after the drive select (BSY and DRQ clear,
    otherwise unlock and return 0);
  - `Issue` is the command registers and the command. Interrupts are on
    between these three steps, so the tick, the IRQ and another thread may
    come between them;
  - `BsyWait` is `wait_for_controller(BSY = 0)` with its timeout, the ERR test
    and, for a write, the `outw` loop;
  - `IoDown` and `IoResume` are `ksema_down(io_sema)`;
  - `Check` is the second ERR test, the `inw` loop of a read, and the unlock.
- **The IRQ.** `IrqHandler` is `handle_ide_controller_interrupt`: it ups
  `io_sema` when the IRQ is pending and IF = 1.
- **The disk** is the environment (`DiskStep`). It runs one command at a time:
  a read ends with data (DRQ) or ERR; a write first asks for data or fails,
  then ends with or without ERR. Every end raises the IRQ. `outcome[t]`
  records how the disk ended task `t`'s last command, and `ret[t]` is what the
  request returned. The ERR bit read while BSY is set is undefined (`ErrRead`).
- **The timer** ticks between any two steps of a thread (IF = 1), except
  between the wake-up and the decrement inside `ksema_down`.

### `PhysMem` (physical memory manager)

- **State.** The block list is a sequence of the page numbers of its descriptors,
  and `pages`/`avail` are the descriptor fields. A descriptor keeps these fields
  after it leaves the list, as the array in the code does.
- **Operations.** `AllocOp`, `FreeOp` and `ReallocOp` are pure operators on that
  state, written branch by branch from `__alloc_physmem_block`, `free_physmem_block`
  and `realloc_physmem_block`.
- **Clients.** `kmalloc`, kernel stacks, task segments and `sys_brk` are
  abstracted to the set `owned` of block addresses they hold.
- **Actions.** `Alloc`, `Free` and `Realloc` apply the operators to that set.
  `Free`, and a `Realloc` that moves its block, include the panic check of
  `free_physmem_block`. A panic halts the machine (`panicked`).
- **The uninitialised `h`.** The exact-fit widen branch of `realloc_physmem_block`
  calls `list_remove(block_list_head, h)` on `h`, a local this path never assigns.
  The constant `HChoices` says which outcomes of that read are explored:
  - `"next"`: `h` is the following hole, which is what the code means;
  - `"other"`: `h` is any other block of the list.

### `PageAlloc` (what the allocator promises) and the refinement

`PageAlloc` states the allocator of section 4.1 of the design without its
block list. Its one variable, `held`, maps the first page of each block a
client holds to the block's size. Its steps are relations between the
holdings before and after a call:

- `Allocated`: the new block starts the first maximal run of free pages long
  enough for it (first fit over coalesced holes);
- `Freed`: a block is given back;
- `Resized`: a block shrinks, or grows into the free pages after it;
- `Moved`: a block that cannot grow in place goes to the first fit of its new
  size, searched while its old pages are still held.

A step may also be two allocations (`sys_fork` takes a kernel stack and a
data segment) or two frees (`do_exit`). `PhysMem` maps its state onto it
(`PA == INSTANCE PageAlloc WITH held <- HeldBlocks, Reserved <- ReservedPages`):
the held blocks are `owned` with their descriptors' sizes, and the reserved
pages are the blocks `init_physmem` adds as unavailable. `task_pass` checks
`PageAllocRefined`, the abstract specification as a property. The mapping
sees only what clients hold, so a `realloc` that fails when it need not is a
stuttering step and goes unnoticed.

### `Task` (task lifecycle, extends `PhysMem`)

- **State.** `task[s]` holds, for each task descriptor `s` of the pool `Slots`,
  the fields the lifecycle uses: `pid`, `ppid`, `state`, `kstack`, `user` (the
  LDT code type is non-zero), `seg` and `ds` (data segment base and pages), and
  `pc`, the task's place in its program. `tlist` is `task_list_head` in list
  order, `next_pid` the static of `alloc_pid`, `bootLeft` the `kernel_thread`
  calls of `simplix_main` still to run. The memory is `PhysMem`'s, and
  `owned` is the set of blocks the tasks hold.
- **Atomicity.** System calls run with IF = 0 and `do_exit` starts with
  `cli()`, so `sys_fork`, `do_exit`, one scan of `do_waitpid`, `sys_brk` and
  the start of `do_sleep` are one step each. Which runnable task steps next
  is the scheduler's choice, left free here (`Sched` models the choice).
- **Actions.** `KernelThread` and `InitMultitasking` are the boot;
  `Fork` (with its error path `ForkError`), `Exit`, `WaitAny`, `Sleep`,
  `TimerWake` and `Brk` are the calls. `AllocPid` is `alloc_pid`'s
  do/while as a bounded recursion; `NoPid` stands for the loop that never ends
  (`hung`). Every allocation and free goes through `AllocOp`/`FreeOp`/
  `ReallocOp` of `PhysMem`, with `free_physmem_block`'s last-page panic.
- **Programs.** `TaskStep` is the code of `main.c`: idle forks init; init forks
  `compute_pi_task` and `process_demo_task` and loops on `waitpid(-1)` and
  `sleep(1000)`; pi grows its heap with `brk` and exits; the demo forks two
  children that die in an exception (`Fault`: `handle_exception`, the handler
  `init_exceptions` installs, calls `do_exit(1)`), then loops
  fork, sleep, and the parent sleeps again and exits. A fork that fails
  returns -1, which each program treats as "I am the parent".
- **The unassigned `new_ds_addr`.** `sys_fork`'s error path frees
  `new_ds_addr` if it is non-zero, but no path to the label assigns it. The
  constant `StaleDsAddr` chooses between the value 0 and any stale value
  (a block of the list or an address the free panics on).

### `ProcTree` (abstract process tree) and the refinement

`ProcTree` states what the lifecycle promises without pids, memory or
programs: processes are created under a live parent (or none, at boot), die
into zombies whose children pass to their parent, and are removed only by
their parent reaping them. An orphan gets a parent when it dies, or from a
process created later (init adopting boot threads that died before it).
`Task` maps its state onto it (`PT == INSTANCE ProcTree WITH ...`): the
processes are the tasks of the list, the zombies the DEAD ones, and a task's
parent is the task whose pid is its `ppid` (`get_task`). `task_pass` checks
`ProcTreeRefined`, the abstract specification as a property.

### `KMem` (kernel heap)

- **State.** For each block the physical memory manager can give as a cache:
  its slab (`cacheSlab`), `nr_free_objects` (`nrFree`) and its free-object list.
  For each slab, its cache list, head first. `allocated` is the set of objects
  held by callers, each with the size that was asked for.
- **Addresses.** Objects are byte addresses, because the properties are about
  which bytes an object owns. A cache of `CACHE_SIZE` bytes starts with its
  `struct kmem_cache` header, followed by objects, each an `OBJ_HDR` header and a slot.
- **Actions.** `KmallocFromHead` and `KmallocNewCache` are the two paths of
  `__kmalloc`. The second takes a new cache and lays out its objects with the
  initialisation loop of the code (`ObjectsFrom`). `Kfree` puts the object back
  at the tail of its cache's list and makes that cache the head of its slab.
  Both routines run with interrupts disabled, so each call is one step.

### `BlkDev` (block device layer)

- **State.**
  - `list`, `minorOf`, `refcnt`: the IDE class's instance list, with each
    instance's minor and reference count. Instances are kmalloc'ed objects
    (`Insts`), so a freed one can come back.
  - `req`: each client thread's locals of the call it is in (`block`,
    `delta`, `nblocks` as an unsigned int of `UINT_BITS` bits, the buffer
    position).
  - `copies`: the bytes the call has moved, as pairs <<buffer byte, device byte>>.
  - `ret`: what the thread's last call returned.
  - `disk`: for each device byte, the client whose current or last write
    stored it, or `Older`. The start of a write ages the client's earlier
    data to `Older`, so the data is only as fine as `RoundTrip` needs.
- **Steps.** A call is cut at its driver calls, because the IDE driver sleeps
  and other threads run meanwhile:
  - `Start` is `get_blkdev_instance` and the first block and offset;
  - `HeadBlock` is a read's partial head block. A write's is two steps:
    `HeadFetch` reads the block into `tmp`, and `HeadStore` patches it at
    `delta` and writes it back;
  - `Mid` is one iteration of the whole-block loop, which for a write stores
    the blocks (`Written`);
  - `TailBlock` is a read's partial tail block and the return; a write's is
    `TailFetch` and `TailStore`.
  - `Continue` is the code between two calls.
  - `Driver` is the set of outcomes of `ide_read_write_blocks`: it clamps to
    `MAX_NBLOCKS`, refuses to go past the capacity, and otherwise moves
    everything or, on a timeout or device error, nothing.
    This is the driver contract of the design, not everything `ide.c` does.
    A call that never returns is not an outcome, because without fairness a
    thread may stop anyway. Nor is a call that reports blocks the disk then
    fails to write (`ide_stale_write`). So `OkMeansExact` and `RoundTrip`
    hold for a driver that keeps the contract.
- **Reads and writes.** `Start`, `Mid`, `Continue` and `Finish` are the same
  for both. A client of `Writers` calls `blkdev_write` and the others call
  `blkdev_read`. Between a write's fetch and store of a partial block, other
  threads run.
- **Registry.**
  - `register_blkdev_instance` is two steps, `Register` (the lookup) and
    `RegisterAppend` (kmalloc and append). Each runs in its own interrupts-off
    region, and a kernel thread can be preempted between them.
  - `Unregister` is atomic, as in the code.

### `RamDisk` (RAM disk driver, extends `PhysMem`)

A RAM disk is a kmalloc'ed `struct ramdisk` holding one block of physical
memory. `RdSlots` stands for the memory kmalloc can hand out as a
descriptor, and `kfreeRd` is the part of it that is free. `rd[s]` is the
descriptor's `minor`, `addr` (a page) and `nblocks`. `rdList` is
`ramdisk_list_head` and `n` is the static counter of `create_ramdisk`.
The physical memory is `PhysMem`'s, with its `AllocOp`, `FreeOp` and
`FreePanics`.

The callers are kernel threads, which run with IF = 1, so each call is cut
at its interrupts-off regions:

- `create_ramdisk` is three steps:
  - `CreateAlloc`: the `len` test, `__kmalloc`, `PAGE_ALIGN_SUP`,
    `alloc_physmem_block` and its `kfree` on failure, `nblocks`;
  - `CreateAppend`: `minor = n++` and `list_append`, with interrupts off;
  - `CreateResult`: `*minor = rd->minor`, read after `restore_hwint`.
- `ramdisk_read_write_blocks` is two steps:
  - `Lookup`: `get_ramdisk_instance`;
  - `Transfer`: the bounds test on `rd->nblocks`, then `memcpy`.
- `destroy_ramdisk` runs wholly inside `disable_hwint`, so it is one step
  (`Destroy`). Freeing a disk on the last page panics, as in `PhysMem`.

Lengths and addresses are counted in blocks, `BPP` to a page. Block
arithmetic wraps at `2^UINT_BITS`, like the 32-bit `offset_t` and `addr_t`.

Nothing in the kernel calls `create_ramdisk`, and `init_ramdisk_driver`
only registers the class with `blkdev`. The model therefore drives the
driver's entry points directly, as a module that used the driver would.

### `UHeap` (user-space heap, `lib/stdlib.c` over `sys_brk`)

- **State.** `hdr[a]` is the header (`ptr`, `size`) stored at unit `a` of
  the task's memory, counted in `sizeof(Header)` units; unit 0 is the static
  `base`. `freep`, and `sbrk`'s statics `oldbrk` and `curbrk`, are the
  library's variables. `ds` is the data segment size in the task's LDT.
  `killed` records a general protection fault (the handler calls
  `do_exit(1)`). `alloc` is the set of blocks the program holds.
- **Operations.** `Malloc(n)` is one call of `malloc`, with `morecore`,
  `sbrk` and `sys_brk` inside it, and `Free(bp)` one call of `free`. A user
  task is a single thread and the kernel runs a system call with IF = 0,
  so each call is one step. `sys_brk` grows the segment only when
  `realloc_physmem_block` finds room; that depends on the other tasks, so
  it is the free choice `grow`. A header written past `ds` faults.
- **Program.** The calls of `compute_pi_task`: mallocs of the sizes in
  `MallocSizes`, each result tested for NULL, and frees of what it holds.
- `HeapView` leaves out headers the program can no longer read (inside a
  held block or in merged-away space), so states that differ only in
  garbage are one state.

### `LibString`, `WallClock`, `BigReal` (pure functions)

Operators, each beside a reference definition of what it should compute:

- `LibString`: `vsnprintf` (the loop, `OUTPUTCHAR` with its stop, the
  `'.'` width scan, the conversions), `snprintf`, `printk`, `strlen`,
  `strncpy`, `strcmp`, and the description copy of `blkdev.c`. A string is
  a sequence of character codes. The reference prints a format piece by
  piece (`RefToken`).
- `WallClock`: `is_leap`, `nr_days_per_month`, `bcd_to_dec` and the two
  loops of `init_wall_clock`, against the civil-calendar day count.
- `BigReal`: `Add`, `Sub`, `Mul`, `Div`, `arccot` and `compute_pi_task`
  of `main.c` on big reals of base `B`. The reference is the integer the
  digits stand for and the arctan series computed at ten times the
  precision. TLC's integers are 32 bits wide, like `long` on i386, so an
  overflow would show up as a TLC error.

`MCLibc` puts the four together. The library's properties are constants,
so it states each of them as an invariant guarded by `AtBoot` (the initial
state, before the first `malloc`). That evaluates them once instead of in
every state of the heap.

## Runs

| Run | Checks | Result |
|---|---|---|
| `sched_pass` (`MCSched.cfg`) | `TypeOK`, `CurrentRunnable`, `NoStarvation` | pass, 5 971 states |
| `sched_lost_wakeup` | `SleeperHasTimer`: every uninterruptible sleeper has a timeout | violated |
| `task_pass` (`MCTask.cfg`) | `TaskTypeOK`, `UniquePids`, `ParentAlive`, `TasksOwnMemory`, `ZombiesReaped`, `ProcTreeRefined`, and `PhysMem`'s `Tiling`, `Coalesced`, `OwnedAllocated`, `PageAllocRefined` | pass, 15 848 states |
| `kmem_pass` (`MCKMem.cfg`) | `TypeOK`, `ObjectsAccounted`, `NrFreeBounded` | pass, 2 080 078 states |
| `kmem_slot_size` | `NoOverlap`: an object's bytes overlap no other object | violated |
| `blkdev_pass` (`MCBlkDev.cfg`) | `TypeOK`, `NoUseAfterFree`, `OkMeansExact`, `RoundTrip` | pass, 551 294 states |
| `blkdev_inblock` | `MovesWithinRequest` | violated |
| `ide_pass` (`MCIDE.cfg`) | `IdeTypeOK`, `QueuedIffAsleep` | pass, 1 284 242 states |
| `ide_barging_read` | `ReadOnlyWhenDone`: a read returns its own command's data | violated |
| `ide_stale_write` | `ReportedOnlyWhenDone`: a request returns nblocks only if the disk succeeded | violated |
| `ramdisk_pass` (`MCRamDisk.cfg`) | `DescriptorsAccounted`, `DisksOwnTheirBlocks` | pass, 2 910 991 states |
| `libc_pass` (`MCLibc.cfg`) | `HeapTypeOK`, `FreeListOrdered`, `Coalesced`, `HeapAccounted`; `VsnprintfOK`, `CStringsOK`, `WallClockOK`, `BigRealOpsOK`, `ArccotOK`, `PiOK` | pass, 28 611 states |

More configurations are kept beside the runs. `MCPhysMem.cfg` checks
`TypeOK`, `Tiling`, `Coalesced` and `OwnedAllocated` of the allocator alone
under clients that allocate 1 or 2 pages and reallocate to 1, 2 or 3 (252
states, every branch of `realloc_physmem_block`). The others check one
property each and give further counterexamples:

- `MCSched_TimeoutOnlyWhileAsleep.cfg`: the ASSERT of `handle_timer_interrupt`;
- `MCPhysMem_Tiling.cfg`: `Tiling` with every outcome of the uninitialised `h`;
- `MCPhysMem_NoPanic.cfg`: freeing the last page panics;
- `MCTask_NoPanic.cfg`: `NoPanic`, fork and exit never panic;
- `MCRamDisk_UseAfterFree.cfg`: `TransferToLiveDisk`, a read or write
  copies to or from a live disk with the minor it named;
- `MCRamDisk_StaleMinor.cfg`: `CreateReturnsItsMinor`, `create_ramdisk`
  returns the minor it assigned;
- `MCRamDisk_BlockWrap.cfg`: `TransferInsideDisk` with a block argument of
  `2^UINT_BITS - 1`;
- `MCTask_StaleDs.cfg`: `TasksOwnMemory` when the unassigned `new_ds_addr`
  holds a stale value: a failing fork frees a live task's block;
- `MCBlkDev_RefcntZeroAtRest.cfg`: the reference leak of a refused unregister;
- `MCKMem_NoNeedlessCache.cfg`: the head cache of a slab is full while another
  cache has room;
- `MCBlkDev_UniqueMinor.cfg`: two concurrent registrations of one minor;
- `MCIDE_MutualExclusion.cfg`: two threads past `kmutex_lock` at once;
- `MCIDE_RequestCompletes.cfg`: a request that never returns;
- `MCIDE_CommandOnlyToIdleDisk.cfg`: a command written to a disk that is
  still running another;
- `MCKMem_AllocatedInsideCache.cfg`: kmalloc hands out an object that ends
  past its cache;
- `MCLibc_HeapWithinSegment.cfg`: malloc returns a block past the data
  segment after a failed `brk`;
- `MCLibc_Escape.cfg`: `vsnprintf` with `%%` in the format;
- `MCLibc_SizeOne.cfg`: `vsnprintf` into a buffer of 1 byte;
- `MCLibc_Strlen.cfg`: `strlen` returns the length plus one.

What the violations show:

- **Semaphore barging** (`ksema_down`, `ksync.c:96`/`104`). `ksema_down` tests the
  value with `if`, and decrements after the wake-up without testing again.
  `ksema_up` does not hand the unit over to the task it wakes. With two
  threads on the IDE controller:
  1. k1 holds the mutex and k2 waits on it.
  2. k1 unlocks, which wakes k2, and locks again at once, because the value is 1.
  3. k2 runs and decrements 0: the value wraps and both are inside.
  4. k1's command ends; the IRQ wakes whichever of them sleeps on `io_sema`,
     and k2 returns the blocks of k1's read (`ide_barging_read`).
  In other interleavings k2 takes k1's `io_sema` unit and k1 then sleeps
  forever holding the mutex, so every later request hangs
  (`MCIDE_RequestCompletes.cfg`).
- **Stale `io_sema` unit** (`ide.c:481`). A request that returns 0 on a BSY
  timeout or an ERR leaves its command's IRQ to up `io_sema` afterwards. The
  next write's `ksema_down` then passes at once after the `outw` loop, the ERR
  test reads the status while the disk is still writing, and the request
  returns nblocks. If the disk then fails, the failure is never reported. The
  design says a device failure surfaces as 0 blocks. A read is not exposed
  the same way: for a read, the BSY wait already ends at the data.
- **Command over a running command** (`ide.c:448`,
  `MCIDE_CommandOnlyToIdleDisk.cfg`). `select_device` tests the status and
  the command is written later, with interrupts on. k1's request fails and
  unlocks, which wakes k2; k1 locks again before k2 runs, and both pass
  `select_device` while the disk is idle. k1 writes its command, then k2
  writes its own over the running one. The status tests cannot stand in for
  the mutex that barging breaks.
- **Timer ASSERT and lost wake-up** (`do_sleep` in a kernel thread, `task.c:202`/`203`).
  - A tick between `current->timeout = …` and `sleep_on()` finds a runnable
    task with a timeout, which trips the ASSERT at `timer.c:211`.
  - With a timeout of one tick, that tick also zeroes the timeout. The thread
    then sleeps with no timer left and is never woken.
- **Last page** (`physmem.c:204`, `MCTask_NoPanic.cfg`). `free_physmem_block`
  panics on `addr >= physmem_size - PAGE_SIZE`, which includes the last page.
  First-fit hands that page out once the earlier holes are taken. In the task
  model this is reached by the programs themselves: when only the last page
  is free, `sys_fork` takes it for the child's kernel stack, fails to get a
  data segment, and its error path frees the stack, so the kernel panics
  where the design says fork returns -1. A task whose stack or segment is
  the last page panics the kernel the same way when it exits.
  `destroy_ramdisk` of a disk on the last page panics as well: `MCRamDisk`
  reaches that panic, and the model halts there.
- **RAM disk use after free** (`ramdisk.c:87`-`97`,
  `MCRamDisk_UseAfterFree.cfg`). `get_ramdisk_instance` restores
  interrupts before it returns the descriptor. The caller then reads
  `rd->nblocks` and `rd->addr` and copies with interrupts on. A thread that
  looks up minor 0 and is preempted lets another thread destroy minor 0.
  The first thread then copies to or from the freed page, using a kfreed
  descriptor that a new `create_ramdisk` may already have reused.
- **Stale minor** (`ramdisk.c:162`, `MCRamDisk_StaleMinor.cfg`).
  `*minor = rd->minor` is read after `restore_hwint`. If the new disk is
  destroyed and its descriptor reused by another create in between, the
  caller gets the other disk's minor.
- **Block wrap** (`ramdisk.c:88`, `MCRamDisk_BlockWrap.cfg`).
  `block + nblocks` is computed in 32 bits. A block near `2^32` makes the sum
  wrap below `rd->nblocks`, so the test passes and `memcpy` runs far outside
  the disk. `ramdisk_pass` keeps block arguments that do not wrap, and shows
  the test is right for them.
- **Uninitialised `h`** (`physmem.c:302`, `MCPhysMem_Tiling.cfg`). Unless `h`
  happens to be `b->next`, another block leaves the list and memory is no
  longer tiled. With `"next"` the allocator is correct, and `MCPhysMem.cfg`
  and `task_pass` check the rest of it under that outcome.
- **Slot size** (`kmem.c:148`). A new cache of slab `idx` gets slots of
  `idx << 3` bytes, but slab `idx` serves requests of up to `(idx + 1) << 3`
  bytes. Slab 0 gets slots of 0 bytes. So the first two `kmalloc(4)` return
  objects whose bytes overlap.
- **Extra object** (`kmem.c:159`, `MCKMem_AllocatedInsideCache.cfg`). The initialisation loop adds an object as
  long as its start is inside the cache, not its end. The last object then
  runs past the cache into the next block. `nr_free_objects` does not count that
  object, but `kfree` makes it reachable: once the free list has been turned
  over, kmalloc hands it out.
- **Request inside one block** (`blkdev.c:300`, `307`). With
  `offset % block_size + len < block_size`, the head copies
  `block_size - delta` bytes whatever `len` is, past the caller's buffer.
  `nblocks` then wraps, and the loop moves whole blocks until the driver
  refuses at the capacity. The call returns `-E_FAIL`, but for a write the
  device has already been changed.
- **Reference leak** (`blkdev.c:247`, `MCBlkDev_RefcntZeroAtRest.cfg`). An
  `unregister_blkdev_instance` that returns `-E_BUSY` does not release its own
  reference. Once the transfer ends, the instance has a count of 1 with no
  user and can never be unregistered.

- **`sbrk` after an unaligned break** (`stdlib.c:46`,
  `MCLibc_HeapWithinSegment.cfg`). `sbrk` reports failure only when `brk`
  answers the old break. But `sys_brk` answers the page-aligned size.
  After one successful `sbrk` of a size that is not a whole number of
  pages, `curbrk` is unaligned, and a later `brk` that fails (answering the
  unchanged segment size) no longer equals it. `sbrk` then reports
  success. In three steps: `malloc(15)` needs 9 units, more than
  `NALLOC`, grows the segment from 8 to 32 bytes and leaves `curbrk` at
  26; the next `malloc(3)`, with no memory to grow into, returns a block
  from byte 26 to 42. The block is past the 32-byte segment, and the
  program faults when it writes there. `compute_pi_task` asks for 1004
  bytes, which `NALLOC` rounds to 8192, so the demo does not reach it. A
  program that mallocs more than 8184 bytes at once does.
- **`vsnprintf`** (`string.c`). `MCLibc_Escape.cfg`: `"%%"` prints two
  `%`, though the comment says "Escaped '%'". `MCLibc_SizeOne.cfg`: with
  `size` 1 the `OUTPUTCHAR` test comes after the store, so one character
  and the NUL are written (2 bytes). With `size` 0, `size - 1` wraps and
  nothing is cut. Neither size is passed by the kernel, whose buffers are
  of 32 to 256 bytes. Other defects are seen in the code and not in a run:
  - a `%` at the end of the format reads past the NUL;
  - `%d` of `INT_MIN` negates it;
  - `"%.s"` leaves `minwidth` at 0, so the characters after it go through
    the switch;
  - the `minwidth == -1` test of the `'.'` case is dead.
- **`strlen`** (`MCLibc_Strlen.cfg`). It returns the length plus one.
  Nothing in the kernel calls it.

Each property of a passing run has a mutant in `PROJECT.json`. The mutant is a
plausible bug in the mapped definition that TLC finds violating the property:

| Property | Mutant |
|---|---|
| `NoStarvation` | the tick is not charged |
| `CurrentRunnable` | the election forgets the `TASK_RUNNABLE` test |
| `TypeOK` (Sched), `IdeTypeOK` | the refill is not capped |
| `QueuedIffAsleep` | `ksema_up` does not pop the head |
| `Tiling` | the split-off hole starts one page early |
| `Coalesced` | no merge with the preceding hole |
| `OwnedAllocated` | first-fit ignores `available` |
| `TaskTypeOK` | `alloc_pid` does not wrap at `MAX_PID` |
| `UniquePids` | `alloc_pid` does not scan the list |
| `ParentAlive` | `do_exit` does not reparent the children |
| `TasksOwnMemory` | `do_exit` does not free a user task's segment |
| `ZombiesReaped` | `do_exit` does not wake the parent |
| `ProcTreeRefined` | `do_waitpid` frees a child without testing `TASK_DEAD` |
| `PageAllocRefined` | the first-fit search walks the list backwards |
| `ObjectsAccounted` | `list_pop_head` leaves the object queued |
| `NrFreeBounded` | the count ignores the cache header |
| `TypeOK` (KMem) | kmalloc takes from a full head cache |
| `NoUseAfterFree` | unregister tests the count against 2 |
| `OkMeansExact` | `nblocks` is counted from the first block |
| `RoundTrip` | the head's `memcpy` patches `tmp` at 0 instead of `tmp + delta` |
| `TypeOK` (BlkDev) | a transfer does not release its instance |
| `DescriptorsAccounted` | a failed `alloc_physmem_block` does not kfree the descriptor |
| `DisksOwnTheirBlocks` | `destroy_ramdisk` kfrees the descriptor without unlinking it |
| `HeapTypeOK` | the program keeps a NULL from malloc |
| `FreeListOrdered` | free inserts at the wrap whatever the address |
| `Coalesced` (UHeap) | free does not join the lower neighbour |
| `HeapAccounted` | malloc's split does not shrink the block it cuts |
| `VsnprintfOK` | `OUTPUTCHAR` stops one character late |
| `CStringsOK` | `strncpy` without the terminating store |
| `WallClockOK` | the month loop counts the current month |
| `BigRealOpsOK` | `Add` keeps a digit equal to `B` |
| `ArccotOK` | the series starts with the wrong sign |
| `PiOK` | every term added whatever the sign of its multiplier |

## Bounds

**`MCSched`.** Four tasks: a CPU-bound kernel thread, a sleeping kernel
thread, idle and a user task. The other constants are:

- `SCHED_TICKS = 2`;
- slices `INITIAL = 4`, `INCREMENT = 2`, `MAX = 6`;
- sleeps of 1 and 3 ms at `HZ = 1000`.

The ratios keep the code's behaviour: the refill is smaller than the initial
slice and capped, `schedule()` runs every few ticks, and a sleep outlasts a
scheduling period. The code's 100/30/150/10 would give the same behaviours over
far more states.

**`MCIDE`.** Two kernel threads and idle, the controller mutex and
`io_sema`, reads and writes, a disk that may fail any command, and BSY waits
that may time out. Two threads are what barging needs; the stale-unit run
uses one thread, to show that it needs no second thread. `SCHED_TICKS = 2`
and slices of 2 let the tick preempt a thread between any two steps of a
request. A 3-bit value shows the wrap.

**`MCPhysMem`.** The boot layout of `init_physmem` in 7 pages: kernel and
descriptors, a hole, the BIOS area, and a hole to the end of memory. Allocations
are of 1 or 2 pages and reallocations are to 1, 2 or 3 pages. Every branch of
`realloc_physmem_block` is reached: shrink into a hole, shrink with a new hole,
widen into a larger hole, widen into an exact hole, move, and out of memory. The
panic is reached too.

**`MCTask`.** Five task descriptors, 8 pages (the kernel image in page 0, a
hole of 7), pids wrapping after 6, one boot thread that exits
(`ide_driver_test_task`), an idle data segment of 1 page and a heap grown
to 2 pages by `brk`. A kernel stack is 1 page and a user task 2 or 3, so
memory and descriptors both run out: fork fails for want of a descriptor
and for want of a data segment, and the last page is handed out and freed.
The demo loop forks until descriptors run out and pids wrap past 6. The hang of `alloc_pid` needs more
live tasks than pids, which neither the model nor the kernel's memory reaches.

**`MCKMem`.** Three caches of 64 bytes, with the header sizes of the i386 build
(a 20-byte cache header, 12-byte object headers) and the granularity 3 of the
code. Requests are of 4 and 12 bytes, slabs 0 and 1. One slab can fill a cache
and take a second one, and both slabs can hold caches at once.

**`MCBlkDev`.** Two threads on one disk of 3 blocks of 4 bytes, with room for
two instance objects. `c1` writes and `c2` reads; both register and
unregister. The violation runs have two readers. The driver moves at most 2 blocks per call, so the loop
iterates. Requests start at offset 0, 2 or 5 and are 1 or 6 bytes long. This
gives every shape:

- tail only;
- whole blocks and a tail;
- a head and whole blocks;
- a head and a tail;
- a request inside one block, both where the wrapped loop still moves blocks
  and where the driver refuses at once.

`unsigned int` is 3 bits wide. The loop is still bounded by the capacity, as
it is with 32 bits.

**`MCRamDisk`.** Two kernel threads and room for two descriptors. Memory
is five pages: the kernel, a hole of two pages, the BIOS area and a hole of
one page, the last page. A page is two blocks, and `unsigned int` is 4 bits
wide. `create_ramdisk` is asked for:

- 0 blocks, which is refused;
- 1 block, one page;
- 3 blocks, two pages, which fill the first hole;
- 15 blocks, which `PAGE_ALIGN_SUP` wraps to 0 pages, so
  `alloc_physmem_block` refuses it.

So every path of `create_ramdisk` is reached: success, no descriptor, and
no memory. The first disk on the last page is made, and its destroy panics.

Reads and writes name minors 0 to 3, at blocks 0 and 2, of 1 or 2
blocks. That includes the exact fit `block + nblocks = rd->nblocks` of a
two-page disk, and transfers refused by the bounds test. Minors 0 to 3
allow several create and destroy cycles, with descriptors reused. The wrap
of the 32-bit minor counter after 2^32 creations is not reached; with it,
two live disks could share a minor and `get_ramdisk_instance` would find
only the first.

**`MCLibc`.** A header of 2 bytes, pages of 8 and `NALLOC` of 8 units,
scaled down from 8, 4096 and 1024. This keeps what matters: `NALLOC`
units are two pages, and a request can be larger than `NALLOC` and not a
whole number of pages. The code segment is 8 bytes and memory holds 48.
Requests are of 3 and 15 bytes. The heap then reaches every path: exact
fit, split, `morecore` with and without growth, joins on both sides, and
the fault. The pure functions are tried on:

- formats of up to two pieces drawn from the kernel's own conversions
  (`%u`, `%d`, `%s`, `%c`, `%.5u`, `%.3u`, `%.02X`, `%.08x`, `%.04x`);
- buffers of 2, 5 and 256 bytes;
- every valid date from 2000 to 2037, since 2038 overflows TLC's integers;
- big reals of two digits, with digits 0, 1, 4999 and 9999;
- `arccot` of the demo's 18, 57 and 239, and of arguments on both sides of
  `MaxDiv`;
- pi with 3 digits of base 10 000.

## Fairness

`Sched` and `IDE` assume these kinds of fairness:

- **Weak fairness of the timer tick.** The PIT raises IRQ 0 every millisecond, and it
  is delivered whenever IF = 1.
- **Strong fairness of each task's next statement.** A task that holds the CPU
  runs instructions before the next tick, but it can lose the CPU at every tick,
  so its step is only infinitely often enabled.
- **`IDE`: the disk ends every command it starts** (weak fairness), and the
  PIC holds the IDE IRQ until IF = 1, which happens infinitely often (strong
  fairness of the handler). Starting a request is not forced.

`BlkDev` checks only safety and assumes no fairness. A driver call need not
return: `ide_read_write_blocks` can sleep forever in `kmutex_lock` or in
`ksema_down(io_sema)` (`MCIDE_RequestCompletes.cfg`), so nothing forces a
block request to end.

`Task` assumes weak fairness of each task's next step and of the timer's
end of each sleep: the scheduler elects every runnable task infinitely often
(`NoStarvation` of `Sched`) and each `sleep(1000)` has a timeout. Boot is
weakly fair too. `task_pass` does not check deadlock: a panic or a hung
`alloc_pid` halts the machine.

`RamDisk` checks only safety and assumes no fairness. `ramdisk_pass`
does not check deadlock: a panic halts the machine.

`UHeap` checks only safety and assumes no fairness. `libc_pass` does not
check deadlock: a faulted task stops.

`PhysMem` and `KMem` check only safety, so they assume no fairness. Neither of
them checks deadlock: a panic halts `PhysMem`, and `KMem` stops when the caches
run out.

## Not modelled (yet)

The plan for the next modules, in order:

1. **`Task` remainder.** `waitpid` on one pid and the exit status copy
   (no program uses them); `Task` composed with `Sched`'s elections instead
   of a free choice.
2. **Two `BlkDev` writers.** Two writers to different bytes of one block can
   lose an update: each writes back the bytes it did not write as it read
   them. `blkdev_write` has no caller in `src/`, and the design says
   nothing of concurrent writes, so no run has two writers. The
   `disk` abstraction would need each write's own data to show it.
3. **Refinement of a counting semaphore.** The value a task would see, which
   `KSync` does not implement because of barging.
4. **IDE controller recovery.** After a timed-out write command the disk waits
   in DRQ and `select_device` refuses every later request; no reset is issued.

Out of scope:

- descriptor tables, PIC and the IDT entries `init_exceptions` writes (the
  handler they install is `Task`'s `Fault`);
- the console and keyboard drivers (`gfx.c`, `kbd.c`), which are port I/O;
- the data copied by fork (data, not control);
- the RAM disk's registration with `blkdev` (`init_ramdisk_driver`) and its
  read and write wrappers: no instance is ever registered, so no block
  request reaches the driver.

These are pure I/O or hardware set-up, or code that nothing reaches.
