# Verification of arm64-baremetal in TLA+

The program is one image for QEMU's `virt` machine with three parts that share
each core: an EL3 monitor, a small secure OS (SEEOS, secure EL1) and a kernel
(non-secure EL1) with one application (EL0). The shipped start script gives it
two cores; the kernel enrols core 0 only in its scheduler. This directory holds
models of it, configurations that model-check them with TLC, and proofs that the
TLA+ proof system checks. Source paths below are relative to `src/src/`.

## 1. Inventory

| Part | State | Operations | Interaction | What is hard |
|---|---|---|---|---|
| **Kernel scheduler** `kernel/kernel_sched.c`, `kernel_exception.c`, `kernel_vector.S` | `task_pool`, `ready_q`, `sleep_q`, `zombie_q`, `tpidr_el1`, `sched_lock` | `create_task`, `task_exit`, `msleep`, `yield`, `sched_check_tasks`, `schedule_task`, `reaper_service` | driven by the timer and by two SGIs to itself; handlers and threads share locks | any interleaving of ticks, yields, GC and disk interrupts with threads; the lists are emptied and rebuilt in handlers; stacks are freed |
| **Console** `kernel_uart.c`, `el3_uart.c`, `see_uart.c` | `kernel_lock`, `uart_lock` | prints | threads, system calls, drivers and handlers take the same lock, with interrupts as they are | deadlock between a handler and what it interrupted |
| **Power control** `el3/el3_psci.c`, `el3_exception.c`, `el3_main.c` | `cpus[].state`, `cpus[].entry_point`, pending SGIs | `CPU_ON`, `CPU_OFF`, `el3_cpu_on`, `el3_cpu_off`, parking | cores write each other's entry without a lock and interrupt each other | races, repeated and merged SGIs, a handler that never returns |
| **World switch** `el3/el3_exception.c`, `el3_smc_handler.c`, `see/see_init.c` | `cpus[].ns_context`, `cpus[].s_context` | SEEOS call, `SMC_YIELD`, `SMC_RESUME`, preemption | one pair of contexts per core, many kernel threads | preemption at any point, a new call instead of a resumption |
| **Page allocator, kernel page tables** `kernel/kernel_mm.c`, `kernel_mmu.c` | `pages[]`, tables, `page_pool`, TLBs | `mm_allocate_pages`, `mm_free_pages`, `map_*`, `unmap_*` | called by `create_task` and the reaper under `sched_lock` | fragmentation, stale TLB entries on other cores, an empty pool |
| **Boot** `el3_start.S`, `el3_mmu.c`, `kernel_entry.S`, `see_entry.S`, `see_mmu.c` | tables of three programs, `mmu_ready`, `mmu_lock`, `seeos_mmu_ready`, round keys | core 0 builds, the others wait | three flags, started in different exception levels | order of publication, preemption of SEEOS's start |
| **SEEOS command buffer** `see/see_com.c`, `include/see_cmd.h` | the shared page | `see_call`, `see_cmd_invoke` | a kernel thread fills it, SEEOS answers in it; no lock, and `see_call()` drops what the call returns | preemption anywhere in the service, retries, requests of two callers |
| **SEEOS crypto** `see/see_crypto.c` | round keys | wrap, unwrap | SEEOS services | arithmetic |
| **GIC ITS driver** `kernel/kernel_its.c` | command queue, `cmd_offset`, GITS_CWRITER, GITS_CREADR | `gic_its_prepare`, `gic_its_enable`, `gic_its_disable`, the twelve commands | a library that no code calls yet; the ITS reads the queue | unlocked queue, wrap-around, commands that clear more than their slot |
| **virtio-blk driver** `kernel_virtio_blk.c` | virtqueue, static request, `last_used_idx` | `virtio_blk_init`, `virtio_blk_read_sector`, interrupt handler | started and used once by `c_entry()`; shares rings with the disk | the wait for the device, wrap-around of 16-bit indexes, absent or different devices |
| **Driver registry** `driver_manager.c`, `kernel_exception.c` | `driver_registry[]`, `driver_count` | `register_driver`, `dispatch_interrupt` | drivers register, `kernel_irq()` walks the table | interrupts between the steps of a registration |
| **EL3 and kernel GIC set-up, libraries** | registers | | | |

What makes each part correct:

- scheduler: no task is lost, queued twice or run by two cores; a sleeper is not
  woken early and is woken; a zombie is never run again and is reaped, not on a
  stack in use; ready tasks run, in turn; locks have one holder;
- power control: a core reported OFF executes nothing; a core left BOOTING is
  woken; a core that was accepted comes up, but for the exceptions named below;
  the monitor's console has one user;
- world switch: SEEOS goes on where it stopped, a call returns to its caller
  with its own answer, secure code never runs as non-secure;
- memory: nobody gets a page that another holds, a held block stays mapped, a
  freed one is unreachable, tables are not leaked;
- command buffer: a caller that reads success has the result of its own command;
- registry: an interrupt that is enabled finds its handler and its device;
- disk and ITS: a read or a command that returns is its own, and one that can be
  answered returns;
- boot: no core uses tables or keys before they are complete; core 0 reaches its
  `CPU_ON`, and a core 1 that accepts it comes up.

## 2. Modules

| Module | What it is |
|---|---|
| `Scheduler` | the kernel's scheduler with its interrupt path and locks |
| `CpuPower` | PSCI, WAKE/SLEEP interrupts, parking, the wait for core 1 |
| `WorldSwitch` | the monitor's two contexts and SEEOS's service loop on one core |
| `SeeCommand` | the command buffer: threads, `see_call()` and `see_cmd_invoke()` over `WorldSwitch`, which it refines |
| `PageStore` | abstract specification: an allocator hands out free blocks only |
| `Memory` | allocator, heap page tables, table pool and TLBs; implements `PageStore` |
| `Boot` | maps, table pools, and the three handshakes at start |
| `DriverRegistry` | the table of drivers and the interrupts that walk it |
| `VirtioBlk` | the disk driver and the disk, over `DriverRegistry` |
| `ItsPort` | abstract specification: each call has its own command carried out, once |
| `ItsQueue` | the ITS command queue; implements `ItsPort` |
| `Devices` | composition: `c_entry()`'s start of the disk, then threads that use all three |
| `MC*` | instances for TLC |
| `*Proofs` | theorems and their proofs |

The components meet through few points, each abstracted on both sides:
`create_task` and the reaper call the allocator (in `Scheduler` a part of
`AddTask` and `Reap`; in `Memory` the callers); the kernel's calls into EL3 are
`Call` in `CpuPower` and `SeeosCall` in `WorldSwitch` and `Boot`; the main
thread's `CPU_ON` is one step of `Boot`, which accepts or refuses it, and all
the steps of `CpuPower`. `kernel_lock` is in `Scheduler` and in
`DriverRegistry`: a driver's print in the one is any thread's print in the
other.

### Scheduler

A thread is its program position, in `ctx[c]` while core `c` runs it and in
`frame[t]` while it is switched out; `irq[c]` is the position of core `c`'s
handler, `sp[c]` the stack it is on. The three lists are sequences; `kept[c]` is
the local list of the loops of `sched_check_tasks()` and `reaper_service()`. A
critical section in which nothing else can happen is one action (`Schedule` is
all of `schedule_task()`); `msleep()` and `create_task()`, which take
`sched_lock` with interrupts on, are split where an interrupt can strike.
`create_task()` also prints before it releases `sched_lock`, when it has filled
the entry or found the table full (`CreateLock`, `CreateAdd`, `CreateReport`,
`CreateReported`, `CreateUnlock`): at `"reporting"` the thread has both locks
and can be interrupted. `SchedHolders` and `ConsoleHolders` are the positions
that have each lock. `IrqTake` picks the most urgent pending interrupt; the
GIC's non-secure view of the priorities keeps their order. `TaskCalls` says
which services the tasks of an instance use; a task calls them in any order, any
number of times.

Time is the set `expired` of sleepers whose `wake_tick` has passed. The timer
rings at any time except between `timer_disable_interrupts()` and the return
from the same interrupt: the 10 ms it is set to outlast a return.

Left out: the branches for a null current task, for INTIDs 0 and 1023 and for
unknown interrupts; `reaper_task()` (never started), `sched_disable()` (never
called), core 1's print in `sec_entry()`. `yield()` reads the core number and
sends the SGI in one step. The branch of the reaper that puts a zombie back is
modelled; `core_id` is already 0xFF when a zombie is queued.

### CpuPower

Every read and write of `cpus[]` is a step. An SGI arrives any time after it was
sent, and once if it was sent twice before; `GICR_WAKER` does not hold it up on
QEMU. WAKE is acknowledged and ended in its handler; the handler of SLEEP never
ends it, so that it stays active (`sleeping`). `resume` is where a handler or an
SMC returns. `identity` is the kernel's identity map, without which a core
cannot take the step that turns its MMU on: the core then stands still. A core
in SEEOS is a core at a lower EL. Calls name cores that exist: `CPU_ON` refuses
others, and invalid addresses, without changing anything, while `CPU_OFF` does
not check its target and reads beyond `cpus[]` (`CheckOff`). Left out are
`SYSTEM_RESET`, `SYSTEM_POWEROFF` and calls whose target is core 0. An entry
point is zero or not. `Callers` are the cores whose kernel calls PSCI at will;
core 0 makes the one call of `kernel_main_thread()`.

### WorldSwitch

Contexts belong to a core, so one core is modelled. A context is a position and
all of x6-x30, the vector and system registers; x0-x5 are the variable `x`. The
scheduler of the kernel appears as `SwitchThread`. The first call enters SEEOS
at `_seeos_entry`, where x0-x3 are still the caller's (`Entry`); from there on
they are in registers that EL3 saves or on the stack, and the start, which
`Boot` has in its steps, is one interval (`"starting"`) at whose end
`seeos_servicer()` takes up the request that was kept (`Start`). Later calls go
on behind the `smc` of `SMC_YIELD`, whose stores take the caller's x0-x5
(`Fetch`). SPSR is not saved by the monitor and always EL1h. The kernel of the
repository uses neither `SMC_RESUME` nor `SEEOS_PREEMPTED`; they are EL3's
interface, and the model lets threads use them. The history variable `intact`
says that SEEOS has not been made to go on with a start or a service in which it
was preempted: from there on x0-x5 are wrong in a service (finding
`world_regs`), a start carries out the request of its first caller for the next
one, and `NeverLost`, `ReturnsToCaller` and `ResponseOwn` claim nothing more. A
service that is preempted just before its `SMC_YIELD` and gets `SMC_RESUME` in
x0 may call `SMC_RESUME` on itself until the next interrupt (`SmcConfused`).

### SeeCommand

`see_cmd_invoke()` is one of the services of `WorldSwitch`, taken apart at each
of its accesses to the buffer, so that an interrupt can end the call at any of
them and another call go on from there. Which service it is to be is settled
when the request is stored (`StoreRequest`): at SEEOS's entry (`CmdEntry`), to
be carried out when the start has ended (`CmdStart`), or behind an `smc`
(`CmdFetch`). Every step is a step or a stutter of `WorldSwitch` (theorem
`CmdRefines`), with whose variables the command's position `cmd_pc` and the
buffer run along. A datum is represented by the thread it came from. Once x0-x5
were replaced by a caller's, a store may miss the buffer (`Stored`), because the
pointer to it may be in one of them.

The threads that use the buffer are external: no code of the repository calls
`see_call()` with `SEEOS_COMMAND`. They do what `see_cmd.h` needs of them: hold
a lock while they use the buffer, fill it, empty the response, call, and read
the response. Without the lock two threads, or two cores, mix their requests;
nothing in the repository says who locks.

### DriverRegistry, VirtioBlk, ItsQueue and ItsPort, Devices

`Devices` starts where `c_entry()` starts the disk, with interrupts masked:
`VirtioBlkInit` registers the driver by the steps of `register_driver()`, one
for each field it writes, or fails, which `c_entry()` ignores; sector 0 is read;
then interrupts are unmasked, and threads read sectors, register drivers and
make ITS commands in any order, one call at a time, since none of the three
parts has a lock. An interrupt is named after its device, is level-triggered,
and comes at any step once it is enabled and unmasked; `Dispatch` is
`kernel_irq()` with the handler.

`register_driver()`, at its end and at a full table, `gic_its_enable()` and
`gic_its_disable()` print, and so do handlers. `kernel_printf()` holds
`kernel_lock` with interrupts on: `print` is where the print of the running code
is, and an interrupt that comes at `"printing"` finds its handler spinning on
the lock for ever (`spinning`). A handler that finds the lock free is one step.
The prints of `c_entry()` itself, with interrupts masked, always end.

The disk takes a request when it is notified, writes data and status, advances
the used ring and raises its interrupt. Ring indexes count modulo `INDEX_MOD`,
which stands for 2^16; a sector's content is its number. The driver lays its
rings out for 16 entries: a device that reports a smaller queue looks for the
available ring elsewhere and never answers. A machine without a disk takes an
abort at the first read (`dev->vring` is null), which the kernel's handler turns
into power-off (position `"off"`). The `wfe` of the wait is a hint that returns,
as QEMU has it.

`ItsQueue` has one action for each part of an ITS command: clear the slot, fill
it and advance `cmd_offset`, write GITS_CWRITER, wait for GITS_CREADR. The ITS
carries out the next command, or finds an error in it and stalls for good, since
no function of the driver retries or tests GITS_CREADR_STALLED. Commands
differ by what their slot holds and by whether they clear 4 KB
(`MoveCommands`). `gic_its_prepare()` resets the ITS's offsets but not
`cmd_offset`; the model has it called where `cmd_offset` is 0. `CarriedOutOnce`
is the refinement of `ItsPort`, in which a call is carried out between its
issue and its return, and nothing else is.

### Memory and PageStore

`Memory` is one call at a time (`sched_lock` serialises the callers) against
cores that translate at any moment: `Walk` caches a valid translation, only a
flush removes one. Search and marking are one step; each page is mapped,
unmapped and flushed by a step of its own. The heap is mapped at a fixed offset,
so that an entry is valid or not. `Pool` is the number of tables left after
`kernel_setup_mmu()` and `virtio_blk_init()`: of 32, `Boot` uses at most 15.
`create_task()` does not check for a null result and clears memory at address 0
(position `"null"`), and an empty pool makes `map_page_virtual()` write at
address 0 (`"fault"`); the model stops there. Requests larger than the heap, for
which the unsigned bound of the search wraps, are not made by any caller and are
excluded. `KeepsPromise` is the refinement: `PageStore` with `held` as the
blocks of the callers.

### Boot

Memory is counted in 2 MB units. `El3Map`, `KernelMap` and `SeeMap` list what
core 0 maps, in order, with the addresses of the headers, and `BlockPage` what
`virtio_blk_init()` adds. A unit needs one table for its 1 GB entry and, where
pages are mapped, one for its 2 MB entry; `allocated` has those that the pools
of 12, 32 and 64 have given out. Only the size of the kernel's image is a
parameter (`StackEnd`): linker.ld ends it where the code ends, and nothing but
its size keeps it off the buffer at `SMEM_BUFFER`, which `ImageAssumption`
states.

The main thread makes one `CPU_ON`, of core 1, and ignores what it returns
(`CpuOn`). It is refused if core 1 is between the writes of ON and OFF of
`init_sec_core()` (finding `power_parking`); otherwise core 1 takes the WAKE
when it can (`TakeWake`). The thread waits for core 1 and then removes the
identity map (`MainProceeds`), after which no core could turn its MMU on
(`SeccoreSetupMmu`). The other cores stay parked.

A non-secure interrupt may take a core out of SEEOS's start; the start then goes
on with wrong x0-x5 (`disturbed`), after which a map entry, the keys or the wait
for `seeos_mmu_ready` may be wrong. The outcomes given stand for others, and the
properties except that case. Memory attributes are not modelled. Two remarks on
the code: `setup_mmu()` says "Map 6MB ... 3 blocks" and maps six, 12 MB;
`setup_mmu_secondary()` says "same MAIR" and omits index 3.

## 3. Runs

| Run | Instance | Shows |
|---|---|---|
| `sched_single` | 1 core, 3 tasks, all services; 2.5 M states | the scheduler's safety as shipped |
| `sched_live` | 1 core, 2 tasks, all services | ready tasks run, sleepers wake, zombies are reaped, unless the core stops on a lock |
| `sched_smp` | 2 cores, 2 tasks, printing, creating, yielding, exiting; 2.2 M states | nothing lost, doubled or run twice with shared queues; who has each lock |
| `sched_console` | 1 core, printing and exiting tasks | **violated**: the reaper stops the core on the console lock |
| `sched_launch` | 1 core, the shipped tasks | **violated**: an interrupt loses the application's entry |
| `power_calls` | 3 cores, core 0's call and any calls of the others; 292 k states | what holds although `cpus[]` has no lock, and an accepted core reaches the kernel, with three exceptions |
| `power_parking` | 2 cores, the shipped call | **violated**: `CPU_ON` refused by a core that parks; core 0 waits for ever |
| `world_calls` | 3 threads, `SMC_RESUME`, plain calls and commands of three kinds; 5.7 M states | contexts, callers, and that a response belongs to its command |
| `world_regs` | 2 threads | **violated**: SEEOS goes on with the caller's x0-x5 |
| `memory` | 6 pages, 4 table entries, pool 2, 2 cores, blocks of 1-3 | refinement, mapping, TLBs, pool |
| `boot` | 3 cores, the real maps | order of publication, pools, the `CPU_ON` is reached and an accepted core 1 starts; 50 k states |
| `devices` | disk and another device, 2 drivers, ring of 2, indexes modulo 3, 3 ITS slots; 313 k states | interrupts find their handlers, reads and commands are their own and return, unless the ITS stalls or an interrupt strikes inside a print |

**Bounds.** Three tasks let one run, one wait and one sleep or exit; the third
is what `NoOvertaking` and a list of two need. Liveness uses two tasks, and
`sched_smp` two: one for each core and, with the idle threads, one that moves.
`sched_smp` leaves out `msleep`: a sleeper that another core wakes before this
core has left its stack, and a zombie reaped then, run on a stack in use (hazard
at `kernel_sched.c:182`; the shipped kernel enrols one core, for which
`StackNotFreed` is proved). It also leaves out `launch` and system calls, for
the size of the state space only: the run's properties are proved for any number
of cores and tasks with everything but `msleep` (section 4). Three cores let two
of them call at the same time, each other, themselves or the core that core 0
calls. Three threads allow a second caller during a preempted call and a third
after it. Six pages hold three blocks with gaps; four entries over a pool of two
make it run dry. `Boot` uses the largest image; its third core stays parked, but
enables its MMU over the tables of EL3. In `devices` both rings, the indexes and
the ITS queue wrap around several times: a ring of two with indexes modulo
three, three slots, and a table that the disk's own registration half fills, so
that duplicates and a full table occur. Queues of one and of three entries are
smaller and larger than the ring; of two sectors one is bad. No counter is
capped: the state spaces are finite as they are.

**Deadlock** is checked in `boot`. Elsewhere the system may stop: a handler
spins for ever on a lock, all cores are turned off, `Memory` stops at a write to
address 0, and in `WorldSwitch` secure code may be lost once SEEOS has been made
to go on with a preempted service. In `Devices` a call waits for ever at a disk
with a smaller queue and at an ITS that is not prepared, not enabled or stalled,
an interrupt inside a print spins for ever on `kernel_lock`, and a machine
without a disk is turned off.

**Symmetry** is used for threads and cores where only safety is checked.

**Fairness.** Weak fairness of each core's code: a core executes. Strong
fairness of taking an interrupt, which is enabled again and again between masked
sections and must not be put off for ever by them; the architecture takes a
pending interrupt once it is unmasked. Time passes, and an armed timer rings.
Nothing makes a task call a service or a kernel call PSCI, except the main
thread's one `CPU_ON`: `Boot` assumes strong fairness of that thread (`Main`),
since SEEOS calls of other threads take the core from it and give it back, and
the kernel's scheduler runs it again and again (what `sched_live` checks). Core
1 takes a WAKE that stays pending (`TakeWake`, weak). In `Devices` the code that
runs goes on, the disk and the ITS do what they can, be it to stall, and an
interrupt that stays pending and unmasked is taken, all by weak fairness: only a
stalled ITS or a spinning handler disables what they do, for ever.

**Exceptions in liveness.** `Wedged` names the states in which a core spins on a
lock held by what it interrupted (findings `sched_console`, and the hazard that
`msleep()` and `create_task()` take `sched_lock` with interrupts on).
`AcceptedCoreArrives` asks that a core that accepted a `CPU_ON` executes the
kernel past the instruction that turns its MMU on, and excepts a core whose own
`el3_cpu_off()` erased the new entry point, one that comes up when the identity
map is gone, and one that has yet to turn off and finds the monitor's console
locked for ever; without any of the three TLC finds it violated.
`AcceptedCoreStarts` claims nothing of a `CPU_ON` that is refused, which is
finding `power_parking`. `DevicesAnswer` excepts a stalled ITS for commands, and
a handler that spins on `kernel_lock` for registrations, prints and interrupts.

Every property of a passing run has a mutant in `PROJECT.json`: an operator
marked `\* mutant` in the module, a plausible bug, under which TLC finds the
property violated.

## 4. Proofs

| Module | Proved | For |
|---|---|---|
| `SchedulerProofs` | `TypeOK` | any number of cores and tasks, any services |
| | `TasksAccountedFor`, `ActiveIsRunning`, `StackNotFreed`, `NeverWokenEarly`, `ZombieOnlyReaped`, `LocksHeldOnce`, `SpinsOnlyOnInterrupted`, `NoOvertaking`; never `Wedged` where no task sleeps, creates or prints from EL1 | one core, any number of tasks, any services |
| | `OneCorePerThread`, `TasksAccountedFor`, `ActiveIsRunning`, `LocksHeldOnce`, `NoOvertaking` | any number of cores and tasks, any services but `msleep` |
| `CpuPowerProofs` | `TypeOK`, `OffIsHalted`, `UartExclusive`, `BootingIsWoken` | any number of cores up to `MAX_CPUS` |
| `WorldSwitchProofs` | `TypeOK`, `SecureContinues`, `NeverLost`, `ReturnsToCaller` | any set of threads |
| `MemoryProofs` | `TypeOK`, `HeldMapped`, `NotReachedOnceFree`, `PoolNotLeaked`, `KeepsPromise` (refinement) | any heap, block sizes, pool and cores |
| | `StacksNeverFail`: neither a full heap nor an empty pool while the held blocks and one more fit | the same, blocks of one size |
| `BootProofs` | `TypeOK` with the pools of tables, `TablesBeforeUse`, `KeysBeforeService` | two cores or more, any image below the buffer |
| `SeeCommandProofs` | `CmdRefines` (refinement of `WorldSwitch`), and through it `TypeOK`, `SecureContinues`, `NeverLost`, `ReturnsToCaller` of commands; `ResponseOwn` | any set of threads |
| `ItsQueueProofs` | `ItsTypeOK`, `CarriedOutOnce` (refinement of `ItsPort`) | any commands, any queue of two slots or more |
| `DevicesProofs` | `TypeOK`, `EnabledHasHandler`, `ReadsItsSector`; every step of `Devices` is one of `ItsQueue` or a stutter, and so `CarriedOutOnce` | any devices, table, sectors, ring and modulus |

The arguments:

- **Scheduler.** `TasksAccountedFor` is not inductive: it does not say where the
  handler and the current thread are. `OneCoreInv` adds, for one core, that only
  the current thread may be in a state that no queue explains (`PlaceInv`), what
  a switched-out thread's frame can be (`FrameInv`), what state the current
  thread has at each position (`CurrentInv`), and which list each state is in
  (`QueueInv`). Queues enter by the set of their members and the absence of
  duplicates; five lemmas say what appending and taking the head do to these.
  For the locks `LockInv` adds who holds them: `sched_lock` is a handler's loop
  or the running thread's section, and a thread inside such a section, or in a
  system call's print, is never switched out, since the tick that would do it
  waits for `sched_lock` first; `kernel_lock` belongs to the one thread, running
  or not, whose position is in a print. In `create_task()`'s print it is the
  running one, so that only the disk's handler can wait for it there. If no
  service opens a lock to interrupts (`NobodyOpen`), nobody who holds one can be
  interrupted, and no state is `Wedged`. `NoOvertaking` follows, on any number
  of cores, from `TasksAccountedFor`: a step appends to the ready queue, takes
  its head, or does both, and appends nobody who is in it (`NoStepOvertakes`).
- **Scheduler, several cores.** `SmpInv` is inductive for any number of cores as
  long as nobody calls `msleep()`. A thread then leaves its core only through
  `schedule_task()`, which is one critical section, so that the state of a task
  says where it is: `CoreInv` says for each core that its current thread is
  RUNNING, or the zombie it has become, and may be at its position; `CoresInv`
  that two cores never share a task and that a READY task has a position to go
  on at; `ListsInv` that the ready queue is exactly the READY tasks and the
  zombie queue exactly the zombies that no core has. Without the last clause of
  each the next core to schedule could choose a thread that another still has.
  `SmpSchedInv` names the one core that holds `sched_lock`; `SmpConsoleInv`
  names the one thread that holds `kernel_lock`, wherever it is, because a task
  that is preempted in its print may go on with it on another core. With
  `msleep()` this is false: a sleeper that has released the lock and not yet
  left its core can be woken and chosen by another (hazard at
  `kernel_sched.c:182`). The hypothesis is that of the shipped threads: `task1`,
  `task2`, `kernel_main_thread()` and the application never sleep.
- **CpuPower.** Each property is strengthened by what a core at a position knows
  of its own entry (`OFF` only where no lower EL is left to return to), of the
  lock, and of the interrupt that a writer of `BOOTING` has still to send.
- **WorldSwitch.** While SEEOS has gone on with no preempted start or service,
  the thread that is in SEEOS is the one in `ns_context`, and the request in
  `res` or `x` is its own, from the entry through the start to the answer.
- **Memory.** `IInv` relates the callers' blocks to `pages[]`, tables and TLBs,
  with exceptions for the part of a block that a loop has yet to reach;
  `PoolInv` counts tables by the entries that have one. Each step of `Memory` is
  a step or a stutter of `PageStore`. `StacksNeverFail` is about the null
  pointers that `create_task()` and `map_page_virtual()` do not test for. Its
  invariant `UniformInv` uses that all blocks are of one size n, as
  `create_task()` asks for stacks only: each block starts at a multiple of n,
  the first fit leaves no free page below it, and the valid entries are
  therefore the first `pool_ptr + 1`. A failure means that every slot below is a
  held block. In the kernel (n = 3, 131072 pages, 512 to a table, `HeapOffset`
  at most 511, at least 17 tables left) `task_pool[]` has room for 63 tasks,
  with 189 pages; the heap's limit is 43690 stacks and the pool's 2901.
- **Boot.** What is mapped has at least the units up to core 0's cursor, less
  the identity map once the main thread is done; a flag says that core 0 has
  started; a core past its wait says that the flag is set. For the pools, every
  program stays within nine units below its roots, and each root needs at most
  eleven tables for them, one for each unit and one for each of two 1 GB
  entries: 22 for the kernel's two roots, of its 32.
- **SeeCommand.** While SEEOS has gone on with no preempted start or service, it
  is in the command, or in the start that leads to it, only while its caller
  waits, and the response and the result at each position of `see_cmd_invoke()`
  are those of the buffer's command.
- **ItsQueue.** `cmd_offset`, GITS_CWRITER and GITS_CREADR agree except during a
  call, between whose steps only the slot of the call is ahead of the ITS; the
  refinement needs no more.
- **Devices.** The entries below `driver_count` are complete and name a driver
  with its own handler and device; the entry that is being written is not among
  them. The driver's and the disk's indexes differ by at most the one request
  under way, by position of both.

The assumptions are the named `ASSUME`s of the modules, which TLC evaluates in
every run; beyond them, theorems of the scheduler assume one core or tasks that
do not sleep, and `StacksNeverFail` one size of blocks, as their statements say.
Every invariant and every action property of a passing run is stated by a
theorem. Only model-checked are the liveness properties `ReadyRuns`,
`SleeperWakes`, `ZombieReaped`, `AcceptedCoreArrives`, `AcceptedCoreStarts` and
`DevicesAnswer`: liveness under fairness is outside the prover. Of the scheduler
on several cores with `msleep`, of which most does not hold, only types are
proved.

## 5. Not modelled

By choice, because there is no state whose interleaving or order could go wrong,
or because what there is lies beyond the model checker:

- register programming of the three interrupt controllers, the exception reports
  that stop a core, byte loops of the libraries, `virtio_blk_get_info()`, which
  prints, and what consoles print;
- the rounds of AES and the key schedule, straight-line NEON code on 128-bit
  values;
- memory attributes of page-table entries (the hazard at `el3_mmu.c:88`), and
  the map of the application, made once by one thread;
- the tables of LPIs and of the redistributors, which are written once and read
  by hardware only, and the memory behind the ITS queue that `its_movall()` and
  `its_movi()` clear: what lies there is the linker's choice;
- device interrupts without a driver, which `dispatch_interrupt()` reports and
  leaves.

Excluded by an assumption on callers that the repository does not have: two
callers at once of the registry, the disk, the ITS or the command buffer, and a
second `gic_its_prepare()` of a queue in use. Each is listed as a hazard.

What could follow, in this order:

1. `TaskQueue`: the links of `task_enqueue` and `task_dequeue` as pointers,
shown to implement the sequences of `Scheduler`; 2. `yield()` in two steps on
several cores, for tasks that migrate in between.
