----------------------------- MODULE Scheduler -----------------------------
(***************************************************************************)
(* The EL1 kernel's task scheduler: src/src/kernel/kernel_sched.c with the *)
(* interrupt entry that drives it (kernel_exception.c, kernel_vector.S),   *)
(* the two locks it takes (kernel_spinlock.S, kernel_uart.c) and the       *)
(* threads of kernel_main.c and app_main.c.                                *)
(*                                                                         *)
(* Each core runs one thread at a time, and that thread can be interrupted *)
(* between any two steps unless it has masked interrupts.  A handler runs  *)
(* with interrupts masked on the stack of the thread it interrupted, until *)
(* "mov sp, x0" moves to the stack of the thread that schedule_task chose. *)
(* A thread is its program position: ctx[c] while core c runs it (or has   *)
(* just interrupted it), frame[t] while it is switched out.                *)
(*                                                                         *)
(* Time is abstracted to "expired", the sleepers whose wake_tick has       *)
(* passed.  A critical section that neither blocks nor can be interrupted  *)
(* is one step; one that can be is split where it can.                     *)
(***************************************************************************)
EXTENDS Integers, Sequences, FiniteSets

CONSTANTS
    NumCores,   \* cores that run the scheduler (the shipped boot enrols one)
    MaxTasks,   \* MAX_TASKS: slot 0 of the pool is never handed out
    BootTasks,  \* tasks c_entry creates before it enables the scheduler
    TaskCalls   \* the kernel services that the tasks of an instance use

Services == {"console", "msleep", "yield", "create", "exit", "launch", "syscall"}

ASSUME NumCoresAssumption  == NumCores \in 1..254
ASSUME MaxTasksAssumption  == MaxTasks \in Nat \ {0}
ASSUME BootTasksAssumption == BootTasks \in 0..(MaxTasks - 1)
ASSUME TaskCallsAssumption == TaskCalls \subseteq Services

Cores   == 0..(NumCores - 1)
Tasks   == 1..(MaxTasks - 1)     \* task_pool[1..MAX_TASKS-1]
Idle(c) == MaxTasks + c          \* &idle_tasks[c]
Idles   == {Idle(c) : c \in Cores}
Threads == Tasks \cup Idles
ZERO    == 0                     \* the null task_t pointer
NoCore  == 255                   \* core_id 0xFF

TaskStates == {"EMPTY", "READY", "RUNNING", "SLEEPING", "ZOMBIE"}

\* Where a thread can be.  In msleep() and in create_task() it holds
\* sched_lock from the spin_lock to the unlock; "reporting" is create_task()'s
\* own print, inside that section.
MaskedPcsNoSvc == {"offline", "boot", "exit", "syscall"}  \* mutant
MaskedPcs == {"offline", "boot", "exit", "syscall", "sysprint"}
Pcs == {"offline", "boot", "idle", "run", "console", "printing", "msleep",
        "sleeping", "yield", "yielded", "create", "creating", "created",
        "reporting", "reported", "exit", "exited", "dead", "launch", "app",
        "syscall", "sysprint", "none"}

SchedHolders   == {"sleeping", "creating", "created", "reporting", "reported"}
ConsoleHolders == {"printing", "sysprint", "reporting"}

\* Where the interrupt handler of a core can be.
HandlerPcs == {"none", "check", "checking", "sched", "eret", "gc", "reaping",
               "dispatch"}

Interrupts == {"TIMER", "GC", "YIELD", "SPI"}

\* GIC priorities: 0x00, 0x10, 0x20 and the drivers' 0x80 (lower is first).
Priority == [TIMER |-> 0, GC |-> 16, YIELD |-> 32, SPI |-> 128]

VARIABLES
    state,        \* [Threads -> TaskStates]   task_t.state
    core_id,      \* [Threads -> Cores + 0xFF] task_t.core_id
    frame,        \* [Threads -> Pcs]          task_t.frame
    expired,      \* sleepers with now >= wake_tick
    ready_q,
    sleep_q,
    zombie_q,
    kept,         \* [Cores -> Seq(Threads)] the queue local to a loop
    current,      \* [Cores -> Threads]    tpidr_el1
    sp,           \* [Cores -> Threads]    whose stack the core is on
    ctx,          \* [Cores -> Pcs]        the thread's position
    elr,          \* [Cores -> {"app", "other"}] where ELR_EL1/SPSR_EL1 lead
    irq,          \* [Cores -> HandlerPcs]
    pending,      \* [Cores -> SUBSET Interrupts]
    sched_lock,
    kernel_lock

tasks  == <<state, core_id, expired>>
queues == <<ready_q, sleep_q, zombie_q>>
cpu    == <<current, sp, elr>>
locks  == <<sched_lock, kernel_lock>>
vars   == <<state, core_id, frame, expired, ready_q, sleep_q, zombie_q, kept,
            current, sp, ctx, elr, irq, pending, sched_lock, kernel_lock>>

Image(q) == {q[i] : i \in DOMAIN q}

\* task_enqueue(); a thread is enqueued at the tail.
EnqueueFirst(q, t) == <<t>> \o q                        \* mutant
task_enqueue(q, t) == Append(q, t)

\* What task_dequeue() returns to schedule_task(), idle when it is null.
ChosenIdleZero(q, c) == IF q = << >> THEN Idle(0) ELSE Head(q) \* mutant
ChosenNull(q, c) == IF q = << >> THEN ZERO ELSE Head(q)  \* mutant
Chosen(q, c) == IF q = << >> THEN Idle(c) ELSE Head(q)

\* schedule_task() puts back a running thread that is not the core's idle one.
RotatesIdle(t, c)    == state[t] = "RUNNING"                                \* mutant
RotatesSleeper(t, c) == state[t] \in {"RUNNING", "SLEEPING"} /\ t # Idle(c) \* mutant
RotatesZombie(t, c)  == state[t] \in {"RUNNING", "ZOMBIE"} /\ t # Idle(c)   \* mutant
Rotates(t, c) == state[t] = "RUNNING" /\ t # Idle(c)

-----------------------------------------------------------------------------
(* init_sched() has run on core 0, which is in c_entry with interrupts      *)
(* masked.  Its sector read polled for the answer, so the disk's interrupt  *)
(* is still pending.                                                        *)

Init ==
    /\ state = [t \in Threads |-> IF t = Idle(0) THEN "RUNNING" ELSE "EMPTY"]
    /\ core_id = [t \in Threads |-> 0]
    /\ frame = [t \in Threads |-> "none"]
    /\ expired = {}
    /\ ready_q = << >> /\ sleep_q = << >> /\ zombie_q = << >>
    /\ kept = [c \in Cores |-> << >>]
    /\ current = [c \in Cores |-> IF c = 0 THEN Idle(0) ELSE ZERO]
    /\ sp = [c \in Cores |-> Idle(c)]
    /\ ctx = [c \in Cores |-> IF c = 0 THEN "boot" ELSE "offline"]
    /\ elr = [c \in Cores |-> "other"]
    /\ irq = [c \in Cores |-> "none"]
    /\ pending = [c \in Cores |-> IF c = 0 THEN {"SPI"} ELSE {}]
    /\ sched_lock = 0
    /\ kernel_lock = 0

-----------------------------------------------------------------------------
(* Threads.  A thread of core c steps while no handler runs on c.           *)

At(c, pc) == irq[c] = "none" /\ ctx[c] = pc

GoTo(c, pc) == ctx' = [ctx EXCEPT ![c] = pc]

Empties == {t \in Tasks : state[t] = "EMPTY"}

\* create_task() between its spin_lock and its print: the first empty slot.
AddTask ==
    \E t \in Empties :
        /\ \A u \in Empties : t <= u
        /\ state' = [state EXCEPT ![t] = "READY"]
        /\ core_id' = [core_id EXCEPT ![t] = NoCore]
        /\ frame' = [frame EXCEPT ![t] = "run"]
        /\ ready_q' = task_enqueue(ready_q, t)

TableFull ==
    /\ Empties = {}
    /\ UNCHANGED <<state, core_id, frame, ready_q>>

\* c_entry() creates its tasks with interrupts masked and no other core
\* enrolled, so that create_task is one step there.
BootCreate(c) ==
    /\ At(c, "boot")
    /\ Cardinality(Empties) > MaxTasks - 1 - BootTasks
    /\ AddTask
    /\ UNCHANGED <<expired, sleep_q, zombie_q, kept, cpu, ctx, irq, pending, locks>>

\* sched_enable(), mask_interrupts(0), then the wait_for_interrupt loop.
BootEnable(c) ==
    /\ At(c, "boot")
    /\ Cardinality(Empties) = MaxTasks - 1 - BootTasks
    /\ GoTo(c, "idle")
    /\ UNCHANGED <<tasks, frame, queues, kept, cpu, irq, pending, locks>>

\* init_sched_core() and sched_enable() on another core, once core 0 is up.
JoinCore(c) ==
    /\ At(c, "offline")
    /\ ctx[0] # "boot"
    /\ state' = [state EXCEPT ![Idle(c)] = "RUNNING"]
    /\ core_id' = [core_id EXCEPT ![Idle(c)] = c]
    /\ current' = [current EXCEPT ![c] = Idle(c)]
    /\ GoTo(c, "idle")
    /\ UNCHANGED <<frame, expired, queues, kept, sp, elr, irq, pending, locks>>

\* A task calls one of the kernel's services.  The application, once it is
\* at EL0, has only the print system call.
Call(c) ==
    /\ \/ /\ At(c, "run")
          /\ \E k \in TaskCalls \ {"syscall"} : GoTo(c, k)
       \/ /\ At(c, "app")
          /\ "syscall" \in TaskCalls
          /\ GoTo(c, "syscall")
    /\ elr' = IF ctx'[c] = "launch" THEN [elr EXCEPT ![c] = "app"] ELSE elr
    /\ UNCHANGED <<tasks, frame, queues, kept, current, sp, irq, pending, locks>>

\* kernel_printf() / kernel_puts() in a task, interrupts on.
PrintAcquireUnguarded(c) ==                              \* mutant
    /\ At(c, "console")
    /\ kernel_lock' = 1
    /\ GoTo(c, "printing")
    /\ UNCHANGED <<tasks, frame, queues, kept, cpu, irq, pending, sched_lock>>

PrintAcquire(c) ==
    /\ At(c, "console")
    /\ kernel_lock = 0
    /\ kernel_lock' = 1
    /\ GoTo(c, "printing")
    /\ UNCHANGED <<tasks, frame, queues, kept, cpu, irq, pending, sched_lock>>

PrintRelease(c) ==
    /\ At(c, "printing")
    /\ kernel_lock' = 0
    /\ GoTo(c, "run")
    /\ UNCHANGED <<tasks, frame, queues, kept, cpu, irq, pending, sched_lock>>

\* kernel_sync_el0(): the same print on behalf of EL0, interrupts masked by
\* the exception entry.
SyscallAcquire(c) ==
    /\ At(c, "syscall")
    /\ kernel_lock = 0
    /\ kernel_lock' = 1
    /\ GoTo(c, "sysprint")
    /\ UNCHANGED <<tasks, frame, queues, kept, cpu, irq, pending, sched_lock>>

SyscallRelease(c) ==
    /\ At(c, "sysprint")
    /\ kernel_lock' = 0
    /\ GoTo(c, "app")
    /\ UNCHANGED <<tasks, frame, queues, kept, cpu, irq, pending, sched_lock>>

\* kernel_main_thread(): the eret that follows the writes of SPSR_EL1 and
\* ELR_EL1.  An exception taken in between has overwritten both: the eret
\* then leads back into this function, never to the application.
Launch(c) ==
    /\ At(c, "launch")
    /\ elr[c] = "app"
    /\ GoTo(c, "app")
    /\ UNCHANGED <<tasks, frame, queues, kept, cpu, irq, pending, locks>>

\* msleep(): spin_lock, then the three writes and the unlock.
MsleepLock(c) ==
    /\ At(c, "msleep")
    /\ sched_lock = 0
    /\ sched_lock' = 1
    /\ GoTo(c, "sleeping")
    /\ UNCHANGED <<tasks, frame, queues, kept, cpu, irq, pending, kernel_lock>>

MsleepUnlock(c) ==
    /\ At(c, "sleeping")
    /\ state' = [state EXCEPT ![sp[c]] = "SLEEPING"]
    /\ expired' = expired \ {sp[c]}
    /\ sleep_q' = task_enqueue(sleep_q, sp[c])
    /\ sched_lock' = 0
    /\ GoTo(c, "yield")
    /\ UNCHANGED <<core_id, frame, ready_q, zombie_q, kept, cpu, irq, pending,
                   kernel_lock>>

\* create_task() in a task, with interrupts on: spin_lock, the new task or
\* none, the print that says which (it takes kernel_lock while sched_lock is
\* held), and the unlock.
CreateLock(c) ==
    /\ At(c, "create")
    /\ sched_lock = 0
    /\ sched_lock' = 1
    /\ GoTo(c, "creating")
    /\ UNCHANGED <<tasks, frame, queues, kept, cpu, irq, pending, kernel_lock>>

CreateAdd(c) ==
    /\ At(c, "creating")
    /\ AddTask \/ TableFull
    /\ GoTo(c, "created")
    /\ UNCHANGED <<expired, sleep_q, zombie_q, kept, cpu, irq, pending, locks>>

CreateReportUnguarded(c) ==                              \* mutant
    /\ At(c, "created")
    /\ kernel_lock' = 1
    /\ GoTo(c, "reporting")
    /\ UNCHANGED <<tasks, frame, queues, kept, cpu, irq, pending, sched_lock>>

CreateReport(c) ==
    /\ At(c, "created")
    /\ kernel_lock = 0
    /\ kernel_lock' = 1
    /\ GoTo(c, "reporting")
    /\ UNCHANGED <<tasks, frame, queues, kept, cpu, irq, pending, sched_lock>>

CreateReported(c) ==
    /\ At(c, "reporting")
    /\ kernel_lock' = 0
    /\ GoTo(c, "reported")
    /\ UNCHANGED <<tasks, frame, queues, kept, cpu, irq, pending, sched_lock>>

CreateUnlock(c) ==
    /\ At(c, "reported")
    /\ sched_lock' = 0
    /\ GoTo(c, "run")
    /\ UNCHANGED <<tasks, frame, queues, kept, cpu, irq, pending, kernel_lock>>

\* task_exit() up to mask_interrupts(0).
Exit(c) ==
    /\ At(c, "exit")
    /\ sched_lock = 0
    /\ state' = [state EXCEPT ![current[c]] = "ZOMBIE"]
    /\ GoTo(c, "exited")
    /\ UNCHANGED <<core_id, frame, expired, queues, kept, cpu, irq, pending, locks>>

\* yield(): an SGI to the own core.  send_sgi1_to_core ends in dsb sy; isb,
\* so the thread goes no further while the SGI is pending.
Yield(c) ==
    /\ \/ At(c, "yield")  /\ GoTo(c, "yielded")
       \/ At(c, "exited") /\ GoTo(c, "dead")
    /\ pending' = [pending EXCEPT ![c] = @ \cup {"YIELD"}]
    /\ UNCHANGED <<tasks, frame, queues, kept, cpu, irq, locks>>

ResumeEarly(c) ==                                        \* mutant
    /\ At(c, "yielded")
    /\ GoTo(c, "run")
    /\ UNCHANGED <<tasks, frame, queues, kept, cpu, irq, pending, locks>>

Resume(c) ==
    /\ At(c, "yielded")
    /\ "YIELD" \notin pending[c]
    /\ GoTo(c, "run")
    /\ UNCHANGED <<tasks, frame, queues, kept, cpu, irq, pending, locks>>

-----------------------------------------------------------------------------
(* Interrupts: kernel_vector.S irq_handler and kernel_irq().                *)

MaskedUntilChosen(c) == irq[c] \notin {"none", "eret"} \/ ctx[c] \in MaskedPcs \* mutant

\* The handler has interrupts masked up to its eret, which unmasks them.
Masked(c) == irq[c] # "none" \/ ctx[c] \in MaskedPcs

EntryOfNoCheck == [TIMER |-> "sched", YIELD |-> "sched", GC |-> "gc", SPI |-> "dispatch"]    \* mutant
EntryOfNoGc == [TIMER |-> "check", YIELD |-> "check", GC |-> "dispatch", SPI |-> "dispatch"] \* mutant
EntryOf == [TIMER |-> "check", YIELD |-> "check", GC |-> "gc", SPI |-> "dispatch"]

\* SAVE_CONTEXT and the acknowledge of the most urgent pending interrupt.
IrqTake(c, i) ==
    /\ ~Masked(c)
    /\ i \in pending[c]
    /\ \A j \in pending[c] : Priority[i] <= Priority[j]
    /\ irq' = [irq EXCEPT ![c] = EntryOf[i]]
    /\ pending' = [pending EXCEPT ![c] = @ \ {i}]
    /\ elr' = [elr EXCEPT ![c] = "other"]
    /\ UNCHANGED <<tasks, frame, queues, kept, current, sp, ctx, locks>>

HandlerGoTo(c, pc) == irq' = [irq EXCEPT ![c] = pc]

\* sched_check_tasks(): the spin_lock and the reading of the clock.
CheckLock(c) ==
    /\ irq[c] = "check"
    /\ sched_lock = 0
    /\ sched_lock' = 1
    /\ HandlerGoTo(c, "checking")
    /\ UNCHANGED <<tasks, frame, queues, kept, cpu, ctx, pending, kernel_lock>>

\* One turn of its loop wakes the first sleeper or keeps it for later.
CheckWakeAny(c) ==                                       \* mutant
    /\ irq[c] = "checking"
    /\ sleep_q # << >>
    /\ state' = [state EXCEPT ![Head(sleep_q)] = "READY"]
    /\ expired' = expired \ {Head(sleep_q)}
    /\ ready_q' = task_enqueue(ready_q, Head(sleep_q))
    /\ sleep_q' = Tail(sleep_q)
    /\ UNCHANGED <<core_id, frame, zombie_q, kept, cpu, ctx, irq, pending, locks>>

CheckWake(c) ==
    /\ irq[c] = "checking"
    /\ sleep_q # << >>
    /\ Head(sleep_q) \in expired
    /\ state' = [state EXCEPT ![Head(sleep_q)] = "READY"]
    /\ expired' = expired \ {Head(sleep_q)}
    /\ ready_q' = task_enqueue(ready_q, Head(sleep_q))
    /\ sleep_q' = Tail(sleep_q)
    /\ UNCHANGED <<core_id, frame, zombie_q, kept, cpu, ctx, irq, pending, locks>>

CheckKeep(c) ==
    /\ irq[c] = "checking"
    /\ sleep_q # << >>
    /\ Head(sleep_q) \notin expired
    /\ kept' = [kept EXCEPT ![c] = task_enqueue(@, Head(sleep_q))]
    /\ sleep_q' = Tail(sleep_q)
    /\ UNCHANGED <<tasks, frame, ready_q, zombie_q, cpu, ctx, irq, pending, locks>>

\* The end of the loop, then timer_countdown() in kernel_irq.
CheckUnlock(c) ==
    /\ irq[c] = "checking"
    /\ sleep_q = << >>
    /\ sleep_q' = kept[c]
    /\ kept' = [kept EXCEPT ![c] = << >>]
    /\ sched_lock' = 0
    /\ pending' = [pending EXCEPT ![c] = @ \ {"TIMER"}]
    /\ HandlerGoTo(c, "sched")
    /\ UNCHANGED <<tasks, frame, ready_q, zombie_q, cpu, ctx, kernel_lock>>

\* schedule_task(), one critical section.  cur is the thread interrupted,
\* queue the ready queue once cur has been put back.
Schedule(c) ==
    LET cur    == current[c]
        rotate == Rotates(cur, c)
        zombie == state[cur] = "ZOMBIE"
        queue  == IF rotate THEN task_enqueue(ready_q, cur) ELSE ready_q
        next   == Chosen(queue, c)
    IN
    /\ irq[c] = "sched"
    /\ sched_lock = 0
    /\ frame' = [frame EXCEPT ![cur] = ctx[c]]
    /\ zombie_q' = IF zombie THEN task_enqueue(zombie_q, cur) ELSE zombie_q
    /\ ready_q' = IF queue = << >> THEN queue ELSE Tail(queue)
    /\ state' = [state EXCEPT ![cur] = IF rotate THEN "READY" ELSE @,
                              ![next] = "RUNNING"]
    /\ core_id' = [core_id EXCEPT ![cur] = NoCore, ![next] = c]
    /\ pending' = IF zombie THEN [pending EXCEPT ![c] = @ \cup {"GC"}] ELSE pending
    /\ current' = [current EXCEPT ![c] = next]
    /\ HandlerGoTo(c, "eret")
    /\ UNCHANGED <<expired, sleep_q, kept, sp, elr, ctx, locks>>

\* "mov sp, x0", RESTORE_CONTEXT from next->frame and eret.
IrqReturn(c) ==
    /\ irq[c] = "eret"
    /\ sp' = [sp EXCEPT ![c] = current[c]]
    /\ GoTo(c, frame[current[c]])
    /\ HandlerGoTo(c, "none")
    /\ UNCHANGED <<tasks, frame, queues, kept, current, elr, pending, locks>>

\* reaper_service().
GcLock(c) ==
    /\ irq[c] = "gc"
    /\ sched_lock = 0
    /\ sched_lock' = 1
    /\ HandlerGoTo(c, "reaping")
    /\ UNCHANGED <<tasks, frame, queues, kept, cpu, ctx, pending, kernel_lock>>

\* One turn of its loop: a zombie that no core is on is reported and freed
\* (mm_free_pages(), mem_zero()), one that a core still returns from is kept.
Reap(c) ==
    LET z == Head(zombie_q) IN
    /\ irq[c] = "reaping"
    /\ zombie_q # << >>
    /\ zombie_q' = Tail(zombie_q)
    /\ IF core_id[z] = NoCore
          THEN /\ kernel_lock = 0
               /\ state' = [state EXCEPT ![z] = "EMPTY"]
               /\ core_id' = [core_id EXCEPT ![z] = 0]
               /\ frame' = [frame EXCEPT ![z] = "none"]
               /\ UNCHANGED kept
          ELSE /\ kept' = [kept EXCEPT ![c] = task_enqueue(@, z)]
               /\ UNCHANGED <<state, core_id, frame>>
    /\ UNCHANGED <<expired, ready_q, sleep_q, cpu, ctx, irq, pending, locks>>

GcUnlock(c) ==
    /\ irq[c] = "reaping"
    /\ zombie_q = << >>
    /\ zombie_q' = kept[c]
    /\ kept' = [kept EXCEPT ![c] = << >>]
    /\ sched_lock' = 0
    /\ HandlerGoTo(c, "none")
    /\ UNCHANGED <<tasks, frame, ready_q, sleep_q, cpu, ctx, pending, kernel_lock>>

\* dispatch_interrupt(): the disk's handler acknowledges and prints.
Dispatch(c) ==
    /\ irq[c] = "dispatch"
    /\ kernel_lock = 0
    /\ HandlerGoTo(c, "none")
    /\ UNCHANGED <<tasks, frame, queues, kept, cpu, ctx, pending, locks>>

-----------------------------------------------------------------------------
(* The environment.                                                         *)

\* The countdown of an enrolled core ends.  It is quiet between
\* timer_disable_interrupts() and schedule_task(), and the 10 ms it is then
\* set to outlast the return from the interrupt.
TimerFires(c) ==
    /\ ctx[c] \notin {"offline", "boot"}
    /\ irq[c] \notin {"check", "checking", "sched", "eret"}
    /\ "TIMER" \notin pending[c]
    /\ pending' = [pending EXCEPT ![c] = @ \cup {"TIMER"}]
    /\ UNCHANGED <<tasks, frame, queues, kept, cpu, ctx, irq, locks>>

\* The clock reaches a sleeper's wake_tick.  sched_check_tasks() reads the
\* clock once, before its loop.
WakeTimePasses(t) ==
    /\ state[t] = "SLEEPING"
    /\ t \notin expired
    /\ \A c \in Cores : irq[c] # "checking"
    /\ expired' = expired \cup {t}
    /\ UNCHANGED <<state, core_id, frame, queues, kept, cpu, ctx, irq, pending, locks>>

-----------------------------------------------------------------------------
Boot(c)    == BootCreate(c) \/ BootEnable(c)

Service(c) == \/ PrintAcquire(c)   \/ PrintRelease(c)
              \/ SyscallAcquire(c) \/ SyscallRelease(c)
              \/ MsleepLock(c)     \/ MsleepUnlock(c)
              \/ CreateLock(c)     \/ CreateAdd(c)
              \/ CreateReport(c)   \/ CreateReported(c) \/ CreateUnlock(c)
              \/ Exit(c) \/ Launch(c) \/ Yield(c) \/ Resume(c)

Handler(c) == \/ CheckLock(c) \/ CheckWake(c) \/ CheckKeep(c) \/ CheckUnlock(c)
              \/ Schedule(c)  \/ IrqReturn(c)
              \/ GcLock(c) \/ Reap(c) \/ GcUnlock(c)
              \/ Dispatch(c)

Next == \/ \E c \in Cores :
              \/ Boot(c) \/ JoinCore(c) \/ Call(c) \/ Service(c) \/ Handler(c)
              \/ TimerFires(c)
              \/ \E i \in Interrupts : IrqTake(c, i)
        \/ \E t \in Tasks : WakeTimePasses(t)

\* A core keeps executing what it is at and takes an interrupt that is the
\* most urgent one again and again; a countdown ends; time passes (between
\* the loops of sched_check_tasks(), which read the clock once).  Nothing
\* makes a task call a service, or lets it call one between two ticks.
Fairness ==
    /\ \A c \in Cores : /\ WF_vars(Boot(c))
                         /\ WF_vars(Service(c))
                         /\ WF_vars(Handler(c))
                         /\ WF_vars(TimerFires(c))
                         /\ \A i \in Interrupts : SF_vars(IrqTake(c, i))
    /\ \A t \in Tasks : SF_vars(WakeTimePasses(t))

Spec == Init /\ [][Next]_vars /\ Fairness

-----------------------------------------------------------------------------
(* Properties.                                                              *)

Enrolled(c) == ctx[c] \notin {"offline"}

\* The variables have their types, and an enrolled core has a current thread.
TypeOK ==
    /\ state \in [Threads -> TaskStates]
    /\ core_id \in [Threads -> Cores \cup {NoCore}]
    /\ frame \in [Threads -> Pcs]
    /\ expired \subseteq Threads
    /\ ready_q \in Seq(Threads) /\ sleep_q \in Seq(Threads) /\ zombie_q \in Seq(Threads)
    /\ kept \in [Cores -> Seq(Threads)]
    /\ current \in [Cores -> Threads \cup {ZERO}]
    /\ \A c \in Cores : Enrolled(c) => current[c] \in Threads
    /\ sp \in [Cores -> Threads]
    /\ ctx \in [Cores -> Pcs]
    /\ elr \in [Cores -> {"app", "other"}]
    /\ irq \in [Cores -> HandlerPcs]
    /\ pending \in [Cores -> SUBSET Interrupts]
    /\ sched_lock \in {0, 1}
    /\ kernel_lock \in {0, 1}

NoDup(q) == \A i, j \in DOMAIN q : q[i] = q[j] => i = j

Keeping(c, h) == IF irq[c] = h THEN Image(kept[c]) ELSE {}

\* The tasks that a queue holds, those its loop has set aside included.
Sleepers == Image(sleep_q)  \cup UNION {Keeping(c, "checking") : c \in Cores}
Zombies  == Image(zombie_q) \cup UNION {Keeping(c, "reaping")  : c \in Cores}

IsCurrent(t) == \E c \in Cores : current[c] = t

\* No task is lost, none is queued twice, and no idle thread is queued:
\* whatever mix of ticks, sleeps, wake-ups and exits came before, a queue
\* holds distinct tasks of its own state, and a task that exists is where its
\* state says (schedule_task() and sched_check_tasks() move tasks between
\* three intrusive lists, where a second insertion would cut a list short).
TasksAccountedFor ==
    /\ NoDup(ready_q) /\ NoDup(sleep_q) /\ NoDup(zombie_q)
    /\ Image(ready_q) = {t \in Tasks : state[t] = "READY"}
    /\ Sleepers = {t \in Tasks : state[t] = "SLEEPING"}
    /\ \A t \in Tasks :
          /\ t \in Zombies      => state[t] = "ZOMBIE" /\ ~IsCurrent(t)
          /\ state[t] = "ZOMBIE" => t \in Zombies \/ IsCurrent(t)
          /\ state[t] = "RUNNING" => IsCurrent(t)

\* Two cores never have the same current thread.
OneCorePerThread ==
    \A c, d \in Cores : Enrolled(c) /\ Enrolled(d) /\ current[c] = current[d] => c = d

\* Code that a task executes, outside a handler, finds the task RUNNING:
\* msleep() does not return before the task has been woken and chosen again,
\* even if a tick intervenes between its unlock and its yield().
ActiveIsRunning ==
    \A c \in Cores :
        irq[c] = "none" /\ ctx[c] \notin {"offline", "yield", "yielded", "exited", "dead"}
            => state[current[c]] = "RUNNING"

\* reaper_service() never frees the stack a core is executing on.
StackNotFreed ==
    \A c \in Cores : sp[c] \in Tasks => state[sp[c]] # "EMPTY"

\* The threads at a position: a core's current thread is where the core is,
\* until schedule_task() has chosen the next one; any other is in its frame.
OnCore(t, c)  == current[c] = t /\ irq[c] # "eret"
Executing(pcs) == {t \in Threads : \/ \E c \in Cores : OnCore(t, c) /\ ctx[c] \in pcs
                                   \/ frame[t] \in pcs /\ \A c \in Cores : ~OnCore(t, c)}

\* A taken lock has exactly one holder, a free one has none: a thread inside
\* a critical section, running or switched out, or a handler in its loop.
\* create_task() holds both while it prints.
LocksHeldOnce ==
    /\ sched_lock = Cardinality(Executing(SchedHolders))
                    + Cardinality({c \in Cores : irq[c] \in {"checking", "reaping"}})
    /\ kernel_lock = Cardinality(Executing(ConsoleHolders))

Before(q, t, u) == \E i, j \in DOMAIN q : i < j /\ q[i] = t /\ q[j] = u

\* Round robin: nobody gets ahead of a task that is waiting to run who was not
\* ahead of it already, so that it waits for each other task at most once.
NoOvertaking ==
    [][\A t \in Image(ready_q) \cap Image(ready_q') : \A u \in Image(ready_q') :
          Before(ready_q', u, t) => Before(ready_q, u, t)]_vars

\* A sleeper leaves SLEEPING only when its wake_tick has passed, whatever
\* interrupts are taken between msleep()'s unlock and its yield().
NeverWokenEarly ==
    [][\A t \in Tasks : state[t] = "SLEEPING" /\ state'[t] # "SLEEPING"
          => t \in expired]_vars

\* A task that has exited never runs as RUNNING or READY again: only the
\* reaper changes its state, and no core has it as its current thread, or is
\* on its stack, by then.
ZombieOnlyReaped ==
    [][\A t \in Tasks : state[t] = "ZOMBIE" /\ state'[t] # "ZOMBIE"
          => /\ state'[t] = "EMPTY"
             /\ \A c \in Cores : current[c] # t /\ sp[c] # t]_vars

\* A handler of core c spins on a lock.
SpinsOnSched(c)   == irq[c] \in {"check", "sched", "gc"} /\ sched_lock = 1
SpinsOnConsole(c) ==
    /\ kernel_lock = 1
    /\ \/ irq[c] = "dispatch"
       \/ irq[c] = "reaping" /\ zombie_q # << >> /\ core_id[Head(zombie_q)] = NoCore

\* On one core, where nobody can release a lock that a handler spins on, a
\* handler finds sched_lock taken only inside msleep() or create_task(), and
\* the console only if a task, never a system call, has been interrupted in
\* its print, or a disk interrupt has come in create_task()'s own: the tick,
\* the reaper and the drivers never lock each other out.
SpinsOnlyOnInterrupted ==
    \A c \in Cores :
        /\ SpinsOnSched(c) => ctx[c] \in SchedHolders
        /\ SpinsOnConsole(c) =>
              /\ Executing({"sysprint"}) = {}
              /\ \/ Executing({"printing"}) # {}
                 \/ irq[c] = "dispatch" /\ ctx[c] = "reporting"

\* One core has stopped: a handler, or a system call that runs with interrupts
\* masked, spins on a lock that an interrupted thread holds.
Wedged ==
    \E c \in Cores : \/ SpinsOnSched(c) \/ SpinsOnConsole(c)
                     \/ At(c, "syscall") /\ kernel_lock = 1

\* A task that is ready gets the core, though ready tasks are put back behind
\* it all the time, unless the core stops.
ReadyRuns == \A t \in Tasks : t \in Image(ready_q) ~> state[t] = "RUNNING" \/ Wedged

\* A sleeper is woken, though each tick empties and rebuilds the list of
\* sleepers, unless the core stops.
SleeperWakes == \A t \in Tasks : state[t] = "SLEEPING" ~> state[t] # "SLEEPING" \/ Wedged

\* A task that has exited gives its slot back, unless the core stops.
ZombieReaped == \A t \in Tasks : state[t] = "ZOMBIE" ~> state[t] # "ZOMBIE" \/ Wedged

\* "make sure we dont stall the cpu too much": the reaper service returns.
ReaperReturns == \A c \in Cores : irq[c] = "reaping" ~> irq[c] # "reaping"

\* "Saves all GPRs and system registers to the stack.  Restores state and
\* prepares for eret": the eret of kernel_main_thread() leads where the two
\* registers it has just written say, whatever interrupted it in between.
EretReachesApp == \A c \in Cores : At(c, "launch") => elr[c] = "app"

=============================================================================
