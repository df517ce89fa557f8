-------------------------- MODULE SchedulerProofs --------------------------
(***************************************************************************)
(* Theorems about Scheduler: for one core, with every number of tasks and  *)
(* every set of services that the tasks use, and for every number of cores *)
(* whose tasks do not use msleep().                                        *)
(***************************************************************************)
EXTENDS Scheduler, FiniteSetTheorems, TLAPS

USE DEF At, GoTo, HandlerGoTo, tasks, queues, cpu, locks

-----------------------------------------------------------------------------
(* Queues.  Image and NoDup say all that the proofs need to know of one.    *)

LEMMA EmptyQueue == Image(<< >>) = {} /\ NoDup(<< >>)
BY DEF Image, NoDup

\* task_enqueue() adds its thread to the members of the queue, ...
LEMMA EnqueueImage ==
    ASSUME NEW S, NEW q \in Seq(S), NEW t \in S
    PROVE  /\ task_enqueue(q, t) \in Seq(S)
           /\ task_enqueue(q, t) # << >>
           /\ Image(task_enqueue(q, t)) = Image(q) \cup {t}
<1> DEFINE r == task_enqueue(q, t)
<1>1. r \in Seq(S) /\ Len(r) = Len(q) + 1 /\ Len(q) \in Nat
  BY DEF task_enqueue
<1>2. /\ DOMAIN r = 1..(Len(q) + 1)
      /\ DOMAIN q = 1..Len(q)
      /\ r[Len(q) + 1] = t
      /\ \A i \in 1..Len(q) : r[i] = q[i]
  BY DEF task_enqueue
<1>3. ASSUME NEW x \in Image(r) PROVE x \in Image(q) \cup {t}
  <2>1. PICK i \in 1..(Len(q) + 1) : x = r[i]
    BY <1>2 DEF Image
  <2> QED
    BY <2>1, <1>1, <1>2 DEF Image
<1>4. ASSUME NEW x \in Image(q) \cup {t} PROVE x \in Image(r)
  BY <1>1, <1>2 DEF Image
<1>5. r # << >>
  BY <1>1
<1> QED
  BY <1>1, <1>3, <1>4, <1>5

\* ... and keeps them distinct if the thread is not one of them.
LEMMA EnqueueNoDup ==
    ASSUME NEW S, NEW q \in Seq(S), NEW t \in S, t \notin Image(q), NoDup(q)
    PROVE  NoDup(task_enqueue(q, t))
BY DEF Image, NoDup, task_enqueue

\* The head of a queue is a member.
LEMMA HeadFacts ==
    ASSUME NEW S, NEW q \in Seq(S), q # << >>
    PROVE  /\ Head(q) \in S
           /\ Head(q) \in Image(q)
           /\ Tail(q) \in Seq(S)
BY DEF Image

\* task_dequeue() takes the head, and nothing else, from distinct members.
LEMMA TailImage ==
    ASSUME NEW S, NEW q \in Seq(S), q # << >>, NoDup(q)
    PROVE  /\ NoDup(Tail(q))
           /\ Image(Tail(q)) = Image(q) \ {Head(q)}
<1>1. Len(q) \in Nat /\ Len(q) > 0 /\ DOMAIN q = 1..Len(q)
  OBVIOUS
<1>2. Head(q) = q[1] /\ DOMAIN Tail(q) = 1..(Len(q) - 1)
  BY <1>1
<1>3. \A i \in 1..(Len(q) - 1) : Tail(q)[i] = q[i + 1]
  BY <1>1
<1>4. NoDup(Tail(q))
  BY <1>1, <1>2, <1>3 DEF NoDup
<1>5. ASSUME NEW x \in Image(Tail(q)) PROVE x \in Image(q) \ {Head(q)}
  BY <1>1, <1>2, <1>3 DEF NoDup, Image
<1>6. ASSUME NEW x \in Image(q), x # Head(q) PROVE x \in Image(Tail(q))
  <2>1. PICK i \in 1..Len(q) : q[i] = x
    BY <1>1 DEF Image
  <2>2. i - 1 \in 1..(Len(q) - 1) /\ Tail(q)[i - 1] = x
    BY <2>1, <1>1, <1>2, <1>3, <1>6
  <2> QED
    BY <2>2, <1>2 DEF Image
<1> QED
  BY <1>4, <1>5, <1>6

\* Both, for the queues of threads.
LEMMA Enqueued ==
    ASSUME NEW q \in Seq(Threads), NEW t \in Threads, t \notin Image(q), NoDup(q)
    PROVE  /\ Image(task_enqueue(q, t)) = Image(q) \cup {t}
           /\ NoDup(task_enqueue(q, t))
BY EnqueueImage, EnqueueNoDup

-----------------------------------------------------------------------------
(* Types.  A core that is not enrolled is in no handler: that is why        *)
(* schedule_task() finds a current thread.                                  *)

TypeInv == TypeOK /\ \A c \in Cores : ctx[c] = "offline" => irq[c] = "none"

LEMMA IdFacts ==
    /\ 0 \in Cores
    /\ \A c \in Cores : c \in Nat /\ Idle(c) \in Threads /\ Idle(c) \in Nat /\ Idle(c) \notin Tasks
    /\ \A t \in Tasks : t \in Nat /\ t \in Threads
    /\ \A t \in Threads : t \in Nat /\ t # ZERO
    /\ \A c, d \in Cores : Idle(c) = Idle(d) => c = d
    /\ Threads = Tasks \cup Idles
    /\ NoCore \notin Cores
BY NumCoresAssumption, MaxTasksAssumption
   DEF Cores, Tasks, Threads, Idles, Idle, ZERO, NoCore

\* The initial state has the types.
LEMMA TypeInit == Init => TypeInv
<1> SUFFICES ASSUME Init PROVE TypeInv
  OBVIOUS
<1> QED
  BY IdFacts DEF Init, TypeInv, TypeOK, Enrolled, TaskStates, Pcs, HandlerPcs, Interrupts

\* create_task() puts one more thread into the ready queue.
LEMMA AddTaskTypes ==
    ASSUME TypeInv, AddTask \/ TableFull
    PROVE  /\ state' \in [Threads -> TaskStates]
           /\ core_id' \in [Threads -> Cores \cup {NoCore}]
           /\ frame' \in [Threads -> Pcs]
           /\ ready_q' \in Seq(Threads)
<1>1. CASE AddTask
  <2>1. PICK t \in Tasks : /\ state' = [state EXCEPT ![t] = "READY"]
                           /\ core_id' = [core_id EXCEPT ![t] = NoCore]
                           /\ frame' = [frame EXCEPT ![t] = "run"]
                           /\ ready_q' = task_enqueue(ready_q, t)
    BY <1>1 DEF AddTask, Empties
  <2> QED
    BY <2>1, IdFacts, EnqueueImage DEF TypeInv, TypeOK, TaskStates, Pcs
<1>2. CASE TableFull
  BY <1>2 DEF TableFull, TypeInv, TypeOK
<1> QED
  BY <1>1, <1>2

\* Every step of a core keeps the types.
LEMMA TypeThread ==
    ASSUME TypeInv, NEW c \in Cores, Boot(c) \/ JoinCore(c) \/ Call(c) \/ Service(c)
    PROVE  TypeInv'
<1> USE IdFacts DEF TypeInv, TypeOK, Enrolled, TaskStates, Pcs, HandlerPcs, Interrupts
<1>1. CASE BootCreate(c)
  BY <1>1, AddTaskTypes DEF BootCreate
<1>2. CASE BootEnable(c)
  BY <1>2 DEF BootEnable
<1>3. CASE JoinCore(c)
  BY <1>3 DEF JoinCore
<1>4. CASE Call(c)
  <2>1. PICK k \in Services : irq[c] = "none" /\ ctx[c] # "offline" /\ GoTo(c, k)
    BY <1>4, TaskCallsAssumption DEF Call, Services
  <2>2. k \in Pcs
    BY DEF Services
  <2>3. elr' \in [Cores -> {"app", "other"}]
    BY <1>4 DEF Call
  <2>4. UNCHANGED <<tasks, frame, queues, kept, current, sp, irq, pending, locks>>
    BY <1>4 DEF Call
  <2>5. ctx' \in [Cores -> Pcs]
    BY <2>1, <2>2
  <2>6. \A d \in Cores : /\ ctx'[d] = "offline" => irq'[d] = "none"
                         /\ ctx'[d] # "offline" => current'[d] \in Threads
    BY <2>1, <2>4
  <2> HIDE DEF Pcs, HandlerPcs, TaskStates, Interrupts
  <2> QED
    BY <2>3, <2>4, <2>5, <2>6
<1>5. CASE PrintAcquire(c)
  BY <1>5 DEF PrintAcquire
<1>6. CASE PrintRelease(c)
  BY <1>6 DEF PrintRelease
<1>7. CASE SyscallAcquire(c)
  BY <1>7 DEF SyscallAcquire
<1>8. CASE SyscallRelease(c)
  BY <1>8 DEF SyscallRelease
<1>9. CASE MsleepLock(c)
  BY <1>9 DEF MsleepLock
<1>10. CASE MsleepUnlock(c)
  <2>1. sleep_q' \in Seq(Threads)
    BY <1>10, EnqueueImage DEF MsleepUnlock
  <2>2. state' \in [Threads -> TaskStates]
    BY <1>10 DEF MsleepUnlock
  <2>3. ctx' \in [Cores -> Pcs] /\ \A d \in Cores : ctx'[d] = "offline" => irq'[d] = "none"
    BY <1>10 DEF MsleepUnlock
  <2> QED
    BY <1>10, <2>1, <2>2, <2>3 DEF MsleepUnlock
<1>11. CASE CreateLock(c)
  BY <1>11 DEF CreateLock
<1>12. CASE CreateAdd(c)
  <2>1. ctx' \in [Cores -> Pcs] /\ \A d \in Cores : ctx'[d] = "offline" => irq'[d] = "none"
    BY <1>12 DEF CreateAdd
  <2> QED
    BY SMTT(20), <1>12, <2>1, AddTaskTypes DEF CreateAdd
<1>17. CASE CreateReport(c)
  BY <1>17 DEF CreateReport
<1>18. CASE CreateReported(c)
  BY <1>18 DEF CreateReported
<1>19. CASE CreateUnlock(c)
  BY <1>19 DEF CreateUnlock
<1>13. CASE Exit(c)
  BY <1>13 DEF Exit
<1>14. CASE Launch(c)
  BY <1>14 DEF Launch
<1>15. CASE Yield(c)
  <2>1. ctx' \in [Cores -> Pcs] /\ \A d \in Cores : ctx'[d] = "offline" => irq'[d] = "none"
    BY <1>15 DEF Yield
  <2>2. pending' \in [Cores -> SUBSET Interrupts]
    BY <1>15 DEF Yield
  <2> QED
    BY <1>15, <2>1, <2>2 DEF Yield
<1>16. CASE Resume(c)
  BY <1>16 DEF Resume
<1> QED
  BY <1>1, <1>2, <1>3, <1>4, <1>5, <1>6, <1>7, <1>8, <1>9, <1>10, <1>11, <1>12, <1>13, <1>14, <1>15, <1>16, <1>17, <1>18, <1>19 DEF Boot, Service

\* Every step of a handler, or of the environment, keeps the types.
LEMMA TypeHandler ==
    ASSUME TypeInv, NEW c \in Cores,
           Handler(c) \/ TimerFires(c) \/ \E i \in Interrupts : IrqTake(c, i)
    PROVE  TypeInv'
<1> USE IdFacts DEF TypeInv, TypeOK, Enrolled, TaskStates, Pcs, HandlerPcs, Interrupts
<1>1. CASE CheckLock(c)
  BY <1>1 DEF CheckLock
<1>2. CASE CheckWake(c)
  BY <1>2, HeadFacts, EnqueueImage DEF CheckWake
<1>3. CASE CheckKeep(c)
  BY <1>3, HeadFacts, EnqueueImage DEF CheckKeep
<1>4. CASE CheckUnlock(c)
  BY <1>4 DEF CheckUnlock
<1>5. CASE Schedule(c)
  <2> DEFINE cur   == current[c]
             queue == IF Rotates(cur, c) THEN task_enqueue(ready_q, cur) ELSE ready_q
             next  == Chosen(queue, c)
  <2>1. cur \in Threads
    BY <1>5 DEF Schedule
  <2>2. queue \in Seq(Threads)
    BY <2>1, EnqueueImage
  <2>3. next \in Threads /\ (queue # << >> => Tail(queue) \in Seq(Threads))
    BY <2>2, HeadFacts DEF Chosen
  <2>4. zombie_q' \in Seq(Threads) /\ ready_q' \in Seq(Threads)
    BY <1>5, <2>1, <2>2, <2>3, EnqueueImage DEF Schedule
  <2>5. state' \in [Threads -> TaskStates]
    BY <1>5, <2>1, <2>3 DEF Schedule
  <2>10. core_id' \in [Threads -> Cores \cup {NoCore}]
    <3>1. core_id' = [[core_id EXCEPT ![cur] = NoCore] EXCEPT ![next] = c]
      BY <1>5 DEF Schedule
    <3> QED
      BY <3>1, <2>1, <2>3
  <2>6. frame' \in [Threads -> Pcs]
    BY <1>5, <2>1 DEF Schedule
  <2>11. /\ current' \in [Cores -> Threads \cup {ZERO}]
         /\ \A d \in Cores : Enrolled(d)' => current'[d] \in Threads
    BY <1>5, <2>3 DEF Schedule
  <2>7. pending' \in [Cores -> SUBSET Interrupts]
    BY <1>5 DEF Schedule
  <2>8. irq' \in [Cores -> HandlerPcs]
    BY <1>5 DEF Schedule
  <2>9. \A d \in Cores : ctx'[d] = "offline" => irq'[d] = "none"
    BY <1>5 DEF Schedule
  <2> QED
    <3>1. UNCHANGED <<expired, sleep_q, kept, sp, elr, ctx, locks>>
      BY <1>5 DEF Schedule
    <3> HIDE DEF Pcs, HandlerPcs, TaskStates, Interrupts
    <3> QED
      BY <2>4, <2>5, <2>6, <2>7, <2>8, <2>9, <2>10, <2>11, <3>1
<1>6. CASE IrqReturn(c)
  BY <1>6 DEF IrqReturn
<1>7. CASE GcLock(c)
  BY <1>7 DEF GcLock
<1>8. CASE Reap(c)
  <2> DEFINE z == Head(zombie_q)
  <2>1. z \in Threads /\ Tail(zombie_q) \in Seq(Threads)
    BY <1>8, HeadFacts DEF Reap
  <2>2. task_enqueue(kept[c], z) \in Seq(Threads)
    BY <2>1, EnqueueImage
  <2>3. CASE core_id[z] = NoCore
    <3>1. /\ state' = [state EXCEPT ![z] = "EMPTY"]
          /\ core_id' = [core_id EXCEPT ![z] = 0]
          /\ frame' = [frame EXCEPT ![z] = "none"]
          /\ zombie_q' = Tail(zombie_q)
          /\ UNCHANGED <<kept, expired, ready_q, sleep_q, cpu, ctx, irq, pending, locks>>
      BY <1>8, <2>3 DEF Reap
    <3> QED
      BY <3>1, <2>1
  <2>4. CASE core_id[z] # NoCore
    <3>1. /\ kept' = [kept EXCEPT ![c] = task_enqueue(@, z)]
          /\ zombie_q' = Tail(zombie_q)
          /\ UNCHANGED <<tasks, frame, ready_q, sleep_q, cpu, ctx, irq, pending, locks>>
      BY <1>8, <2>4 DEF Reap
    <3>2. kept' \in [Cores -> Seq(Threads)]
      BY <3>1, <2>2
    <3> QED
      BY <3>1, <3>2, <2>1
  <2> QED
    BY <2>3, <2>4
<1>9. CASE GcUnlock(c)
  BY <1>9 DEF GcUnlock
<1>10. CASE Dispatch(c)
  BY <1>10 DEF Dispatch
<1>11. CASE TimerFires(c)
  BY <1>11 DEF TimerFires
<1>12. CASE \E i \in Interrupts : IrqTake(c, i)
  BY <1>12 DEF IrqTake, EntryOf, Masked, MaskedPcs
<1> QED
  BY <1>1, <1>2, <1>3, <1>4, <1>5, <1>6, <1>7, <1>8, <1>9, <1>10, <1>11, <1>12 DEF Handler

LEMMA TypeStep == TypeInv /\ [Next]_vars => TypeInv'
<1> SUFFICES ASSUME TypeInv, [Next]_vars PROVE TypeInv'
  OBVIOUS
<1>1. ASSUME NEW t \in Tasks, WakeTimePasses(t) PROVE TypeInv'
  BY <1>1, IdFacts DEF WakeTimePasses, TypeInv, TypeOK, Enrolled
<1>2. CASE UNCHANGED vars
  BY <1>2 DEF vars, TypeInv, TypeOK, Enrolled
<1> QED
  BY <1>1, <1>2, TypeThread, TypeHandler DEF Next

\* The variables of the scheduler always have their types, and every core
\* that runs it has a current thread: the null test of schedule_task() is
\* never taken.
THEOREM TypeCorrect == Spec => []TypeOK
<1>1. TypeInv => TypeOK
  BY DEF TypeInv
<1> QED
  BY <1>1, TypeInit, TypeStep, PTL DEF Spec

-----------------------------------------------------------------------------
(* The scheduler of one core, which is what the shipped boot runs.  The     *)
(* properties are not inductive: that a task is queued once rests on what   *)
(* a thread may be doing while it is not RUNNING, and that on the position  *)
(* it is resumed at.                                                        *)

\* Positions of a task, and those it has while it is not RUNNING.
TaskPcs  == Pcs \ {"offline", "boot", "idle", "none"}
AwayPcs  == {"yield", "yielded", "exited", "dead"}
LoopPcs  == {"checking", "reaping"}
IdleNow  == current[0] = Idle(0)

\* Where the core is: on the stack of its current thread, except between
\* schedule_task() and eret; the idle thread is in its loop and never calls a
\* service; a handler has not interrupted a thread that masks interrupts.
PlaceInv ==
    /\ current[0] \in Threads
    /\ irq[0] # "eret" => sp[0] = current[0]
    /\ irq[0] # "eret" => ctx[0] \in IF IdleNow THEN {"boot", "idle"} ELSE TaskPcs
    /\ irq[0] = "eret" => frame[current[0]] \in IF IdleNow THEN {"idle"} ELSE TaskPcs
    /\ irq[0] # "none" => ctx[0] \notin MaskedPcs
    /\ ~IdleNow => frame[Idle(0)] = "idle"

\* Threads that are switched out and will run again have a position to run at.
FrameInv ==
    \A t \in Tasks : state[t] \in {"READY", "SLEEPING"} /\ current[0] # t
        => frame[t] \in TaskPcs

\* The state of the current thread.  It is not RUNNING only on its way to the
\* scheduler: a tick is being handled, or the SGI of its yield() will be
\* taken before it goes on.
CurrentInv ==
    /\ state[Idle(0)] = "RUNNING"
    /\ state[current[0]] # "EMPTY"
    /\ state[sp[0]] # "EMPTY"
    /\ irq[0] = "eret" => state[current[0]] = "RUNNING"
    /\ ctx[0] \notin AwayPcs => state[current[0]] = "RUNNING"
    /\ state[current[0]] = "READY" => irq[0] \in {"checking", "sched"}
    /\ ctx[0] = "yielded" /\ state[current[0]] # "RUNNING"
          => "YIELD" \in pending[0] \/ irq[0] \in {"check", "checking", "sched"}

\* The queues hold distinct tasks, each in the queue of its state.
QueueInv ==
    /\ NoDup(ready_q) /\ NoDup(sleep_q) /\ NoDup(zombie_q) /\ NoDup(kept[0])
    /\ irq[0] \notin LoopPcs => kept[0] = << >>
    /\ irq[0] = "checking" => Image(kept[0]) \cap Image(sleep_q) = {}
    /\ irq[0] = "reaping" => kept[0] = << >>
    /\ Image(ready_q) = {t \in Tasks : state[t] = "READY"}
    /\ Image(sleep_q) \cup Image(kept[0]) = {t \in Tasks : state[t] = "SLEEPING"}
    /\ Image(zombie_q) = {t \in Tasks : state[t] = "ZOMBIE" /\ current[0] # t}
    /\ \A t \in Image(zombie_q) : core_id[t] = NoCore
    /\ \A t \in Tasks : state[t] = "RUNNING" => current[0] = t

OneCoreInv == TypeInv /\ PlaceInv /\ FrameInv /\ CurrentInv /\ QueueInv

LEMMA OneCore == ASSUME NumCores = 1 PROVE Cores = {0}
BY DEF Cores

LEMMA OneCoreInit == ASSUME NumCores = 1, Init PROVE OneCoreInv
<1>1. TypeInv
  BY TypeInit
<1>2. PlaceInv /\ FrameInv /\ CurrentInv
  BY OneCore, IdFacts DEF Init, PlaceInv, FrameInv, CurrentInv, IdleNow, MaskedPcs, AwayPcs
<1>3. QueueInv
  BY OneCore, IdFacts, EmptyQueue DEF Init, QueueInv, LoopPcs
<1> QED
  BY <1>1, <1>2, <1>3 DEF OneCoreInv

\* A thread that takes or releases a lock changes its position only.
LEMMA StepLocks ==
    ASSUME NumCores = 1, OneCoreInv,
           PrintAcquire(0) \/ PrintRelease(0) \/ SyscallAcquire(0)
           \/ SyscallRelease(0) \/ MsleepLock(0) \/ CreateLock(0)
           \/ CreateReport(0) \/ CreateReported(0) \/ CreateUnlock(0)
    PROVE  PlaceInv' /\ FrameInv' /\ CurrentInv' /\ QueueInv'
<1> USE OneCore, IdFacts DEF OneCoreInv, TypeInv, TypeOK, PrintAcquire, PrintRelease, SyscallAcquire, SyscallRelease, MsleepLock, CreateLock, CreateReport, CreateReported, CreateUnlock
<1>1. PlaceInv'
  <2>1. /\ irq[0] = "none"
        /\ ctx[0] \in {"console", "printing", "syscall", "sysprint", "msleep", "create",
                       "created", "reporting", "reported"}
        /\ ctx'[0] \in {"printing", "run", "sysprint", "app", "sleeping", "creating",
                        "reporting", "reported"}
        /\ UNCHANGED <<frame, current, sp, irq>>
    OBVIOUS
  <2>2. ctx[0] \in TaskPcs /\ ctx[0] \notin {"boot", "idle"} /\ ctx'[0] \in TaskPcs
    BY <2>1 DEF TaskPcs, Pcs
  <2> QED
    BY <2>1, <2>2 DEF PlaceInv, IdleNow
<1>2. FrameInv'
  BY DEF FrameInv, PlaceInv, TaskPcs, Pcs, IdleNow
<1>3. CurrentInv'
  BY DEF CurrentInv, PlaceInv, AwayPcs, TaskPcs, Pcs, IdleNow
<1>4. QueueInv'
  BY DEF QueueInv, CurrentInv, PlaceInv, LoopPcs, AwayPcs
<1> QED
  BY <1>1, <1>2, <1>3, <1>4

\* A thread that moves on.  Resume is where yield() must have worked.
LEMMA StepThread ==
    ASSUME NumCores = 1, OneCoreInv,
           BootEnable(0) \/ Launch(0) \/ Yield(0) \/ Resume(0)
    PROVE  PlaceInv' /\ FrameInv' /\ CurrentInv' /\ QueueInv'
<1> USE OneCore, IdFacts DEF OneCoreInv, TypeInv, TypeOK, BootEnable, Launch, Yield, Resume
<1>1. PlaceInv'
  <2> USE DEF PlaceInv, IdleNow, TaskPcs, Pcs, MaskedPcs, CurrentInv, AwayPcs
  <2>1. CASE BootEnable(0) \/ Launch(0)
    BY ZenonT(40), <2>1
  <2>2. CASE Yield(0)
    <3>1. CASE ctx[0] = "yield"
      BY <2>2, <3>1
    <3>2. CASE ctx[0] = "exited"
      BY <2>2, <3>2
    <3> QED
      BY <2>2, <3>1, <3>2
  <2>3. CASE Resume(0)
    BY <2>3
  <2> QED
    BY <2>1, <2>2, <2>3
<1>2. FrameInv'
  BY DEF FrameInv, PlaceInv, TaskPcs, Pcs, IdleNow
<1>3. CurrentInv'
  BY DEF CurrentInv, PlaceInv, AwayPcs, TaskPcs, Pcs, IdleNow
<1>4. QueueInv'
  BY DEF QueueInv, CurrentInv, PlaceInv, LoopPcs, AwayPcs
<1> QED
  BY <1>1, <1>2, <1>3, <1>4

\* task_exit() makes the current thread a zombie that is in no queue yet.
LEMMA StepExit ==
    ASSUME NumCores = 1, OneCoreInv,
           Exit(0)
    PROVE  PlaceInv' /\ FrameInv' /\ CurrentInv' /\ QueueInv'
<1> USE OneCore, IdFacts DEF OneCoreInv, TypeInv, TypeOK, Exit
<1>1. PlaceInv'
  BY DEF PlaceInv, IdleNow, TaskPcs, Pcs, MaskedPcs, CurrentInv, AwayPcs
<1>2. FrameInv'
  BY DEF FrameInv, PlaceInv, TaskPcs, Pcs, IdleNow
<1>3. CurrentInv'
  BY DEF CurrentInv, PlaceInv, AwayPcs, TaskPcs, Pcs, IdleNow
<1>4. QueueInv'
  BY DEF QueueInv, CurrentInv, PlaceInv, LoopPcs, AwayPcs
<1> QED
  BY <1>1, <1>2, <1>3, <1>4

\* A handler that moves on; a loop that ends hands back an empty local queue
\* or the sleepers it kept.
LEMMA StepHandler ==
    ASSUME NumCores = 1, OneCoreInv,
           CheckLock(0) \/ CheckUnlock(0) \/ IrqReturn(0) \/ GcLock(0)
           \/ GcUnlock(0) \/ Dispatch(0) \/ TimerFires(0)
    PROVE  PlaceInv' /\ FrameInv' /\ CurrentInv' /\ QueueInv'
<1> USE OneCore, IdFacts DEF OneCoreInv, TypeInv, TypeOK, CheckLock, CheckUnlock, IrqReturn, GcLock, GcUnlock, Dispatch, TimerFires
<1>1. PlaceInv'
  BY EmptyQueue DEF PlaceInv, IdleNow, TaskPcs, Pcs, MaskedPcs, CurrentInv, AwayPcs
<1>2. FrameInv'
  BY EmptyQueue DEF FrameInv, PlaceInv, TaskPcs, Pcs, IdleNow
<1>3. CurrentInv'
  BY EmptyQueue DEF CurrentInv, PlaceInv, AwayPcs, TaskPcs, Pcs, IdleNow
<1>4. QueueInv'
  BY EmptyQueue DEF QueueInv, CurrentInv, PlaceInv, LoopPcs, AwayPcs
<1> QED
  BY <1>1, <1>2, <1>3, <1>4

\* An interrupt is taken: a thread that waits for its yield() loses the SGI
\* and gains the handler.
LEMMA StepIrqTake ==
    ASSUME NumCores = 1, OneCoreInv, NEW i \in Interrupts, IrqTake(0, i)
    PROVE  PlaceInv' /\ FrameInv' /\ CurrentInv' /\ QueueInv'
<1> USE OneCore, IdFacts DEF OneCoreInv, TypeInv, TypeOK
<1>1. /\ irq[0] = "none" /\ ctx[0] \notin MaskedPcs
      /\ irq'[0] = EntryOf[i] /\ EntryOf[i] \in {"check", "gc", "dispatch"}
      /\ i = "YIELD" => EntryOf[i] = "check"
      /\ pending'[0] = pending[0] \ {i}
      /\ UNCHANGED <<tasks, frame, queues, kept, current, sp, ctx>>
  BY DEF IrqTake, Masked, EntryOf, Interrupts
<1>2. PlaceInv'
  BY <1>1 DEF PlaceInv, IdleNow
<1>3. FrameInv'
  BY <1>1 DEF FrameInv
<1>4. CurrentInv'
  BY <1>1 DEF CurrentInv
<1>5. QueueInv'
  BY <1>1 DEF QueueInv, LoopPcs
<1> QED
  BY <1>2, <1>3, <1>4, <1>5

\* A task calls a service: it is at a position of a task, and RUNNING.
LEMMA StepCall ==
    ASSUME NumCores = 1, OneCoreInv, Call(0)
    PROVE  PlaceInv' /\ FrameInv' /\ CurrentInv' /\ QueueInv'
<1> USE OneCore, IdFacts DEF OneCoreInv, TypeInv, TypeOK
<1>1. PICK k \in Services :
         /\ irq[0] = "none" /\ ctx[0] \in {"run", "app"}
         /\ ctx' = [ctx EXCEPT ![0] = k]
  BY TaskCallsAssumption DEF Call, Services
<1>2. UNCHANGED <<tasks, frame, queues, kept, current, sp, irq, pending, locks>>
  BY DEF Call
<1>3. k \in TaskPcs /\ k # "yielded"
  BY DEF Services, TaskPcs, Pcs
<1>4. PlaceInv'
  BY <1>1, <1>2, <1>3 DEF PlaceInv, IdleNow
<1>5. FrameInv'
  BY <1>1, <1>2, <1>3 DEF FrameInv
<1>6. CurrentInv'
  BY <1>1, <1>2, <1>3 DEF CurrentInv, AwayPcs
<1>7. QueueInv'
  BY <1>1, <1>2, <1>3 DEF QueueInv, LoopPcs
<1> QED
  BY <1>4, <1>5, <1>6, <1>7

\* A new task goes from no queue into the ready queue.
LEMMA StepCreate ==
    ASSUME NumCores = 1, OneCoreInv, BootCreate(0) \/ CreateAdd(0)
    PROVE  PlaceInv' /\ FrameInv' /\ CurrentInv' /\ QueueInv'
<1> USE OneCore, IdFacts DEF OneCoreInv, TypeInv, TypeOK
<1>1. /\ irq[0] = "none"
      /\ \/ ctx[0] = "boot" /\ ctx' = ctx
         \/ ctx[0] = "creating" /\ ctx' = [ctx EXCEPT ![0] = "created"]
      /\ UNCHANGED <<sleep_q, zombie_q, kept, current, sp, irq, pending>>
      /\ AddTask \/ TableFull
  BY DEF BootCreate, CreateAdd
<1>2. CASE TableFull
  <2>1. UNCHANGED <<state, core_id, frame, ready_q>>
    BY <1>2 DEF TableFull
  <2>2. PlaceInv'
    BY ZenonT(40), <1>1, <2>1 DEF PlaceInv, IdleNow, TaskPcs, Pcs
  <2>4. FrameInv'
    BY <1>1, <2>1 DEF FrameInv, TaskPcs, Pcs
  <2>3. CurrentInv' /\ QueueInv'
    BY <1>1, <2>1 DEF CurrentInv, QueueInv, AwayPcs, LoopPcs
  <2> QED
    BY <2>2, <2>3, <2>4
<1>3. CASE AddTask
  <2>1. PICK t \in Tasks : /\ state[t] = "EMPTY"
                           /\ state' = [state EXCEPT ![t] = "READY"]
                           /\ core_id' = [core_id EXCEPT ![t] = NoCore]
                           /\ frame' = [frame EXCEPT ![t] = "run"]
                           /\ ready_q' = task_enqueue(ready_q, t)
    BY <1>3 DEF AddTask, Empties
  <2>2. t # current[0] /\ t # sp[0]
    BY <2>1 DEF CurrentInv
  <2>3. /\ Image(ready_q') = Image(ready_q) \cup {t}
        /\ NoDup(ready_q')
    <3>1. t \in Threads /\ t \notin Image(ready_q) /\ NoDup(ready_q)
      BY <2>1 DEF QueueInv
    <3> QED
      BY <3>1, <2>1, Enqueued
  <2>4. PlaceInv'
    <3>1. CASE ctx[0] = "boot" /\ ctx' = ctx
      BY <1>1, <2>1, <2>2, <3>1 DEF PlaceInv, IdleNow, TaskPcs, Pcs
    <3>2. CASE ctx[0] = "creating" /\ ctx' = [ctx EXCEPT ![0] = "created"]
      BY <1>1, <2>1, <2>2, <3>2 DEF PlaceInv, IdleNow, TaskPcs, Pcs
    <3> QED
      BY <1>1, <3>1, <3>2
  <2>5. FrameInv'
    BY <1>1, <2>1 DEF FrameInv, TaskPcs, Pcs
  <2>6. CurrentInv'
    BY <1>1, <2>1, <2>2 DEF CurrentInv, PlaceInv, AwayPcs
  <2>7. QueueInv'
    BY <1>1, <2>1, <2>2, <2>3 DEF QueueInv, LoopPcs
  <2> QED
    BY <2>4, <2>5, <2>6, <2>7
<1> QED
  BY <1>1, <1>2, <1>3

\* msleep() puts its caller, which is RUNNING, into the sleep queue.
LEMMA StepMsleepUnlock ==
    ASSUME NumCores = 1, OneCoreInv, MsleepUnlock(0)
    PROVE  PlaceInv' /\ FrameInv' /\ CurrentInv' /\ QueueInv'
<1> USE OneCore, IdFacts DEF OneCoreInv, TypeInv, TypeOK
<1> DEFINE t == current[0]
<1>1. t \in Tasks /\ state[t] = "RUNNING" /\ sp[0] = t
  <2>1. irq[0] = "none" /\ ctx[0] = "sleeping"
    BY DEF MsleepUnlock
  <2>2. ~IdleNow /\ sp[0] = t /\ t \in Threads
    BY <2>1 DEF PlaceInv
  <2>3. state[t] = "RUNNING"
    BY <2>1 DEF CurrentInv, AwayPcs
  <2> QED
    BY <2>2, <2>3 DEF IdleNow, Idles
<1>2. /\ irq[0] = "none"
      /\ state' = [state EXCEPT ![t] = "SLEEPING"]
      /\ sleep_q' = task_enqueue(sleep_q, t)
      /\ ctx' = [ctx EXCEPT ![0] = "yield"]
      /\ UNCHANGED <<core_id, frame, ready_q, zombie_q, kept, current, sp, irq, pending>>
  BY <1>1 DEF MsleepUnlock
<1>3. Image(sleep_q') = Image(sleep_q) \cup {t} /\ NoDup(sleep_q')
  <2>1. t \in Threads /\ t \notin Image(sleep_q) /\ NoDup(sleep_q)
    BY <1>1 DEF QueueInv
  <2> QED
    BY <2>1, <1>2, Enqueued
<1>4. PlaceInv'
  BY <1>1, <1>2 DEF PlaceInv, IdleNow, TaskPcs, Pcs
<1>5. FrameInv'
  BY <1>1, <1>2 DEF FrameInv
<1>6. CurrentInv'
  BY <1>1, <1>2 DEF CurrentInv, AwayPcs
<1>7. QueueInv'
  BY <1>1, <1>2, <1>3 DEF QueueInv, LoopPcs
<1> QED
  BY <1>4, <1>5, <1>6, <1>7

\* A sleeper whose time has come moves to the ready queue, even if it is the
\* current thread, which has not yet reached its yield().
LEMMA StepCheckWake ==
    ASSUME NumCores = 1, OneCoreInv, CheckWake(0)
    PROVE  PlaceInv' /\ FrameInv' /\ CurrentInv' /\ QueueInv'
<1> USE OneCore, IdFacts DEF OneCoreInv, TypeInv, TypeOK
<1> DEFINE t == Head(sleep_q)
<1>1. t \in Image(sleep_q) /\ t \in Tasks /\ state[t] = "SLEEPING"
  BY HeadFacts DEF CheckWake, QueueInv
<1>2. /\ irq[0] = "checking"
      /\ state' = [state EXCEPT ![t] = "READY"]
      /\ ready_q' = task_enqueue(ready_q, t)
      /\ sleep_q' = Tail(sleep_q)
      /\ UNCHANGED <<core_id, frame, zombie_q, kept, current, sp, ctx, irq, pending>>
  BY DEF CheckWake
<1>3. Image(ready_q') = Image(ready_q) \cup {t} /\ NoDup(ready_q')
  <2>1. t \in Threads /\ t \notin Image(ready_q) /\ NoDup(ready_q)
    BY <1>1 DEF QueueInv
  <2> QED
    BY <2>1, <1>2, Enqueued
<1>4. Image(sleep_q') = Image(sleep_q) \ {t} /\ NoDup(sleep_q')
  BY <1>2, TailImage DEF QueueInv, CheckWake
<1>5. PlaceInv'
  BY <1>1, <1>2 DEF PlaceInv, IdleNow
<1>6. FrameInv'
  BY <1>1, <1>2 DEF FrameInv
<1>7. CurrentInv'
  BY <1>1, <1>2 DEF CurrentInv, PlaceInv
<1>8. QueueInv'
  BY <1>1, <1>2, <1>3, <1>4 DEF QueueInv, LoopPcs
<1> QED
  BY <1>5, <1>6, <1>7, <1>8

\* A sleeper that has to wait moves to the queue local to the loop.
LEMMA StepCheckKeep ==
    ASSUME NumCores = 1, OneCoreInv, CheckKeep(0)
    PROVE  PlaceInv' /\ FrameInv' /\ CurrentInv' /\ QueueInv'
<1> USE OneCore, IdFacts DEF OneCoreInv, TypeInv, TypeOK
<1> DEFINE t == Head(sleep_q)
<1>1. t \in Image(sleep_q) /\ t \in Tasks /\ t \notin Image(kept[0])
  BY HeadFacts DEF CheckKeep, QueueInv
<1>2. /\ irq[0] = "checking"
      /\ kept'[0] = task_enqueue(kept[0], t)
      /\ sleep_q' = Tail(sleep_q)
      /\ UNCHANGED <<tasks, frame, ready_q, zombie_q, current, sp, ctx, irq, pending>>
  BY DEF CheckKeep
<1>3. Image(kept'[0]) = Image(kept[0]) \cup {t} /\ NoDup(kept'[0])
  <2>1. t \in Threads /\ t \notin Image(kept[0]) /\ NoDup(kept[0])
    BY <1>1 DEF QueueInv
  <2> QED
    BY <2>1, <1>2, Enqueued
<1>4. Image(sleep_q') = Image(sleep_q) \ {t} /\ NoDup(sleep_q')
  BY <1>2, TailImage DEF QueueInv, CheckKeep
<1>5. PlaceInv' /\ FrameInv' /\ CurrentInv'
  BY <1>2 DEF PlaceInv, FrameInv, CurrentInv, IdleNow
<1>6. QueueInv'
  BY <1>1, <1>2, <1>3, <1>4 DEF QueueInv, LoopPcs
<1> QED
  BY <1>5, <1>6

\* reaper_service() frees a task that is neither current nor on the stack.
LEMMA StepReap ==
    ASSUME NumCores = 1, OneCoreInv, Reap(0)
    PROVE  PlaceInv' /\ FrameInv' /\ CurrentInv' /\ QueueInv'
<1> USE OneCore, IdFacts DEF OneCoreInv, TypeInv, TypeOK
<1> DEFINE z == Head(zombie_q)
<1>1. /\ z \in Image(zombie_q) /\ z \in Tasks /\ state[z] = "ZOMBIE"
      /\ z # current[0] /\ core_id[z] = NoCore
  BY HeadFacts DEF Reap, QueueInv
<1>2. irq[0] = "reaping" /\ sp[0] = current[0]
  BY DEF Reap, PlaceInv
<1>3. /\ state' = [state EXCEPT ![z] = "EMPTY"]
      /\ core_id' = [core_id EXCEPT ![z] = 0]
      /\ frame' = [frame EXCEPT ![z] = "none"]
      /\ zombie_q' = Tail(zombie_q)
      /\ UNCHANGED <<ready_q, sleep_q, kept, current, sp, ctx, irq, pending>>
  BY <1>1 DEF Reap
<1>4. Image(zombie_q') = Image(zombie_q) \ {z} /\ NoDup(zombie_q')
  BY <1>3, TailImage DEF QueueInv, Reap
<1>5. PlaceInv'
  BY <1>1, <1>2, <1>3 DEF PlaceInv, IdleNow
<1>6. FrameInv'
  BY <1>1, <1>2, <1>3 DEF FrameInv
<1>7. CurrentInv'
  BY <1>1, <1>2, <1>3 DEF CurrentInv
<1>8. QueueInv'
  BY <1>1, <1>2, <1>3, <1>4 DEF QueueInv, LoopPcs
<1> QED
  BY <1>5, <1>6, <1>7, <1>8

\* schedule_task().  A RUNNING task goes back to the ready queue, a zombie
\* goes to the reaper, a sleeper is in a queue already, and so is a thread
\* that was woken before it had left the core.
LEMMA StepSchedule ==
    ASSUME NumCores = 1, OneCoreInv, Schedule(0)
    PROVE  PlaceInv' /\ FrameInv' /\ CurrentInv' /\ QueueInv'
<1> USE OneCore, IdFacts DEF OneCoreInv, TypeInv, TypeOK
<1> DEFINE cur    == current[0]
           rotate == Rotates(cur, 0)
           zombie == state[cur] = "ZOMBIE"
           queue  == IF rotate THEN task_enqueue(ready_q, cur) ELSE ready_q
           next   == Chosen(queue, 0)
<1>1. /\ irq[0] = "sched"
      /\ frame' = [frame EXCEPT ![cur] = ctx[0]]
      /\ zombie_q' = IF zombie THEN task_enqueue(zombie_q, cur) ELSE zombie_q
      /\ ready_q' = IF queue = << >> THEN queue ELSE Tail(queue)
      /\ state' = [state EXCEPT ![cur] = IF rotate THEN "READY" ELSE @,
                                ![next] = "RUNNING"]
      /\ core_id' = [core_id EXCEPT ![cur] = NoCore, ![next] = 0]
      /\ current' = [current EXCEPT ![0] = next]
      /\ irq' = [irq EXCEPT ![0] = "eret"]
      /\ UNCHANGED <<sleep_q, kept, sp, ctx>>
  BY DEF Schedule
<1>2. cur \in Threads /\ sp[0] = cur /\ (cur \notin Tasks => cur = Idle(0))
  BY <1>1 DEF PlaceInv, Idles
<1>3. rotate <=> state[cur] = "RUNNING" /\ cur \in Tasks
  BY <1>2 DEF Rotates
\* The ready queue once the current thread has been put back.
<1>4. /\ queue \in Seq(Threads) /\ NoDup(queue)
      /\ Image(queue) = Image(ready_q) \cup (IF rotate THEN {cur} ELSE {})
  <2>1. NoDup(ready_q)
    BY DEF QueueInv
  <2>2. rotate => cur \notin Image(ready_q)
    BY <1>3 DEF QueueInv
  <2>3. CASE rotate
    BY <1>2, <2>1, <2>2, <2>3, Enqueued, EnqueueImage
  <2>4. CASE ~rotate
    BY <2>1, <2>4
  <2> QED
    BY <2>3, <2>4
\* The next thread is its head, or the idle thread if it is empty.
<1>5. /\ next \in Threads
      /\ NoDup(ready_q')
      /\ Image(ready_q') = Image(queue) \ {next}
      /\ next \in Tasks => next \in Image(queue)
      /\ next \notin Tasks => next = Idle(0)
  <2>1. Image(queue) \subseteq Tasks
    BY <1>3, <1>4 DEF QueueInv
  <2>2. CASE queue = << >>
    BY <1>1, <1>4, <2>1, <2>2, EmptyQueue DEF Chosen
  <2>3. CASE queue # << >>
    <3>1. next = Head(queue) /\ ready_q' = Tail(queue)
      BY <1>1, <2>3 DEF Chosen
    <3>2. next \in Image(queue)
      BY <3>1, <1>4, <2>3, HeadFacts
    <3>3. NoDup(ready_q') /\ Image(ready_q') = Image(queue) \ {next}
      BY <3>1, <1>4, <2>3, TailImage
    <3> QED
      BY <3>2, <3>3, <2>1
  <2> QED
    BY <2>2, <2>3
\* A task that is chosen is one that waits in the queue, or the current one.
<1>6. next \in Tasks => state[next] = "READY" \/ (next = cur /\ rotate)
  BY <1>4, <1>5 DEF QueueInv
<1>7. cur \in Tasks => ctx[0] \in TaskPcs
  BY <1>1 DEF PlaceInv, IdleNow
<1>8. cur = Idle(0) => ctx[0] = "idle"
  BY <1>1 DEF PlaceInv, IdleNow, MaskedPcs
<1>9. PlaceInv'
  <2>1. next \in Tasks => frame'[next] \in TaskPcs
    BY <1>1, <1>2, <1>5, <1>6, <1>7 DEF FrameInv
  <2>2. frame'[Idle(0)] = "idle"
    BY <1>1, <1>2, <1>8 DEF PlaceInv, IdleNow
  <2>3. ctx[0] \notin MaskedPcs
    BY <1>1 DEF PlaceInv
  <2>4. current'[0] = next /\ irq'[0] = "eret" /\ ctx'[0] = ctx[0]
    BY <1>1
  <2>5. next = Idle(0) \/ (next # Idle(0) /\ next \in Tasks)
    BY <1>5
  <2> QED
    BY <2>1, <2>2, <2>3, <2>4, <2>5, <1>5 DEF PlaceInv, IdleNow
<1>10. FrameInv'
  BY <1>1, <1>2, <1>5, <1>7 DEF FrameInv
\* What happens to the states.
<1>11. /\ state'[next] = "RUNNING"
       /\ cur # next => state'[cur] = IF rotate THEN "READY" ELSE state[cur]
       /\ \A t \in Threads : t # cur /\ t # next => state'[t] = state[t]
  BY <1>1, <1>2, <1>5
<1>12. CurrentInv'
  <2>1. state'[Idle(0)] = "RUNNING"
    BY <1>2, <1>3, <1>11 DEF CurrentInv
  <2>2. state'[cur] # "EMPTY"
    BY <1>11 DEF CurrentInv
  <2> QED
    BY <1>1, <1>2, <1>11, <2>1, <2>2 DEF CurrentInv
<1>13. QueueInv'
  <2>1. Image(ready_q') = {t \in Tasks : state'[t] = "READY"}
    BY SMTT(20), <1>2, <1>3, <1>4, <1>5, <1>6, <1>11 DEF QueueInv
  <2>2. {t \in Tasks : state'[t] = "SLEEPING"} = {t \in Tasks : state[t] = "SLEEPING"}
    <3>1. \A t \in Tasks : state'[t] = "SLEEPING" <=> state[t] = "SLEEPING"
      BY <1>2, <1>3, <1>5, <1>6, <1>11
    <3> QED
      BY <3>1
  <2>3. /\ NoDup(zombie_q')
        /\ Image(zombie_q') = Image(zombie_q) \cup (IF zombie THEN {cur} ELSE {})
    <3>1. cur \notin Image(zombie_q) /\ NoDup(zombie_q)
      BY DEF QueueInv
    <3>2. CASE zombie
      BY <1>1, <1>2, <3>1, <3>2, Enqueued
    <3>3. CASE ~zombie
      BY <1>1, <3>1, <3>3
    <3> QED
      BY <3>2, <3>3
  <2>4. zombie => cur \in Tasks /\ cur # next
    BY <1>2, <1>3, <1>6 DEF CurrentInv
  <2>5. Image(zombie_q') = {t \in Tasks : state'[t] = "ZOMBIE" /\ next # t}
    BY <1>2, <1>3, <1>5, <1>6, <1>11, <2>3, <2>4 DEF QueueInv
  <2>6. \A t \in Image(zombie_q') : core_id'[t] = NoCore
    BY <1>1, <1>2, <1>5, <1>6, <2>3, <2>4 DEF QueueInv
  <2>7. \A t \in Tasks : state'[t] = "RUNNING" => next = t
    BY <1>2, <1>3, <1>11 DEF QueueInv
  <2>8. kept' = kept /\ sleep_q' = sleep_q /\ irq'[0] = "eret" /\ current'[0] = next
    BY <1>1
  <2>9. /\ kept[0] = << >> /\ NoDup(kept[0]) /\ NoDup(sleep_q)
        /\ Image(sleep_q) \cup Image(kept[0]) = {t \in Tasks : state[t] = "SLEEPING"}
    BY <1>1 DEF QueueInv, LoopPcs
  <2> QED
    BY <1>5, <2>1, <2>2, <2>3, <2>5, <2>6, <2>7, <2>8, <2>9 DEF QueueInv, LoopPcs
<1> QED
  BY <1>9, <1>10, <1>12, <1>13

\* The invariant is inductive.
LEMMA OneCoreStep ==
    ASSUME NumCores = 1, OneCoreInv, [Next]_vars
    PROVE  OneCoreInv'
<1>1. TypeInv'
  BY TypeStep DEF OneCoreInv
<1>2. ASSUME NEW t \in Tasks, WakeTimePasses(t)
      PROVE  PlaceInv' /\ FrameInv' /\ CurrentInv' /\ QueueInv'
  BY <1>2, OneCore
     DEF WakeTimePasses, OneCoreInv, PlaceInv, FrameInv, CurrentInv, QueueInv, IdleNow
<1>3. CASE UNCHANGED vars
  BY <1>1, <1>3 DEF vars, OneCoreInv, PlaceInv, FrameInv, CurrentInv, QueueInv, IdleNow
<1>4. ASSUME NEW i \in Interrupts, IrqTake(0, i)
      PROVE  PlaceInv' /\ FrameInv' /\ CurrentInv' /\ QueueInv'
  BY <1>4, StepIrqTake
<1>5. ~JoinCore(0)
  BY OneCore DEF JoinCore, OneCoreInv, PlaceInv, TaskPcs
<1>6. CASE \E c \in Cores : \/ Boot(c) \/ JoinCore(c) \/ Call(c) \/ Service(c)
                            \/ Handler(c) \/ TimerFires(c)
  <2>1. \/ Boot(0) \/ Call(0) \/ Service(0) \/ Handler(0) \/ TimerFires(0)
    BY <1>5, <1>6, OneCore
  <2>2. PlaceInv' /\ FrameInv' /\ CurrentInv' /\ QueueInv'
    BY <2>1, StepCall, StepCreate, StepMsleepUnlock, StepCheckWake, StepCheckKeep,
       StepReap, StepSchedule, StepLocks, StepThread, StepExit, StepHandler
       DEF Boot, Service, Handler
  <2> QED
    BY <1>1, <2>2 DEF OneCoreInv
<1> QED
  BY <1>1, <1>2, <1>3, <1>4, <1>6, OneCore DEF Next, OneCoreInv

THEOREM OneCoreInvariant == ASSUME NumCores = 1 PROVE Spec => []OneCoreInv
BY OneCoreInit, OneCoreStep, PTL DEF Spec

-----------------------------------------------------------------------------
(* What the invariant gives.                                                *)

\* On one core no task is ever lost or queued twice: the three queues hold
\* exactly the tasks of their states, each once.
THEOREM AccountedForOnOneCore ==
    ASSUME NumCores = 1 PROVE Spec => []TasksAccountedFor
<1>1. OneCoreInv => TasksAccountedFor
  <2> SUFFICES ASSUME OneCoreInv PROVE TasksAccountedFor
    OBVIOUS
  <2>1. Zombies = Image(zombie_q)
    BY OneCore, EmptyQueue DEF Zombies, Keeping, OneCoreInv, QueueInv
  <2>2. Sleepers = Image(sleep_q) \cup Image(kept[0])
    BY OneCore, EmptyQueue DEF Sleepers, Keeping, OneCoreInv, QueueInv, LoopPcs
  <2>3. \A t \in Tasks : IsCurrent(t) <=> current[0] = t
    BY OneCore DEF IsCurrent
  <2> QED
    BY <2>1, <2>2, <2>3 DEF TasksAccountedFor, OneCoreInv, QueueInv
<1> QED
  BY <1>1, OneCoreInvariant, PTL

\* On one core msleep() never returns to a task that is not RUNNING.
THEOREM ActiveIsRunningOnOneCore ==
    ASSUME NumCores = 1 PROVE Spec => []ActiveIsRunning
<1>1. OneCoreInv => ActiveIsRunning
  <2> SUFFICES ASSUME OneCoreInv,
                      ctx[0] \notin {"offline", "yield", "yielded", "exited", "dead"}
               PROVE  state[current[0]] = "RUNNING"
    BY OneCore DEF ActiveIsRunning
  <2> QED
    BY DEF OneCoreInv, CurrentInv, AwayPcs
<1> QED
  BY <1>1, OneCoreInvariant, PTL

\* On one core the reaper never frees the stack that the core is on: between
\* schedule_task() and eret no other handler can run.
THEOREM StackNotFreedOnOneCore ==
    ASSUME NumCores = 1 PROVE Spec => []StackNotFreed
<1>1. OneCoreInv => StackNotFreed
  BY OneCore DEF OneCoreInv, CurrentInv, StackNotFreed
<1> QED
  BY <1>1, OneCoreInvariant, PTL

\* schedule_task() chooses the thread it has put back or one that waited.
LEMMA ChosenMember ==
    ASSUME NEW c \in Cores, NEW q \in Seq(Threads), NEW cur \in Threads, NEW t \in Tasks,
           t = Chosen(IF Rotates(cur, c) THEN task_enqueue(q, cur) ELSE q, c),
           ~(t = cur /\ Rotates(cur, c))
    PROVE  t \in Image(q)
<1>1. Idle(c) \notin Tasks
  BY IdFacts
<1>2. CASE Rotates(cur, c)
  <2>1. /\ task_enqueue(q, cur) \in Seq(Threads)
        /\ task_enqueue(q, cur) # << >>
        /\ Image(task_enqueue(q, cur)) = Image(q) \cup {cur}
    BY EnqueueImage
  <2>2. t = Head(task_enqueue(q, cur))
    BY <1>2, <2>1 DEF Chosen
  <2>3. t \in Image(q) \cup {cur}
    BY <2>1, <2>2, HeadFacts
  <2> QED
    BY <1>2, <2>3
<1>3. CASE ~Rotates(cur, c)
  <2>1. q # << >> /\ t = Head(q)
    BY <1>1, <1>3 DEF Chosen
  <2> QED
    BY <2>1, HeadFacts
<1> QED
  BY <1>2, <1>3

\* Which steps change the state of a task, and how.
LEMMA StateChange ==
    ASSUME NumCores = 1, OneCoreInv, [Next]_vars, NEW t \in Tasks, state'[t] # state[t]
    PROVE  \/ AddTask /\ state[t] = "EMPTY"
           \/ CheckWake(0) /\ state[t] = "SLEEPING" /\ t \in expired
           \/ Schedule(0) /\ state[t] \in {"RUNNING", "READY"}
           \/ Reap(0) /\ state[t] = "ZOMBIE" /\ state'[t] = "EMPTY"
              /\ current[0] # t /\ sp[0] # t
           \/ MsleepUnlock(0) /\ state[t] = "RUNNING"
           \/ Exit(0) /\ state[t] = "RUNNING"
<1> USE OneCore, IdFacts DEF OneCoreInv, TypeInv, TypeOK
<1>1. \/ BootCreate(0) \/ CreateAdd(0) \/ MsleepUnlock(0) \/ Exit(0)
      \/ CheckWake(0) \/ Schedule(0) \/ Reap(0) \/ JoinCore(0)
  BY DEF Next, vars, Boot, Service, Handler, BootEnable, Call, PrintAcquire,
         PrintRelease, SyscallAcquire, SyscallRelease, MsleepLock, CreateLock, CreateReport,
         CreateReported, CreateUnlock, Launch, Yield, Resume, CheckLock, CheckKeep, CheckUnlock, IrqReturn, GcLock, GcUnlock,
         Dispatch, TimerFires, IrqTake, WakeTimePasses
<1>2. ~JoinCore(0)
  BY DEF JoinCore, PlaceInv, TaskPcs
<1>3. CASE BootCreate(0) \/ CreateAdd(0)
  <2>1. AddTask
    BY <1>3 DEF BootCreate, CreateAdd, TableFull
  <2> QED
    BY <2>1 DEF AddTask, Empties
<1>4. CASE MsleepUnlock(0)
  BY <1>4 DEF MsleepUnlock, PlaceInv, CurrentInv, AwayPcs
<1>5. CASE Exit(0)
  BY <1>5 DEF Exit, CurrentInv, AwayPcs
<1>6. CASE CheckWake(0)
  BY <1>6, HeadFacts DEF CheckWake, QueueInv
<1>7. CASE Schedule(0)
  <2> DEFINE cur   == current[0]
             queue == IF Rotates(cur, 0) THEN task_enqueue(ready_q, cur) ELSE ready_q
             next  == Chosen(queue, 0)
  <2>1. \/ t = next
        \/ t = cur /\ Rotates(cur, 0)
    BY <1>7 DEF Schedule
  <2>2. cur \in Threads
    BY DEF PlaceInv
  <2>3. t = next /\ ~(t = cur /\ Rotates(cur, 0)) => t \in Image(ready_q)
    BY <2>2, ChosenMember
  <2> QED
    BY <1>7, <2>1, <2>3 DEF Rotates, QueueInv
<1>8. CASE Reap(0)
  BY <1>8, HeadFacts DEF Reap, QueueInv, PlaceInv
<1> QED
  BY <1>1, <1>2, <1>3, <1>4, <1>5, <1>6, <1>7, <1>8

\* On one core only its wake_tick gets a task out of SLEEPING.
THEOREM NeverWokenEarlyOnOneCore ==
    ASSUME NumCores = 1 PROVE Spec => NeverWokenEarly
<1>1. OneCoreInv /\ [Next]_vars
        => [\A t \in Tasks : state[t] = "SLEEPING" /\ state'[t] # "SLEEPING"
               => t \in expired]_vars
  BY StateChange
<1> QED
  BY <1>1, OneCoreInvariant, PTL DEF Spec, NeverWokenEarly

\* On one core a zombie is never scheduled again and leaves its state only
\* through the reaper, when neither the core's current thread nor its stack
\* is the zombie's.
THEOREM ZombieOnlyReapedOnOneCore ==
    ASSUME NumCores = 1 PROVE Spec => ZombieOnlyReaped
<1>1. OneCoreInv /\ [Next]_vars
        => [\A t \in Tasks : state[t] = "ZOMBIE" /\ state'[t] # "ZOMBIE"
               => /\ state'[t] = "EMPTY"
                  /\ \A c \in Cores : current[c] # t /\ sp[c] # t]_vars
  BY StateChange, OneCore
<1> QED
  BY <1>1, OneCoreInvariant, PTL DEF Spec, ZombieOnlyReaped

-----------------------------------------------------------------------------
(* The locks of one core.  LocksHeldOnce counts; the invariant says who     *)
(* holds a lock, and that a thread that holds sched_lock, or prints on      *)
(* behalf of EL0, is never switched out.                                    *)

\* Where a thread is, running or switched out.
Pos(t) == IF current[0] = t /\ irq[0] # "eret" THEN ctx[0] ELSE frame[t]

SchedLockInv ==
    /\ sched_lock = 1 <=> irq[0] \in LoopPcs \/ ctx[0] \in SchedHolders
    /\ irq[0] \in LoopPcs \cup {"eret"} => ctx[0] \notin SchedHolders
    /\ \A t \in Threads : frame[t] \notin SchedHolders \cup {"sysprint"}

ConsoleLockInv ==
    /\ kernel_lock = 1 <=> \E t \in Threads : Pos(t) \in ConsoleHolders
    /\ \A t, u \in Threads : Pos(t) \in ConsoleHolders /\ Pos(u) \in ConsoleHolders => t = u
    /\ \A t \in Tasks : state[t] \in {"EMPTY", "ZOMBIE"} => Pos(t) \notin ConsoleHolders

LockInv == OneCoreInv /\ SchedLockInv /\ ConsoleLockInv

LEMMA LockInit == ASSUME NumCores = 1, Init PROVE LockInv
<1>1. OneCoreInv
  BY OneCoreInit
<1>2. SchedLockInv
  BY OneCore, IdFacts DEF Init, SchedLockInv, LoopPcs, SchedHolders
<1>3. ConsoleLockInv
  <2>1. \A t \in Threads : Pos(t) \notin ConsoleHolders
    BY OneCore, IdFacts DEF Init, Pos, ConsoleHolders
  <2>2. kernel_lock = 0
    BY DEF Init
  <2> QED
    BY <2>1, <2>2, IdFacts DEF ConsoleLockInv
<1> QED
  BY <1>1, <1>2, <1>3 DEF LockInv

\* A new task's frame is no lock's.
LEMMA AddTaskFrame ==
    ASSUME TypeInv, AddTask \/ TableFull
    PROVE  \E t \in Threads :
              /\ \/ frame'[t] = frame[t]
                 \/ t \in Tasks /\ state[t] = "EMPTY" /\ frame'[t] = "run"
              /\ \A u \in Threads : u # t => frame'[u] = frame[u]
              /\ \A u \in Threads : state'[u] = state[u] \/ state'[u] = "READY"
<1> USE IdFacts DEF TypeInv, TypeOK
<1>1. CASE AddTask
  <2>1. PICK t \in Tasks : /\ state[t] = "EMPTY"
                           /\ state' = [state EXCEPT ![t] = "READY"]
                           /\ frame' = [frame EXCEPT ![t] = "run"]
    BY <1>1 DEF AddTask, Empties
  <2>2. t \in Threads
    OBVIOUS
  <2> QED
    BY <2>1, <2>2
<1>2. CASE TableFull
  <2>1. Idle(0) \in Threads
    OBVIOUS
  <2>2. state' = state /\ frame' = frame
    BY <1>2 DEF TableFull
  <2> QED
    BY <2>1, <2>2
<1> QED
  BY <1>1, <1>2

\* sched_lock, and what is switched out.
LEMMA SchedLockThread ==
    ASSUME NumCores = 1, LockInv, Boot(0) \/ Call(0) \/ Service(0)
    PROVE  SchedLockInv'
<1> USE OneCore, IdFacts DEF LockInv, OneCoreInv, TypeInv, TypeOK, SchedLockInv, SchedHolders, LoopPcs
<1>1. CASE BootCreate(0) \/ CreateAdd(0)
  <2>1. AddTask \/ TableFull
    BY <1>1 DEF BootCreate, CreateAdd
  <2>2. PICK t \in Threads :
              /\ frame'[t] = frame[t] \/ frame'[t] = "run"
              /\ \A u \in Threads : u # t => frame'[u] = frame[u]
    BY <2>1, AddTaskFrame
  <2>3. \A u \in Threads : frame'[u] \notin SchedHolders \cup {"sysprint"}
    BY <2>2
  <2> QED
    BY <1>1, <2>3 DEF BootCreate, CreateAdd
<1>2. CASE Call(0)
  <2>1. PICK k \in Services : irq[0] = "none" /\ ctx[0] \in {"run", "app"} /\ ctx'[0] = k
                              /\ UNCHANGED <<frame, irq, sched_lock>>
    BY <1>2, TaskCallsAssumption DEF Call, Services
  <2>2. k \notin SchedHolders
    BY DEF Services
  <2> QED
    BY <2>1, <2>2
<1>3. CASE MsleepLock(0) \/ CreateLock(0)
  BY <1>3 DEF MsleepLock, CreateLock
<1>4. CASE MsleepUnlock(0) \/ CreateUnlock(0)
  BY <1>4 DEF MsleepUnlock, CreateUnlock
<1>7. CASE CreateReport(0) \/ CreateReported(0)
  BY <1>7 DEF CreateReport, CreateReported
<1>5. CASE \/ BootEnable(0) \/ Launch(0) \/ Resume(0) \/ PrintAcquire(0)
           \/ PrintRelease(0) \/ SyscallAcquire(0) \/ SyscallRelease(0)
  BY <1>5 DEF BootEnable, Launch, Resume, PrintAcquire, PrintRelease, SyscallAcquire,
              SyscallRelease
<1>6. CASE Exit(0) \/ Yield(0)
  BY <1>6 DEF Exit, Yield
<1> QED
  BY <1>1, <1>2, <1>3, <1>4, <1>5, <1>6, <1>7 DEF Boot, Service

LEMMA SchedLockHandler ==
    ASSUME NumCores = 1, LockInv,
           Handler(0) \/ TimerFires(0) \/ \E i \in Interrupts : IrqTake(0, i)
    PROVE  SchedLockInv'
<1> USE OneCore, IdFacts DEF LockInv, OneCoreInv, TypeInv, TypeOK, SchedLockInv, SchedHolders, LoopPcs
<1>1. CASE CheckLock(0) \/ GcLock(0)
  BY <1>1 DEF CheckLock, GcLock
<1>2. CASE CheckUnlock(0) \/ GcUnlock(0)
  BY <1>2 DEF CheckUnlock, GcUnlock
<1>3. CASE CheckWake(0) \/ CheckKeep(0) \/ Dispatch(0) \/ TimerFires(0)
  BY <1>3 DEF CheckWake, CheckKeep, Dispatch, TimerFires
<1>4. CASE Reap(0)
  <2>1. /\ UNCHANGED <<ctx, irq, sched_lock>>
        /\ \A t \in Threads : frame'[t] \in {frame[t], "none"}
    BY <1>4, HeadFacts DEF Reap
  <2> QED
    BY <2>1
<1>5. CASE Schedule(0)
  <2>1. /\ irq[0] = "sched" /\ irq'[0] = "eret" /\ sched_lock = 0 /\ UNCHANGED <<ctx, sched_lock>>
        /\ frame' = [frame EXCEPT ![current[0]] = ctx[0]]
    BY <1>5 DEF Schedule
  <2>2. ctx[0] \notin SchedHolders \cup {"sysprint"}
    BY <2>1 DEF PlaceInv, MaskedPcs
  <2>3. \A t \in Threads : frame'[t] \in {frame[t], ctx[0]}
    BY <2>1
  <2> QED
    BY <2>1, <2>2, <2>3
<1>6. CASE IrqReturn(0)
  <2>1. frame[current[0]] \notin SchedHolders \cup {"sysprint"}
    BY DEF PlaceInv
  <2> QED
    BY <1>6, <2>1 DEF IrqReturn
<1>7. CASE \E i \in Interrupts : IrqTake(0, i)
  BY <1>7 DEF IrqTake, EntryOf, Masked, Interrupts
<1> QED
  BY <1>1, <1>2, <1>3, <1>4, <1>5, <1>6, <1>7 DEF Handler

\* kernel_lock.  A step that changes nothing of who prints keeps the invariant.
LEMMA ConsoleQuiet ==
    ASSUME LockInv, UNCHANGED kernel_lock,
           \A t \in Threads : Pos(t)' \in ConsoleHolders <=> Pos(t) \in ConsoleHolders,
           \A t \in Tasks : state'[t] \in {"EMPTY", "ZOMBIE"}
              => state[t] \in {"EMPTY", "ZOMBIE"} \/ Pos(t)' \notin ConsoleHolders
    PROVE  ConsoleLockInv'
BY IdFacts DEF LockInv, ConsoleLockInv

LEMMA ConsoleThread ==
    ASSUME NumCores = 1, LockInv, Boot(0) \/ Call(0) \/ Service(0)
    PROVE  ConsoleLockInv'
<1> USE OneCore, IdFacts DEF LockInv, OneCoreInv, TypeInv, TypeOK
<1>0. current[0] \in Threads /\ irq[0] = "none" /\ irq' = irq /\ current' = current
  BY DEF PlaceInv, Boot, BootCreate, BootEnable, Call, Service, PrintAcquire, PrintRelease,
         SyscallAcquire, SyscallRelease, MsleepLock, MsleepUnlock, CreateLock, CreateAdd,
         CreateReport, CreateReported, CreateUnlock, Exit, Launch, Yield, Resume
<1>1. CASE BootCreate(0) \/ CreateAdd(0)
  <2>1. AddTask \/ TableFull
    BY <1>1 DEF BootCreate, CreateAdd
  <2>2. PICK t \in Threads :
              /\ \/ frame'[t] = frame[t]
                 \/ t \in Tasks /\ state[t] = "EMPTY" /\ frame'[t] = "run"
              /\ \A u \in Threads : u # t => frame'[u] = frame[u]
              /\ \A u \in Threads : state'[u] = state[u] \/ state'[u] = "READY"
    BY <2>1, AddTaskFrame
  <2>3. ctx[0] \notin ConsoleHolders /\ ctx'[0] \notin ConsoleHolders /\ UNCHANGED kernel_lock
    BY <1>1 DEF BootCreate, CreateAdd, ConsoleHolders
  <2>4. \A u \in Threads : Pos(u)' \in ConsoleHolders <=> Pos(u) \in ConsoleHolders
    <3>1. Pos(current[0]) \notin ConsoleHolders /\ Pos(current[0])' \notin ConsoleHolders
      BY <1>0, <2>3 DEF Pos
    <3>2. ASSUME NEW u \in Threads, u # current[0]
          PROVE  Pos(u)' \in ConsoleHolders <=> Pos(u) \in ConsoleHolders
      <4>1. Pos(u) = frame[u] /\ Pos(u)' = frame'[u]
        BY <1>0, <3>2 DEF Pos
      <4>2. CASE u = t
        BY <2>2, <4>1, <4>2 DEF ConsoleLockInv, ConsoleHolders
      <4>3. CASE u # t
        BY <2>2, <4>1, <4>3
      <4> QED
        BY <4>2, <4>3
    <3> QED
      BY <1>0, <3>1, <3>2
  <2>5. \A u \in Tasks : state'[u] \in {"EMPTY", "ZOMBIE"} => state[u] \in {"EMPTY", "ZOMBIE"}
    BY <2>2
  <2> QED
    BY <2>3, <2>4, <2>5, ConsoleQuiet
<1>2. CASE \/ Call(0) \/ BootEnable(0) \/ MsleepLock(0) \/ MsleepUnlock(0) \/ CreateLock(0)
           \/ CreateUnlock(0) \/ Exit(0) \/ Launch(0) \/ Yield(0) \/ Resume(0)
  <2>1. ctx[0] \notin ConsoleHolders /\ ctx'[0] \notin ConsoleHolders /\ UNCHANGED <<frame, kernel_lock>>
    <3>1. CASE Call(0)
      BY <3>1, TaskCallsAssumption DEF Call, ConsoleHolders, Services
    <3>2. CASE ~Call(0)
      BY <1>2, <3>2 DEF BootEnable, MsleepLock, MsleepUnlock, CreateLock, CreateUnlock, Exit,
                        Launch, Yield, Resume, ConsoleHolders
    <3> QED
      BY <3>1, <3>2
  <2>2. \A u \in Threads : Pos(u)' \in ConsoleHolders <=> Pos(u) \in ConsoleHolders
    BY <1>0, <2>1 DEF Pos
  <2>3. \A u \in Tasks : state'[u] = state[u] \/ state'[u] = "SLEEPING" \/ u = current[0]
    <3>1. CASE MsleepUnlock(0)
      BY <3>1 DEF MsleepUnlock
    <3>2. CASE Exit(0)
      BY <1>0, <3>2 DEF Exit
    <3>3. CASE \/ Call(0) \/ BootEnable(0) \/ MsleepLock(0) \/ CreateLock(0)
               \/ CreateUnlock(0) \/ Launch(0) \/ Yield(0) \/ Resume(0)
      <4>1. state' = state
        BY <3>3 DEF Call, BootEnable, MsleepLock, CreateLock, CreateUnlock, Launch, Yield, Resume
      <4> QED
        BY <4>1
    <3> QED
      BY <1>2, <3>1, <3>2, <3>3
  <2>4. Pos(current[0])' \notin ConsoleHolders
    BY <1>0, <2>1 DEF Pos
  <2>5. \A u \in Tasks : state'[u] \in {"EMPTY", "ZOMBIE"}
           => state[u] \in {"EMPTY", "ZOMBIE"} \/ Pos(u)' \notin ConsoleHolders
    BY <1>0, <2>3, <2>4 DEF Pos
  <2>6. UNCHANGED kernel_lock
    BY <2>1
  <2> HIDE DEF LockInv, TypeOK
  <2> QED
    BY <2>2, <2>5, <2>6, ConsoleQuiet
<1>3. CASE PrintAcquire(0) \/ SyscallAcquire(0) \/ CreateReport(0)
  <2>1. /\ ctx[0] \in {"console", "syscall", "created"} /\ ctx'[0] \in ConsoleHolders
        /\ kernel_lock = 0 /\ kernel_lock' = 1 /\ UNCHANGED <<frame, state>>
    BY <1>3 DEF PrintAcquire, SyscallAcquire, CreateReport, ConsoleHolders
  <2>2. \A u \in Threads : Pos(u) \notin ConsoleHolders
    BY <2>1 DEF ConsoleLockInv
  <2>3. Pos(current[0])' \in ConsoleHolders /\ \A u \in Threads : u # current[0] => Pos(u)' \notin ConsoleHolders
    BY <1>0, <2>1, <2>2 DEF Pos
  <2>4. state[current[0]] = "RUNNING"
    BY <2>1 DEF CurrentInv, AwayPcs
  <2> QED
    BY <1>0, <2>1, <2>3, <2>4 DEF ConsoleLockInv
<1>4. CASE PrintRelease(0) \/ SyscallRelease(0) \/ CreateReported(0)
  <2>1. /\ ctx[0] \in ConsoleHolders /\ ctx'[0] \notin ConsoleHolders
        /\ kernel_lock' = 0 /\ UNCHANGED <<frame, state>>
    BY <1>4 DEF PrintRelease, SyscallRelease, CreateReported, ConsoleHolders
  <2>2. \A u \in Threads : u # current[0] => Pos(u) \notin ConsoleHolders
    BY <1>0, <2>1 DEF ConsoleLockInv, Pos
  <2>3. \A u \in Threads : Pos(u)' \notin ConsoleHolders
    BY <1>0, <2>1, <2>2 DEF Pos
  <2> QED
    BY <2>1, <2>3 DEF ConsoleLockInv
<1> QED
  BY <1>1, <1>2, <1>3, <1>4 DEF Boot, Service

LEMMA ConsoleHandler ==
    ASSUME NumCores = 1, LockInv,
           Handler(0) \/ TimerFires(0) \/ \E i \in Interrupts : IrqTake(0, i)
    PROVE  ConsoleLockInv'
<1> USE OneCore, IdFacts DEF LockInv, OneCoreInv, TypeInv, TypeOK
<1>1. CASE \/ CheckLock(0) \/ CheckWake(0) \/ CheckKeep(0) \/ CheckUnlock(0) \/ GcLock(0)
           \/ GcUnlock(0) \/ Dispatch(0) \/ TimerFires(0) \/ \E i \in Interrupts : IrqTake(0, i)
  <2>1. (irq[0] # "eret" /\ irq'[0] # "eret") \/ UNCHANGED irq
    BY <1>1 DEF CheckLock, CheckWake, CheckKeep, CheckUnlock, GcLock, GcUnlock, Dispatch,
                TimerFires, IrqTake, Masked, EntryOf, Interrupts
  <2>2. UNCHANGED <<current, ctx, frame, kernel_lock>>
    BY <1>1 DEF CheckLock, CheckWake, CheckKeep, CheckUnlock, GcLock, GcUnlock, Dispatch,
                TimerFires, IrqTake
  <2>3. \A t \in Threads : state'[t] = state[t] \/ state'[t] = "READY"
    BY <1>1 DEF CheckLock, CheckWake, CheckKeep, CheckUnlock, GcLock, GcUnlock, Dispatch,
                TimerFires, IrqTake
  <2> QED
    BY <2>1, <2>2, <2>3, ConsoleQuiet DEF Pos
<1>2. CASE Reap(0)
  <2> DEFINE z == Head(zombie_q)
  <2>1. z \in Tasks /\ state[z] = "ZOMBIE" /\ current[0] # z
    BY <1>2, HeadFacts DEF Reap, QueueInv
  <2>2. /\ UNCHANGED <<current, ctx, irq, kernel_lock>>
        /\ frame'[z] \in {frame[z], "none"}
        /\ \A t \in Threads \ {z} : frame'[t] = frame[t] /\ state'[t] = state[t]
    BY <1>2, <2>1 DEF Reap
  <2>3. Pos(z) \notin ConsoleHolders
    BY <2>1 DEF ConsoleLockInv
  <2>4. \A t \in Threads : Pos(t)' \in ConsoleHolders <=> Pos(t) \in ConsoleHolders
    BY <2>1, <2>2, <2>3 DEF Pos, ConsoleHolders
  <2> QED
    BY <2>1, <2>2, <2>4, ConsoleQuiet
<1>3. CASE Schedule(0)
  <2>1. /\ irq[0] = "sched" /\ irq'[0] = "eret" /\ UNCHANGED <<ctx, kernel_lock>>
        /\ frame' = [frame EXCEPT ![current[0]] = ctx[0]]
        /\ current[0] \in Threads
    BY <1>3 DEF Schedule, PlaceInv
  <2>2. \A t \in Threads : Pos(t)' = Pos(t)
    BY <2>1 DEF Pos
  <2>3. \A t \in Threads : state'[t] \in {"EMPTY", "ZOMBIE"} => state'[t] = state[t]
    BY <1>3 DEF Schedule
  <2> QED
    BY <2>1, <2>2, <2>3, ConsoleQuiet
<1>4. CASE IrqReturn(0)
  <2>1. irq[0] = "eret" /\ irq'[0] = "none" /\ ctx'[0] = frame[current[0]]
        /\ UNCHANGED <<current, frame, state, kernel_lock>>
    BY <1>4 DEF IrqReturn
  <2>2. \A t \in Threads : Pos(t)' = Pos(t)
    BY <2>1 DEF Pos
  <2> QED
    BY <2>1, <2>2, ConsoleQuiet
<1> QED
  BY <1>1, <1>2, <1>3, <1>4 DEF Handler

LEMMA LockStep == ASSUME NumCores = 1, LockInv, [Next]_vars PROVE LockInv'
<1>1. OneCoreInv'
  BY OneCoreStep DEF LockInv
<1>2. CASE \E c \in Cores : \/ Boot(c) \/ Call(c) \/ Service(c)
  BY <1>1, <1>2, OneCore, SchedLockThread, ConsoleThread DEF LockInv
<1>3. CASE \E c \in Cores : \/ Handler(c) \/ TimerFires(c)
                            \/ \E i \in Interrupts : IrqTake(c, i)
  BY <1>1, <1>3, OneCore, SchedLockHandler, ConsoleHandler DEF LockInv
<1>4. ~JoinCore(0)
  BY OneCore DEF JoinCore, LockInv, OneCoreInv, PlaceInv, TaskPcs
<1>5. CASE UNCHANGED vars \/ \E t \in Tasks : WakeTimePasses(t)
  <2>1. UNCHANGED <<state, frame, current, ctx, irq, sched_lock, kernel_lock>>
    BY <1>5 DEF vars, WakeTimePasses
  <2>2. SchedLockInv'
    BY <2>1 DEF LockInv, SchedLockInv
  <2>3. ConsoleLockInv'
    BY <2>1, ConsoleQuiet DEF Pos
  <2> QED
    BY <1>1, <2>2, <2>3 DEF LockInv
<1> QED
  BY <1>2, <1>3, <1>4, <1>5, OneCore DEF Next

LEMMA LockInvariant == ASSUME NumCores = 1 PROVE Spec => []LockInv
BY LockInit, LockStep, PTL DEF Spec

\* On one core the threads at some positions are those whose Pos is one.
LEMMA ExecutingPos ==
    ASSUME NumCores = 1, NEW pcs PROVE Executing(pcs) = {t \in Threads : Pos(t) \in pcs}
BY OneCore DEF Executing, OnCore, Pos

\* On one core each lock has exactly one holder while it is taken, whatever
\* interrupts and switches happen inside a critical section.
THEOREM LocksHeldOnceOnOneCore ==
    ASSUME NumCores = 1 PROVE Spec => []LocksHeldOnce
<1>1. LockInv => LocksHeldOnce
  <2> SUFFICES ASSUME LockInv PROVE LocksHeldOnce
    OBVIOUS
  <2> USE DEF LockInv, OneCoreInv, TypeInv, TypeOK
  <2> DEFINE S == Executing(SchedHolders)
             L == {c \in Cores : irq[c] \in {"checking", "reaping"}}
             K == Executing(ConsoleHolders)
  <2>1. S = {t \in Threads : Pos(t) \in SchedHolders} /\ K = {t \in Threads : Pos(t) \in ConsoleHolders}
    BY ExecutingPos
  <2>2. /\ Cardinality({}) = 0 /\ Cardinality({0}) = 1
        /\ \A t \in Threads : Cardinality({t}) = 1
    BY FS_EmptySet, FS_Singleton
  <2>3. S = IF ctx[0] \in SchedHolders THEN {current[0]} ELSE {}
    BY <2>1 DEF SchedLockInv, Pos, PlaceInv
  <2>4. L = IF irq[0] \in LoopPcs THEN {0} ELSE {}
    BY OneCore DEF LoopPcs
  <2>5. sched_lock = Cardinality(S) + Cardinality(L)
    <3>1. sched_lock \in {0, 1} /\ (sched_lock = 1 <=> irq[0] \in LoopPcs \/ ctx[0] \in SchedHolders)
          /\ (irq[0] \in LoopPcs => ctx[0] \notin SchedHolders)
      BY DEF SchedLockInv
    <3>2. CASE sched_lock = 0
      <4>1. S = {} /\ L = {}
        BY <2>3, <2>4, <3>1, <3>2
      <4> HIDE DEF S, L
      <4> QED
        BY <2>2, <3>2, <4>1
    <3>3. CASE irq[0] \in LoopPcs
      <4>1. S = {} /\ L = {0} /\ sched_lock = 1
        BY <2>3, <2>4, <3>1, <3>3
      <4> HIDE DEF S, L
      <4> QED
        BY <2>2, <4>1
    <3>4. CASE irq[0] \notin LoopPcs /\ sched_lock = 1
      <4>1. S = {current[0]} /\ L = {}
        BY <2>3, <2>4, <3>1, <3>4
      <4>2. Cardinality({current[0]}) = 1
        BY <2>2 DEF PlaceInv
      <4>3. Cardinality(S) = 1 /\ Cardinality(L) = 0
        BY <2>2, <4>1, <4>2
      <4> HIDE DEF S, L
      <4> QED
        BY <3>4, <4>3
    <3> QED
      BY <3>1, <3>2, <3>3, <3>4
  <2>6. kernel_lock = Cardinality(K)
    <3>1. CASE kernel_lock = 0
      <4>1. K = {}
        BY <2>1, <3>1 DEF ConsoleLockInv
      <4> QED
        BY <2>2, <3>1, <4>1
    <3>2. CASE kernel_lock = 1
      <4>1. PICK t \in Threads : Pos(t) \in ConsoleHolders
        BY <3>2 DEF ConsoleLockInv
      <4>2. K = {t}
        BY <2>1, <4>1 DEF ConsoleLockInv
      <4> QED
        BY <2>2, <3>2, <4>2
    <3> QED
      BY <3>1, <3>2
  <2> QED
    BY <2>5, <2>6 DEF LocksHeldOnce
<1> QED
  BY <1>1, LockInvariant, PTL

\* On one core a handler that spins does so because of the thread it has
\* interrupted in msleep() or create_task(), its print included, or of a
\* task's print.
THEOREM SpinsOnlyOnInterruptedOnOneCore ==
    ASSUME NumCores = 1 PROVE Spec => []SpinsOnlyOnInterrupted
<1>1. LockInv => SpinsOnlyOnInterrupted
  <2> DEFINE OwnReport == irq[0] = "dispatch" /\ ctx[0] = "reporting"
  <2> SUFFICES ASSUME LockInv
               PROVE  /\ SpinsOnSched(0)   => ctx[0] \in SchedHolders
                      /\ SpinsOnConsole(0) =>
                            /\ Executing({"sysprint"}) = {}
                            /\ Executing({"printing"}) # {} \/ OwnReport
    BY OneCore DEF SpinsOnlyOnInterrupted
  <2>1. SpinsOnSched(0) => ctx[0] \in SchedHolders
    BY DEF LockInv, SchedLockInv, LoopPcs, SpinsOnSched
  <2>2. ASSUME SpinsOnConsole(0)
        PROVE  /\ Executing({"sysprint"}) = {}
               /\ Executing({"printing"}) # {} \/ OwnReport
    <3>1. kernel_lock = 1 /\ irq[0] \in {"dispatch", "reaping"}
      BY <2>2 DEF SpinsOnConsole
    <3>2. \A t \in Threads : Pos(t) # "sysprint"
      BY <3>1 DEF Pos, LockInv, SchedLockInv, OneCoreInv, PlaceInv, MaskedPcs
    <3>3. PICK t \in Threads : Pos(t) \in {"printing", "reporting"}
      BY <3>1, <3>2 DEF LockInv, ConsoleLockInv, ConsoleHolders
    <3>4. CASE Pos(t) = "printing"
      BY <3>2, <3>4, ExecutingPos
    <3>5. CASE Pos(t) = "reporting"
      <4>1. ctx[0] = "reporting"
        BY <3>5 DEF Pos, LockInv, SchedLockInv, SchedHolders
      <4>2. irq[0] # "reaping"
        BY <4>1 DEF LockInv, SchedLockInv, SchedHolders, LoopPcs
      <4> QED
        BY <3>1, <3>2, <4>1, <4>2, ExecutingPos
    <3> QED
      BY <3>3, <3>4, <3>5
  <2> QED
    BY <2>1, <2>2
<1> QED
  BY <1>1, LockInvariant, PTL

-----------------------------------------------------------------------------
(* When one core stops.  The liveness properties promise something "unless  *)
(* Wedged": this says what that takes.                                      *)

\* The services that take a lock with interrupts on, and where they are.
OpenServices == {"console", "msleep", "create"}
OpenPcs == OpenServices \cup SchedHolders \cup {"printing"}

NobodyOpen == ctx[0] \notin OpenPcs /\ \A t \in Threads : frame[t] \notin OpenPcs

\* A core that has stopped has interrupted a thread that holds a lock, in
\* msleep(), in create_task() or in a task's print.
LEMMA WedgedByOpen ==
    ASSUME NumCores = 1, LockInv, Wedged
    PROVE  \E t \in Threads : Pos(t) \in SchedHolders \cup {"printing"}
<1> USE OneCore DEF LockInv, OneCoreInv
<1>1. CASE SpinsOnSched(0)
  <2>1. ctx[0] \in SchedHolders /\ irq[0] # "eret"
    BY <1>1 DEF SpinsOnSched, SchedLockInv, LoopPcs
  <2>2. current[0] \in Threads /\ Pos(current[0]) = ctx[0]
    BY <2>1 DEF PlaceInv, Pos
  <2> QED
    BY <2>1, <2>2 DEF SchedHolders
<1>2. CASE SpinsOnConsole(0) \/ (At(0, "syscall") /\ kernel_lock = 1)
  <2>1. kernel_lock = 1 /\ ctx[0] # "sysprint"
    BY <1>2 DEF SpinsOnConsole, PlaceInv, MaskedPcs
  <2>2. PICK t \in Threads : Pos(t) \in ConsoleHolders
    BY <2>1 DEF ConsoleLockInv
  <2>3. Pos(t) # "sysprint"
    BY <2>1, <2>2 DEF Pos, SchedLockInv
  <2> QED
    BY <2>2, <2>3 DEF ConsoleHolders, SchedHolders
<1> QED
  BY <1>1, <1>2 DEF Wedged

\* No thread gets to such a place without calling one of the three services.
LEMMA NobodyOpenStep ==
    ASSUME NumCores = 1, TaskCalls \cap OpenServices = {}, OneCoreInv, NobodyOpen, [Next]_vars
    PROVE  NobodyOpen'
<1> USE OneCore, IdFacts DEF OneCoreInv, TypeInv, TypeOK
<1>1. CASE Call(0)
  <2>1. PICK k \in Services \ OpenServices : ctx'[0] = k /\ frame' = frame
    BY <1>1, TaskCallsAssumption DEF Call, Services, OpenServices
  <2> QED
    BY <2>1 DEF NobodyOpen, Services, OpenServices, OpenPcs, SchedHolders
<1>2. CASE BootCreate(0)
  <2>1. AddTask \/ TableFull
    BY <1>2 DEF BootCreate
  <2>2. \A u \in Threads : frame'[u] \in {frame[u], "run"}
    BY <2>1, AddTaskFrame
  <2>3. ctx'[0] = ctx[0]
    BY <1>2 DEF BootCreate
  <2> QED
    BY <2>2, <2>3 DEF NobodyOpen, OpenPcs, OpenServices, SchedHolders
<1>3. CASE Schedule(0)
  <2>1. ctx' = ctx /\ \A t \in Threads : frame'[t] \in {frame[t], ctx[0]}
    BY <1>3 DEF Schedule
  <2> QED
    BY <2>1 DEF NobodyOpen
<1>4. CASE Reap(0)
  <2>1. ctx' = ctx /\ \A t \in Threads : frame'[t] \in {frame[t], "none"}
    BY <1>4, HeadFacts DEF Reap
  <2> QED
    BY <2>1 DEF NobodyOpen, OpenPcs, OpenServices, SchedHolders
<1>5. CASE IrqReturn(0)
  <2>1. ctx'[0] = frame[current[0]] /\ frame' = frame /\ current[0] \in Threads
    BY <1>5 DEF IrqReturn, PlaceInv
  <2> QED
    BY <2>1 DEF NobodyOpen
<1>6. CASE \/ BootEnable(0) \/ PrintRelease(0) \/ SyscallAcquire(0) \/ SyscallRelease(0)
           \/ MsleepUnlock(0) \/ Exit(0) \/ Launch(0) \/ Yield(0) \/ Resume(0)
  <2>1. frame' = frame /\ ctx'[0] \in {"idle", "run", "sysprint", "app", "yield", "exited",
                                       "yielded", "dead"}
    BY <1>6 DEF BootEnable, PrintRelease, SyscallAcquire, SyscallRelease, MsleepUnlock, Exit,
                Launch, Yield, Resume
  <2> QED
    BY <2>1 DEF NobodyOpen, OpenPcs, OpenServices, SchedHolders
<1>7. /\ ~PrintAcquire(0) /\ ~MsleepLock(0) /\ ~CreateLock(0) /\ ~CreateAdd(0)
      /\ ~CreateReport(0) /\ ~CreateReported(0) /\ ~CreateUnlock(0) /\ ~JoinCore(0)
  BY DEF NobodyOpen, OpenPcs, OpenServices, SchedHolders, PrintAcquire, MsleepLock, CreateLock, CreateAdd,
         CreateReport, CreateReported, CreateUnlock, JoinCore, PlaceInv, TaskPcs
<1>8. CASE \/ UNCHANGED vars \/ \E t \in Tasks : WakeTimePasses(t)
           \/ CheckLock(0) \/ CheckWake(0) \/ CheckKeep(0) \/ CheckUnlock(0) \/ GcLock(0)
           \/ GcUnlock(0) \/ Dispatch(0) \/ TimerFires(0) \/ \E i \in Interrupts : IrqTake(0, i)
  <2>1. ctx' = ctx /\ frame' = frame
    BY <1>8 DEF vars, WakeTimePasses, CheckLock, CheckWake, CheckKeep, CheckUnlock, GcLock,
                GcUnlock, Dispatch, TimerFires, IrqTake
  <2> QED
    BY <2>1 DEF NobodyOpen
<1> QED
  BY <1>1, <1>2, <1>3, <1>4, <1>5, <1>6, <1>7, <1>8 DEF Next, Boot, Service, Handler

\* A core whose tasks print only through the system call, and never call
\* msleep() or create_task(), does not stop: neither its ticks, nor its
\* reaper, nor its drivers, nor a system call ever wait for an interrupted
\* thread.
THEOREM NeverWedgedOnOneCore ==
    ASSUME NumCores = 1, TaskCalls \cap OpenServices = {}
    PROVE  Spec => []~Wedged
<1>1. Init => NobodyOpen
  BY OneCore, IdFacts DEF Init, NobodyOpen, OpenPcs, OpenServices, SchedHolders
<1>2. OneCoreInv /\ NobodyOpen /\ [Next]_vars => NobodyOpen'
  BY NobodyOpenStep
<1>3. LockInv /\ NobodyOpen => ~Wedged
  <2> SUFFICES ASSUME LockInv, NobodyOpen, Wedged PROVE FALSE
    OBVIOUS
  <2>1. PICK t \in Threads : Pos(t) \in SchedHolders \cup {"printing"}
    BY WedgedByOpen
  <2> QED
    BY <2>1 DEF NobodyOpen, OpenPcs, Pos
<1> QED
  BY <1>1, <1>2, <1>3, OneCoreInvariant, LockInvariant, PTL DEF Spec

-----------------------------------------------------------------------------
(* The order of the ready queue, for every number of cores.                 *)

\* A thread put at the tail is before nobody, ...
LEMMA EnqueueBefore ==
    ASSUME NEW q \in Seq(Threads), NEW x \in Threads, x \notin Image(q),
           NEW t \in Image(q), NEW u, Before(task_enqueue(q, x), u, t)
    PROVE  Before(q, u, t)
<1> DEFINE r == task_enqueue(q, x)
<1>1. /\ Len(q) \in Nat /\ DOMAIN q = 1..Len(q) /\ DOMAIN r = 1..(Len(q) + 1)
      /\ r[Len(q) + 1] = x
      /\ \A i \in 1..Len(q) : r[i] = q[i]
  BY DEF task_enqueue
<1>2. PICK i, j \in 1..(Len(q) + 1) : i < j /\ r[i] = u /\ r[j] = t
  BY <1>1 DEF Before
<1>3. j # Len(q) + 1
  BY <1>1, <1>2
<1>4. i \in 1..Len(q) /\ j \in 1..Len(q)
  BY <1>1, <1>2, <1>3
<1> QED
  BY <1>1, <1>2, <1>4 DEF Before

\* ... and taking the head away leaves the order of the others.
LEMMA TailBefore ==
    ASSUME NEW q \in Seq(Threads), q # << >>, NEW t, NEW u, Before(Tail(q), u, t)
    PROVE  Before(q, u, t)
<1>1. /\ Len(q) \in Nat /\ DOMAIN q = 1..Len(q) /\ DOMAIN Tail(q) = 1..(Len(q) - 1)
      /\ \A i \in 1..(Len(q) - 1) : Tail(q)[i] = q[i + 1]
  OBVIOUS
<1>2. PICK i, j \in 1..(Len(q) - 1) : i < j /\ Tail(q)[i] = u /\ Tail(q)[j] = t
  BY <1>1 DEF Before
<1>3. i + 1 \in 1..Len(q) /\ j + 1 \in 1..Len(q) /\ i + 1 < j + 1
  BY <1>1, <1>2
<1> QED
  BY <1>1, <1>2, <1>3 DEF Before

\* What a step does to the ready queue: nothing, or it puts a thread that is
\* not waiting at the tail, takes the head away, or does both.
LEMMA ReadyQueueStep ==
    ASSUME TypeInv, TasksAccountedFor, [Next]_vars
    PROVE  \/ ready_q' = ready_q
           \/ ready_q # << >> /\ ready_q' = Tail(ready_q)
           \/ \E x \in Threads :
                 /\ x \notin Image(ready_q)
                 /\ \/ ready_q' = task_enqueue(ready_q, x)
                    \/ ready_q' = Tail(task_enqueue(ready_q, x))
<1> USE IdFacts DEF TypeInv, TypeOK
<1>1. \/ ready_q' = ready_q
      \/ AddTask
      \/ \E c \in Cores : CheckWake(c) \/ Schedule(c)
  BY DEF Next, vars, Boot, Service, Handler, BootCreate, BootEnable, JoinCore, Call,
         PrintAcquire, PrintRelease, SyscallAcquire, SyscallRelease, MsleepLock,
         MsleepUnlock, CreateLock, CreateAdd, CreateReport, CreateReported,
         CreateUnlock, TableFull, Exit, Launch, Yield, Resume,
         CheckLock, CheckKeep, CheckUnlock, IrqReturn, GcLock, Reap, GcUnlock,
         Dispatch, TimerFires, IrqTake, WakeTimePasses
<1>2. CASE AddTask
  <2>1. PICK x \in Tasks : state[x] = "EMPTY" /\ ready_q' = task_enqueue(ready_q, x)
    BY <1>2 DEF AddTask, Empties
  <2>2. x \in Threads /\ x \notin Image(ready_q)
    BY <2>1 DEF TasksAccountedFor
  <2> QED
    BY <2>1, <2>2
<1>3. ASSUME NEW c \in Cores, CheckWake(c)
      PROVE  \E x \in Threads : x \notin Image(ready_q) /\ ready_q' = task_enqueue(ready_q, x)
  <2>1. Head(sleep_q) \in Image(sleep_q) /\ Head(sleep_q) \in Threads
    BY <1>3, HeadFacts DEF CheckWake
  <2>2. state[Head(sleep_q)] = "SLEEPING"
    BY <2>1 DEF TasksAccountedFor, Sleepers
  <2>3. Head(sleep_q) \notin Image(ready_q)
    BY <2>2 DEF TasksAccountedFor
  <2> QED
    BY <1>3, <2>1, <2>3 DEF CheckWake
<1>4. ASSUME NEW c \in Cores, Schedule(c)
      PROVE  \/ ready_q' = ready_q
             \/ ready_q # << >> /\ ready_q' = Tail(ready_q)
             \/ \E x \in Threads : /\ x \notin Image(ready_q)
                                   /\ ready_q' = Tail(task_enqueue(ready_q, x))
  <2> DEFINE cur == current[c]
  <2>1. cur \in Threads
    BY <1>4 DEF Schedule, Enrolled
  <2>2. CASE Rotates(cur, c)
    <3>1. cur \notin Image(ready_q)
      BY <2>2 DEF Rotates, TasksAccountedFor
    <3>2. ready_q' = Tail(task_enqueue(ready_q, cur))
      BY <1>4, <2>1, <2>2, EnqueueImage DEF Schedule
    <3> QED
      BY <2>1, <3>1, <3>2
  <2>3. CASE ~Rotates(cur, c)
    BY <1>4, <2>3 DEF Schedule
  <2> QED
    BY <2>2, <2>3
<1> QED
  BY <1>1, <1>2, <1>3, <1>4

\* As long as the tasks are accounted for, no step lets a thread overtake one
\* that waits, whichever of the cores it is a step of.
LEMMA NoStepOvertakes ==
    ASSUME TypeInv, TasksAccountedFor, [Next]_vars,
           NEW t \in Image(ready_q) \cap Image(ready_q'), NEW u \in Image(ready_q'),
           Before(ready_q', u, t)
    PROVE  Before(ready_q, u, t)
<1>1. ready_q \in Seq(Threads)
  BY DEF TypeInv, TypeOK
<1>2. CASE ready_q' = ready_q
  BY <1>2
<1>3. CASE ready_q # << >> /\ ready_q' = Tail(ready_q)
  BY <1>1, <1>3, TailBefore
<1>4. ASSUME NEW x \in Threads, x \notin Image(ready_q), ready_q' = task_enqueue(ready_q, x)
      PROVE  Before(ready_q, u, t)
  BY <1>1, <1>4, EnqueueBefore
<1>5. ASSUME NEW x \in Threads, x \notin Image(ready_q), ready_q' = Tail(task_enqueue(ready_q, x))
      PROVE  Before(ready_q, u, t)
  <2>1. task_enqueue(ready_q, x) \in Seq(Threads) /\ task_enqueue(ready_q, x) # << >>
    BY <1>1, EnqueueImage
  <2>2. Before(task_enqueue(ready_q, x), u, t)
    BY <1>5, <2>1, TailBefore
  <2> QED
    BY <1>1, <1>5, <2>2, EnqueueBefore
<1> QED
  BY <1>2, <1>3, <1>4, <1>5, ReadyQueueStep

\* On one core the ready queue is first come, first served.
THEOREM NoOvertakingOnOneCore ==
    ASSUME NumCores = 1 PROVE Spec => NoOvertaking
<1>1. TypeInv /\ TasksAccountedFor /\ [Next]_vars
        => [\A t \in Image(ready_q) \cap Image(ready_q') : \A u \in Image(ready_q') :
               Before(ready_q', u, t) => Before(ready_q, u, t)]_vars
  BY NoStepOvertakes
<1>2. Spec => []TypeInv
  BY TypeInit, TypeStep, PTL DEF Spec
<1> QED
  BY <1>1, <1>2, AccountedForOnOneCore, PTL DEF Spec, NoOvertaking

-----------------------------------------------------------------------------
(* Several cores, and tasks that never sleep: every service of the shipped  *)
(* threads is among them.  A sleeper breaks the properties, because another *)
(* core can wake and choose it while its own has not left it.  Without one, *)
(* a thread leaves its core only through schedule_task(), which is one      *)
(* critical section.                                                        *)

NobodySleeps ==
    /\ \A t \in Threads : state[t] # "SLEEPING" /\ frame[t] \notin {"msleep", "sleeping"}
    /\ \A c \in Cores : ctx[c] \notin {"msleep", "sleeping"} /\ kept[c] = << >>
    /\ sleep_q = << >>

OnIdle(c) == current[c] = Idle(c)

\* What PlaceInv and CurrentInv say of the one core, of each of several.  A
\* task is taken off its core RUNNING, or as the zombie that it has become.
CoreInv(c) ==
    IF ctx[c] = "offline"
    THEN current[c] = ZERO /\ irq[c] = "none"
    ELSE /\ current[c] \in Tasks \/ OnIdle(c)
         /\ state[Idle(c)] = "RUNNING"
         /\ irq[c] # "eret" => ctx[c] \in IF OnIdle(c) THEN {"boot", "idle"} ELSE TaskPcs
         /\ irq[c] = "eret" => frame[current[c]] \in IF OnIdle(c) THEN {"idle"} ELSE TaskPcs
         /\ irq[c] # "none" => ctx[c] \notin MaskedPcs
         /\ ~OnIdle(c) => frame[Idle(c)] = "idle"
         /\ irq[c] = "eret" => state[current[c]] = "RUNNING"
         /\ state[current[c]] # "RUNNING"
               => state[current[c]] = "ZOMBIE" /\ ctx[c] \in {"exited", "dead"}

\* No two cores have the same task, and a task that is to run again has a
\* position to run at.
CoresInv ==
    /\ \A c \in Cores : CoreInv(c)
    /\ \A c, d \in Cores : current[c] \in Tasks /\ current[c] = current[d] => c = d
    /\ \A t \in Tasks : state[t] = "READY" => frame[t] \in TaskPcs
    /\ \A c \in Cores : frame[Idle(c)] \in {"none", "idle"}

ListsInv ==
    /\ NoDup(ready_q) /\ NoDup(zombie_q)
    /\ Image(ready_q) = {t \in Tasks : state[t] = "READY"}
    /\ Image(zombie_q) = {t \in Tasks : state[t] = "ZOMBIE" /\ ~IsCurrent(t)}
    /\ \A t \in Image(zombie_q) : core_id[t] = NoCore
    /\ \A t \in Tasks : state[t] = "RUNNING" => IsCurrent(t)

SmpInv == TypeInv /\ NobodySleeps /\ CoresInv /\ ListsInv

LEMMA SmpInit == Init => SmpInv
<1> SUFFICES ASSUME Init PROVE SmpInv
  OBVIOUS
<1>1. TypeInv
  BY TypeInit
<1>2. NobodySleeps
  BY IdFacts DEF Init, NobodySleeps
<1>3. CoresInv
  BY IdFacts DEF Init, CoresInv, CoreInv, OnIdle, ZERO, Tasks
<1>4. ListsInv
  BY IdFacts, EmptyQueue DEF Init, ListsInv
<1> QED
  BY <1>1, <1>2, <1>3, <1>4 DEF SmpInv

\* A step that only moves core c on keeps the invariant if it holds of c.
LEMMA SmpMove ==
    ASSUME SmpInv, NEW c \in Cores, TypeInv', CoreInv(c)',
           ctx'[c] \notin {"msleep", "sleeping"},
           \A d \in Cores : d # c => ctx'[d] = ctx[d] /\ irq'[d] = irq[d],
           UNCHANGED <<state, core_id, frame, ready_q, sleep_q, zombie_q, kept, current>>
    PROVE  SmpInv'
<1> USE DEF SmpInv
<1>1. NobodySleeps'
  BY DEF NobodySleeps
<1>2. ASSUME NEW d \in Cores, d # c PROVE CoreInv(d)'
  BY <1>2 DEF CoresInv, CoreInv, OnIdle
<1>3. CoresInv'
  BY <1>2 DEF CoresInv
<1>4. ListsInv'
  BY DEF ListsInv, IsCurrent
<1> QED
  BY <1>1, <1>3, <1>4

LEMMA SmpThread ==
    ASSUME "msleep" \notin TaskCalls, SmpInv, TypeInv', NEW c \in Cores,
           \/ BootEnable(c) \/ Call(c) \/ PrintAcquire(c) \/ PrintRelease(c)
           \/ SyscallAcquire(c) \/ SyscallRelease(c) \/ CreateLock(c)
           \/ CreateReport(c) \/ CreateReported(c) \/ CreateUnlock(c)
           \/ Launch(c) \/ Yield(c) \/ Resume(c)
    PROVE  SmpInv'
<1> USE IdFacts DEF SmpInv, TypeInv, TypeOK
<1>1. PICK from, to \in Pcs :
         /\ irq[c] = "none" /\ ctx[c] = from /\ ctx' = [ctx EXCEPT ![c] = to]
         /\ \/ from = "boot" /\ to = "idle"
            \/ from \in {"exited"} /\ to = "dead"
            \/ /\ from \in TaskPcs \ {"exited", "dead"}
               /\ to \in TaskPcs \ {"msleep", "sleeping"}
  <2>1. irq[c] = "none" /\ ctx[c] \in Pcs
    BY DEF BootEnable, Call, PrintAcquire, PrintRelease, SyscallAcquire, SyscallRelease,
           CreateLock, CreateReport, CreateReported, CreateUnlock, Launch, Yield, Resume
  <2>2. CASE Call(c)
    <3>1. PICK k \in Services \ {"msleep"} :
             ctx[c] \in {"run", "app"} /\ ctx' = [ctx EXCEPT ![c] = k]
      BY <2>2, TaskCallsAssumption DEF Call, Services
    <3>2. k \in Pcs /\ k \in TaskPcs \ {"msleep", "sleeping"}
      BY DEF Services, TaskPcs, Pcs
    <3>3. ctx[c] \in TaskPcs \ {"exited", "dead"}
      BY <3>1 DEF TaskPcs, Pcs
    <3> QED
      BY <2>1, <3>1, <3>2, <3>3
  <2>3. CASE BootEnable(c)
    BY <2>1, <2>3 DEF BootEnable, Pcs
  <2>4. CASE Yield(c)
    <3>1. \/ ctx[c] = "yield"  /\ ctx' = [ctx EXCEPT ![c] = "yielded"]
          \/ ctx[c] = "exited" /\ ctx' = [ctx EXCEPT ![c] = "dead"]
      BY <2>4 DEF Yield
    <3> QED
      BY <2>1, <3>1 DEF TaskPcs, Pcs
  <2>5. CASE \/ PrintAcquire(c) \/ PrintRelease(c) \/ SyscallAcquire(c)
             \/ SyscallRelease(c) \/ CreateLock(c) \/ CreateReport(c)
             \/ CreateReported(c) \/ CreateUnlock(c) \/ Launch(c) \/ Resume(c)
    <3>1. /\ ctx[c] \in {"console", "printing", "syscall", "sysprint", "create", "created",
                         "reporting", "reported", "launch", "yielded"}
          /\ \/ ctx' = [ctx EXCEPT ![c] = "printing"]
             \/ ctx' = [ctx EXCEPT ![c] = "run"]
             \/ ctx' = [ctx EXCEPT ![c] = "sysprint"]
             \/ ctx' = [ctx EXCEPT ![c] = "app"]
             \/ ctx' = [ctx EXCEPT ![c] = "creating"]
             \/ ctx' = [ctx EXCEPT ![c] = "reporting"]
             \/ ctx' = [ctx EXCEPT ![c] = "reported"]
      BY <2>5 DEF PrintAcquire, PrintRelease, SyscallAcquire, SyscallRelease, CreateLock,
                  CreateReport, CreateReported, CreateUnlock, Launch, Resume
    <3>2. PICK to \in {"printing", "run", "sysprint", "app", "creating", "reporting", "reported"} :
             ctx' = [ctx EXCEPT ![c] = to]
      BY <3>1
    <3> HIDE DEF SmpInv, TypeInv, TypeOK
    <3>3. ctx[c] \in TaskPcs \ {"exited", "dead"}
      BY <3>1 DEF TaskPcs, Pcs
    <3>4. to \in Pcs /\ to \in TaskPcs \ {"msleep", "sleeping"}
      BY DEF TaskPcs, Pcs
    <3> QED
      BY <2>1, <3>2, <3>3, <3>4
  <2> QED
    BY <2>2, <2>3, <2>4, <2>5
<1>2. UNCHANGED <<state, core_id, frame, ready_q, sleep_q, zombie_q, kept, current, irq>>
  BY DEF BootEnable, Call, PrintAcquire, PrintRelease, SyscallAcquire, SyscallRelease,
         CreateLock, CreateReport, CreateReported, CreateUnlock, Launch, Yield, Resume
<1>3. CoreInv(c)'
  <2>1. CoreInv(c)
    BY DEF CoresInv
  <2> HIDE DEF SmpInv, TypeInv, TypeOK
  <2> QED
    BY <1>1, <1>2, <2>1 DEF CoreInv, OnIdle, TaskPcs, Pcs
<1>4. ctx'[c] = to /\ to \notin {"msleep", "sleeping"} /\ \A d \in Cores : d # c => ctx'[d] = ctx[d]
  BY <1>1
<1> HIDE DEF SmpInv, TypeInv, TypeOK
<1> QED
  BY <1>2, <1>3, <1>4, SmpMove

\* Without sleepers the loop of sched_check_tasks() has nothing to do, and
\* the reaper has nothing to hand back.
LEMMA SmpHandler ==
    ASSUME SmpInv, TypeInv', NEW c \in Cores,
           \/ CheckLock(c) \/ CheckUnlock(c) \/ IrqReturn(c) \/ GcLock(c) \/ GcUnlock(c)
           \/ Dispatch(c) \/ TimerFires(c) \/ \E i \in Interrupts : IrqTake(c, i)
    PROVE  SmpInv'
<1> USE IdFacts DEF SmpInv, TypeInv, TypeOK
<1>1. /\ UNCHANGED <<state, core_id, frame, ready_q, sleep_q, zombie_q, kept, current>>
      /\ \A d \in Cores : d # c => ctx'[d] = ctx[d] /\ irq'[d] = irq[d]
  <2>1. kept[c] = << >> /\ sleep_q = << >> /\ [kept EXCEPT ![c] = << >>] = kept
    BY DEF NobodySleeps
  <2>2. CASE CheckUnlock(c) \/ GcUnlock(c)
    BY <2>1, <2>2 DEF CheckUnlock, GcUnlock
  <2>3. CASE CheckLock(c) \/ IrqReturn(c) \/ GcLock(c)
    BY <2>3 DEF CheckLock, IrqReturn, GcLock
  <2>4. CASE Dispatch(c) \/ TimerFires(c) \/ \E i \in Interrupts : IrqTake(c, i)
    BY <2>4 DEF Dispatch, TimerFires, IrqTake
  <2> QED
    BY <2>2, <2>3, <2>4
<1>2. CoreInv(c) /\ ctx[c] \notin {"msleep", "sleeping"}
  BY DEF CoresInv, NobodySleeps
<1>3. CASE IrqReturn(c)
  <2>1. /\ irq[c] = "eret" /\ irq'[c] = "none" /\ ctx'[c] = frame[current[c]]
        /\ UNCHANGED <<state, frame, current>>
    BY <1>3 DEF IrqReturn
  <2>2. current[c] \in Threads
    BY <2>1, <1>2 DEF CoreInv, OnIdle
  <2>3. ctx'[c] \notin {"msleep", "sleeping"}
    BY <2>1, <2>2 DEF NobodySleeps
  <2>4. CoreInv(c)'
    BY <2>1, <1>2 DEF CoreInv, OnIdle, TaskPcs
  <2> HIDE DEF SmpInv, TypeInv, TypeOK
  <2> QED
    BY <1>1, <2>3, <2>4, SmpMove
<1>4. CASE \/ CheckLock(c) \/ CheckUnlock(c) \/ GcLock(c) \/ GcUnlock(c)
           \/ Dispatch(c) \/ TimerFires(c) \/ \E i \in Interrupts : IrqTake(c, i)
  <2>1. /\ ctx' = ctx
        /\ irq'[c] # "eret" \/ irq' = irq
        /\ irq[c] # "eret" \/ irq' = irq
        /\ irq'[c] # "none" => ctx[c] \notin MaskedPcs
    <3>1. irq[c] # "none" => ctx[c] \notin MaskedPcs
      BY <1>2 DEF CoreInv
    <3>2. CASE \/ CheckLock(c) \/ CheckUnlock(c) \/ GcLock(c) \/ GcUnlock(c) \/ Dispatch(c)
      <4>1. ctx' = ctx /\ irq[c] \notin {"none", "eret"}
        BY <3>2 DEF CheckLock, CheckUnlock, GcLock, GcUnlock, Dispatch
      <4>2. irq'[c] # "eret"
        <5>1. CASE CheckLock(c) \/ GcLock(c)
          BY <5>1 DEF CheckLock, GcLock
        <5>2. CASE CheckUnlock(c) \/ GcUnlock(c)
          BY <5>2 DEF CheckUnlock, GcUnlock
        <5>3. CASE Dispatch(c)
          BY <5>3 DEF Dispatch
        <5> QED
          BY <3>2, <5>1, <5>2, <5>3
      <4> QED
        BY <3>1, <4>1, <4>2
    <3>3. CASE TimerFires(c)
      BY <3>1, <3>3 DEF TimerFires
    <3>4. CASE \E i \in Interrupts : IrqTake(c, i)
      BY <3>4 DEF IrqTake, Masked, EntryOf, Interrupts
    <3> QED
      BY <1>4, <3>2, <3>3, <3>4
  <2>2. CoreInv(c)'
    BY <2>1, <1>1, <1>2 DEF CoreInv, OnIdle, MaskedPcs
  <2> HIDE DEF SmpInv, TypeInv, TypeOK
  <2> QED
    BY <1>1, <1>2, <2>1, <2>2, SmpMove
<1> QED
  BY <1>3, <1>4

\* A core that joins gets its idle thread, which no other core can have.
LEMMA SmpJoin ==
    ASSUME SmpInv, TypeInv', NEW c \in Cores, JoinCore(c)
    PROVE  SmpInv'
<1> USE IdFacts DEF SmpInv, TypeInv, TypeOK
<1>1. /\ irq[c] = "none" /\ ctx[c] = "offline" /\ current[c] = ZERO
      /\ state' = [state EXCEPT ![Idle(c)] = "RUNNING"]
      /\ core_id' = [core_id EXCEPT ![Idle(c)] = c]
      /\ current' = [current EXCEPT ![c] = Idle(c)]
      /\ ctx' = [ctx EXCEPT ![c] = "idle"]
      /\ UNCHANGED <<frame, queues, kept, irq>>
  BY DEF JoinCore, CoresInv, CoreInv
<1>2. NobodySleeps'
  BY <1>1 DEF NobodySleeps
<1>3. CoreInv(c)'
  BY <1>1 DEF CoreInv, OnIdle, MaskedPcs
<1>4. ASSUME NEW d \in Cores, d # c PROVE CoreInv(d)'
  <2>1. /\ CoreInv(d) /\ Idle(d) # Idle(c)
        /\ ctx'[d] = ctx[d] /\ irq'[d] = irq[d] /\ current'[d] = current[d] /\ frame' = frame
    BY <1>1, <1>4 DEF CoresInv
  <2>2. state'[Idle(d)] = state[Idle(d)] /\ \A t \in Tasks : state'[t] = state[t]
    BY <1>1, <2>1
  <2> QED
    BY <2>1, <2>2 DEF CoreInv, OnIdle
<1>5. \A t \in Tasks : state'[t] = state[t] /\ (IsCurrent(t)' <=> IsCurrent(t))
  BY <1>1 DEF IsCurrent, ZERO
<1>6. CoresInv'
  <2>1. \A d, e \in Cores : current'[d] \in Tasks /\ current'[d] = current'[e] => d = e
    BY <1>1 DEF CoresInv
  <2> QED
    BY <1>1, <1>3, <1>4, <1>5, <2>1 DEF CoresInv
<1>7. ListsInv'
  <2>1. \A t \in Image(zombie_q) : t \in Tasks /\ core_id'[t] = core_id[t]
    BY <1>1 DEF ListsInv
  <2> QED
    BY <1>1, <1>5, <2>1 DEF ListsInv
<1> QED
  BY <1>2, <1>6, <1>7

\* A new task is the current thread of no core.
LEMMA SmpCreate ==
    ASSUME SmpInv, TypeInv', NEW c \in Cores, BootCreate(c) \/ CreateAdd(c)
    PROVE  SmpInv'
<1> USE IdFacts DEF SmpInv, TypeInv, TypeOK
<1>1. /\ irq[c] = "none"
      /\ \/ ctx[c] = "boot" /\ ctx' = ctx
         \/ ctx[c] = "creating" /\ ctx' = [ctx EXCEPT ![c] = "created"]
      /\ UNCHANGED <<sleep_q, zombie_q, kept, current, irq>>
      /\ AddTask \/ TableFull
  BY DEF BootCreate, CreateAdd
<1>2. /\ CoreInv(c) /\ ctx'[c] \notin {"msleep", "sleeping"}
      /\ \A d \in Cores : d # c => ctx'[d] = ctx[d] /\ irq'[d] = irq[d]
  BY <1>1 DEF CoresInv
<1>3. CASE TableFull
  <2>1. UNCHANGED <<state, core_id, frame, ready_q>>
    BY <1>3 DEF TableFull
  <2>2. CoreInv(c)'
    BY <1>1, <1>2, <2>1 DEF CoreInv, OnIdle, TaskPcs, Pcs
  <2> HIDE DEF SmpInv, TypeInv, TypeOK
  <2> QED
    BY <1>1, <1>2, <2>1, <2>2, SmpMove
<1>4. CASE AddTask
  <2>1. PICK t \in Tasks : /\ state[t] = "EMPTY"
                           /\ state' = [state EXCEPT ![t] = "READY"]
                           /\ core_id' = [core_id EXCEPT ![t] = NoCore]
                           /\ frame' = [frame EXCEPT ![t] = "run"]
                           /\ ready_q' = task_enqueue(ready_q, t)
    BY <1>4 DEF AddTask, Empties
  <2>2. ~IsCurrent(t)
    <3>1. ASSUME NEW d \in Cores, current[d] = t PROVE FALSE
      <4>1. CoreInv(d) /\ t # ZERO
        BY DEF CoresInv
      <4> QED
        BY <2>1, <3>1, <4>1 DEF CoreInv
    <3> QED
      BY <3>1 DEF IsCurrent
  <2>3. Image(ready_q') = Image(ready_q) \cup {t} /\ NoDup(ready_q')
    <3>1. t \in Threads /\ t \notin Image(ready_q) /\ NoDup(ready_q)
      BY <2>1 DEF ListsInv
    <3> QED
      BY <3>1, <2>1, Enqueued
  <2>4. NobodySleeps'
    BY <1>1, <1>2, <2>1 DEF NobodySleeps
  <2>5. \A u \in Threads \ {t} : state'[u] = state[u] /\ frame'[u] = frame[u]
    BY <2>1
  <2>6. ASSUME NEW d \in Cores PROVE CoreInv(d)'
    <3>1. /\ CoreInv(d) /\ Idle(d) # t /\ current[d] # t /\ Idle(d) \in Threads
          /\ current' = current /\ irq' = irq
      BY <1>1, <2>2 DEF CoresInv, IsCurrent
    <3>2. ctx'[d] = ctx[d] \/ (d = c /\ ctx[d] = "creating" /\ ctx'[d] = "created" /\ irq[d] = "none")
      BY <1>1
    <3> QED
      <4>1. CASE ctx'[d] = ctx[d]
        <5>1. \/ current[d] = ZERO /\ ctx[d] = "offline"
              \/ current[d] \in Threads \ {t}
          BY <3>1 DEF CoreInv, OnIdle
        <5>2. UNCHANGED current /\ irq'[d] = irq[d]
          BY <3>1
        <5>3. state'[Idle(d)] = state[Idle(d)] /\ frame'[Idle(d)] = frame[Idle(d)]
          BY <2>5, <3>1
        <5>4. \/ ctx[d] = "offline"
              \/ state'[current[d]] = state[current[d]] /\ frame'[current[d]] = frame[current[d]]
          BY <2>5, <5>1
        <5> HIDE DEF SmpInv, TypeInv, TypeOK
        <5> QED
          BY <3>1, <4>1, <5>2, <5>3, <5>4 DEF CoreInv, OnIdle
      <4>2. CASE ctx[d] = "creating" /\ ctx'[d] = "created" /\ irq[d] = "none"
        <5>1. current[d] \in Tasks /\ state[current[d]] = "RUNNING"
          BY <3>1, <4>2 DEF CoreInv, OnIdle
        <5> QED
          BY <2>5, <3>1, <4>2, <5>1 DEF CoreInv, OnIdle, TaskPcs, Pcs
      <4> QED
        BY <3>2, <4>1, <4>2
  <2>7. CoresInv'
    BY <1>1, <2>1, <2>5, <2>6 DEF CoresInv, TaskPcs, Pcs
  <2>8. ListsInv'
    <3>1. \A u \in Tasks : IsCurrent(u)' <=> IsCurrent(u)
      BY <1>1 DEF IsCurrent
    <3> QED
      BY <1>1, <2>1, <2>2, <2>3, <2>5, <3>1 DEF ListsInv
  <2> QED
    BY <2>4, <2>7, <2>8
<1> QED
  BY <1>1, <1>3, <1>4

\* task_exit() makes a zombie of a task that only its own core has.
LEMMA SmpExit ==
    ASSUME SmpInv, TypeInv', NEW c \in Cores, Exit(c)
    PROVE  SmpInv'
<1> USE IdFacts DEF SmpInv, TypeInv, TypeOK
<1> DEFINE t == current[c]
<1>1. /\ irq[c] = "none" /\ ctx[c] = "exit"
      /\ state' = [state EXCEPT ![t] = "ZOMBIE"]
      /\ ctx' = [ctx EXCEPT ![c] = "exited"]
      /\ UNCHANGED <<core_id, frame, queues, kept, current, irq>>
  BY DEF Exit
<1>2. t \in Tasks /\ state[t] = "RUNNING" /\ CoreInv(c)
  BY <1>1 DEF CoresInv, CoreInv, OnIdle
<1>3. NobodySleeps'
  BY <1>1 DEF NobodySleeps
<1>4. \A u \in Threads \ {t} : state'[u] = state[u]
  BY <1>1
<1>5. CoreInv(c)'
  BY <1>1, <1>2, <1>4 DEF CoreInv, OnIdle, TaskPcs, Pcs
<1>6. ASSUME NEW d \in Cores, d # c PROVE CoreInv(d)'
  <2>1. CoreInv(d) /\ current[d] # t /\ Idle(d) # t
    BY <1>2, <1>6 DEF CoresInv
  <2>2. ctx'[d] = ctx[d] /\ irq' = irq /\ current' = current /\ frame' = frame
    BY <1>1, <1>6
  <2> QED
    BY <1>4, <2>1, <2>2 DEF CoreInv, OnIdle
<1>7. CoresInv'
  BY <1>1, <1>2, <1>4, <1>5, <1>6 DEF CoresInv
<1>8. ListsInv'
  <2>1. IsCurrent(t) /\ \A u \in Tasks : IsCurrent(u)' <=> IsCurrent(u)
    BY <1>1 DEF IsCurrent
  <2>2. state'[t] = "ZOMBIE"
    BY <1>1, <1>2
  <2> QED
    BY <1>1, <1>2, <1>4, <2>1, <2>2 DEF ListsInv
<1> QED
  BY <1>3, <1>7, <1>8

\* reaper_service() frees a task that no core has.
LEMMA SmpReap ==
    ASSUME SmpInv, TypeInv', NEW c \in Cores, Reap(c)
    PROVE  SmpInv'
<1> USE IdFacts DEF SmpInv, TypeInv, TypeOK
<1> DEFINE z == Head(zombie_q)
<1>1. /\ z \in Image(zombie_q) /\ z \in Tasks /\ state[z] = "ZOMBIE"
      /\ ~IsCurrent(z) /\ core_id[z] = NoCore
  BY HeadFacts DEF Reap, ListsInv
<1>2. /\ state' = [state EXCEPT ![z] = "EMPTY"]
      /\ core_id' = [core_id EXCEPT ![z] = 0]
      /\ frame' = [frame EXCEPT ![z] = "none"]
      /\ zombie_q' = Tail(zombie_q)
      /\ UNCHANGED <<ready_q, sleep_q, kept, current, ctx, irq>>
  BY <1>1 DEF Reap
<1>3. Image(zombie_q') = Image(zombie_q) \ {z} /\ NoDup(zombie_q')
  BY <1>2, TailImage DEF ListsInv, Reap
<1>4. NobodySleeps'
  BY <1>1, <1>2 DEF NobodySleeps
<1>5. \A u \in Threads \ {z} : /\ state'[u] = state[u] /\ frame'[u] = frame[u]
                               /\ core_id'[u] = core_id[u]
  BY <1>2
<1>6. ASSUME NEW d \in Cores PROVE CoreInv(d)'
  <2>1. CoreInv(d) /\ current[d] # z /\ Idle(d) # z
    BY <1>1 DEF CoresInv, IsCurrent
  <2> QED
    BY <1>2, <1>5, <2>1 DEF CoreInv, OnIdle
<1>7. CoresInv'
  BY <1>1, <1>2, <1>5, <1>6 DEF CoresInv
<1>8. ListsInv'
  <2>1. \A u \in Tasks : IsCurrent(u)' <=> IsCurrent(u)
    BY <1>2 DEF IsCurrent
  <2>2. state'[z] = "EMPTY"
    BY <1>1, <1>2
  <2> QED
    BY <1>1, <1>2, <1>3, <1>5, <2>1, <2>2 DEF ListsInv
<1> QED
  BY <1>4, <1>7, <1>8

\* schedule_task() on core c: its thread goes to the queue of its state, and
\* no other core has the one that it takes from the ready queue.
LEMMA SmpSchedule ==
    ASSUME SmpInv, TypeInv', NEW c \in Cores, Schedule(c)
    PROVE  SmpInv'
<1> USE IdFacts DEF SmpInv, TypeInv, TypeOK
<1> DEFINE cur    == current[c]
           rotate == Rotates(cur, c)
           zombie == state[cur] = "ZOMBIE"
           queue  == IF rotate THEN task_enqueue(ready_q, cur) ELSE ready_q
           next   == Chosen(queue, c)
<1>1. /\ irq[c] = "sched"
      /\ frame' = [frame EXCEPT ![cur] = ctx[c]]
      /\ zombie_q' = IF zombie THEN task_enqueue(zombie_q, cur) ELSE zombie_q
      /\ ready_q' = IF queue = << >> THEN queue ELSE Tail(queue)
      /\ state' = [state EXCEPT ![cur] = IF rotate THEN "READY" ELSE @,
                                ![next] = "RUNNING"]
      /\ core_id' = [core_id EXCEPT ![cur] = NoCore, ![next] = c]
      /\ current' = [current EXCEPT ![c] = next]
      /\ irq' = [irq EXCEPT ![c] = "eret"]
      /\ UNCHANGED <<sleep_q, kept, ctx>>
  BY DEF Schedule
<1>2. /\ CoreInv(c) /\ ctx[c] # "offline" /\ ctx[c] \notin MaskedPcs
      /\ cur \in Tasks \/ cur = Idle(c)
      /\ cur \in Threads
      /\ state[cur] \in {"RUNNING", "ZOMBIE"}
      /\ zombie => cur \in Tasks
  BY <1>1 DEF CoresInv, CoreInv, OnIdle
<1>3. rotate <=> state[cur] = "RUNNING" /\ cur \in Tasks
  BY <1>2 DEF Rotates
<1>4. /\ queue \in Seq(Threads) /\ NoDup(queue)
      /\ Image(queue) = Image(ready_q) \cup (IF rotate THEN {cur} ELSE {})
  <2>1. NoDup(ready_q)
    BY DEF ListsInv
  <2>2. rotate => cur \notin Image(ready_q)
    BY <1>3 DEF ListsInv
  <2>3. CASE rotate
    <3>1. ready_q \in Seq(Threads) /\ cur \in Threads /\ cur \notin Image(ready_q)
      BY <1>2, <2>2, <2>3
    <3>2. queue = task_enqueue(ready_q, cur)
      BY <2>3
    <3> HIDE DEF SmpInv, TypeInv, TypeOK, cur, queue, rotate
    <3> QED
      BY <2>1, <2>3, <3>1, <3>2, Enqueued, EnqueueImage
  <2>4. CASE ~rotate
    BY <2>1, <2>4
  <2> QED
    BY <2>3, <2>4
<1>5. /\ next \in Threads
      /\ NoDup(ready_q')
      /\ Image(ready_q') = Image(queue) \ {next}
      /\ next \in Tasks => next \in Image(queue)
      /\ next \notin Tasks => next = Idle(c)
  <2>1. Image(queue) \subseteq Tasks
    BY <1>3, <1>4 DEF ListsInv
  <2>2. CASE queue = << >>
    BY <1>1, <1>4, <2>1, <2>2, EmptyQueue DEF Chosen
  <2>3. CASE queue # << >>
    <3>1. next = Head(queue) /\ ready_q' = Tail(queue)
      BY <1>1, <2>3 DEF Chosen
    <3>2. next \in Image(queue)
      BY <3>1, <1>4, <2>3, HeadFacts
    <3>3. NoDup(ready_q') /\ Image(ready_q') = Image(queue) \ {next}
      BY <3>1, <1>4, <2>3, TailImage
    <3> QED
      BY <3>2, <3>3, <2>1
  <2> QED
    BY <2>2, <2>3
<1>6. next \in Tasks => state[next] = "READY" \/ (next = cur /\ rotate)
  BY <1>4, <1>5 DEF ListsInv
\* Nobody else has the thread that is chosen.
<1>7. ASSUME NEW d \in Cores, d # c
      PROVE  current[d] # next /\ current[d] # cur /\ Idle(d) # next /\ Idle(d) # cur
  <2>1. CoreInv(d) /\ Idle(d) # Idle(c)
    BY <1>7 DEF CoresInv
  <2>2. current[d] # Idle(c)
    BY <2>1 DEF CoreInv, OnIdle, ZERO
  <2>3. cur \in Tasks => current[d] # cur
    BY <1>7 DEF CoresInv
  <2>4. next \in Tasks /\ state[next] = "READY" => current[d] # next
    <3>1. ZERO \notin Tasks
      BY DEF ZERO
    <3> HIDE DEF SmpInv, TypeInv, TypeOK, next
    <3>2. \/ current[d] = ZERO
          \/ state[current[d]] \in {"RUNNING", "ZOMBIE"}
      BY <2>1 DEF CoreInv
    <3> QED
      BY <3>1, <3>2
  <2> QED
    <3>1. current[d] # cur
      BY <1>2, <2>2, <2>3
    <3>2. current[d] # next
      BY <1>5, <1>6, <2>2, <2>4, <3>1
    <3>3. Idle(d) \notin Tasks
      OBVIOUS
    <3> HIDE DEF SmpInv, TypeInv, TypeOK, cur, next
    <3>4. Idle(d) # next /\ Idle(d) # cur
      BY <1>2, <1>5, <2>1, <3>3
    <3> QED
      BY <3>1, <3>2, <3>4
<1>8. /\ state'[next] = "RUNNING"
      /\ cur # next => state'[cur] = IF rotate THEN "READY" ELSE state[cur]
      /\ \A t \in Threads : t # cur /\ t # next => state'[t] = state[t]
  BY <1>1, <1>2, <1>5
<1>9. /\ frame'[cur] = ctx[c]
      /\ \A t \in Threads : t # cur => frame'[t] = frame[t]
      /\ cur \in Tasks => ctx[c] \in TaskPcs
      /\ cur = Idle(c) => ctx[c] = "idle"
  BY <1>1, <1>2 DEF CoreInv, OnIdle, MaskedPcs
<1>10. NobodySleeps'
  <2>1. ctx[c] \notin {"msleep", "sleeping"}
    BY DEF NobodySleeps
  <2>2. \A t \in Threads : frame'[t] \notin {"msleep", "sleeping"}
    BY <1>9, <2>1 DEF NobodySleeps
  <2>3. \A t \in Threads : state'[t] # "SLEEPING"
    <3>1. state[cur] # "SLEEPING" /\ \A t \in Threads : state[t] # "SLEEPING"
      BY <1>2 DEF NobodySleeps
    <3> HIDE DEF SmpInv, TypeInv, TypeOK, cur, next, rotate
    <3> QED
      BY <1>8, <3>1
  <2> QED
    BY <1>1, <2>2, <2>3 DEF NobodySleeps
<1>11. /\ current'[c] = next /\ irq'[c] = "eret" /\ ctx'[c] = ctx[c]
       /\ \A d \in Cores : d # c => current'[d] = current[d] /\ irq'[d] = irq[d] /\ ctx'[d] = ctx[d]
  BY <1>1
<1>12. CoreInv(c)'
  <2>1. next \in Tasks => frame'[next] \in TaskPcs
    BY <1>6, <1>9 DEF CoresInv
  <2>2. frame'[Idle(c)] = "idle"
    BY <1>2, <1>9 DEF CoreInv, OnIdle
  <2>3. state'[Idle(c)] = "RUNNING"
    <3>1. state[Idle(c)] = "RUNNING" /\ (cur = Idle(c) => ~rotate)
      BY <1>2, <1>3 DEF CoreInv
    <3> HIDE DEF cur, next, rotate
    <3> QED
      BY <1>8, <3>1
  <2> QED
    BY <1>2, <1>5, <1>8, <1>11, <2>1, <2>2, <2>3 DEF CoreInv, OnIdle
<1>13. ASSUME NEW d \in Cores, d # c PROVE CoreInv(d)'
  <2>1. CoreInv(d)
    BY DEF CoresInv
  <2>2. CASE ctx[d] = "offline"
    BY <1>11, <1>13, <2>1, <2>2 DEF CoreInv
  <2>3. CASE ctx[d] # "offline"
    <3>1. current[d] \in Threads /\ Idle(d) \in Threads
      BY <2>1, <2>3 DEF CoreInv, OnIdle
    <3>2. /\ state'[current[d]] = state[current[d]] /\ state'[Idle(d)] = state[Idle(d)]
          /\ frame'[current[d]] = frame[current[d]] /\ frame'[Idle(d)] = frame[Idle(d)]
      BY <1>7, <1>8, <1>9, <1>13, <3>1
    <3>3. current'[d] = current[d] /\ irq'[d] = irq[d] /\ ctx'[d] = ctx[d]
      BY <1>11, <1>13
    <3> HIDE DEF SmpInv, TypeInv, TypeOK, cur, next, rotate
    <3> QED
      BY <2>1, <3>2, <3>3 DEF CoreInv, OnIdle
  <2> QED
    BY <2>2, <2>3
<1>14. CoresInv'
  <2>1. ASSUME NEW d \in Cores, NEW e \in Cores, current'[d] \in Tasks, current'[d] = current'[e]
        PROVE  d = e
    <3>1. d # c /\ e # c => d = e
      BY <1>11, <2>1 DEF CoresInv
    <3>2. d = c /\ e # c => current[e] = next
      BY <1>11, <2>1
    <3>3. e = c /\ d # c => current[d] = next
      BY <1>11, <2>1
    <3> HIDE DEF next, SmpInv
    <3> QED
      BY <1>7, <3>1, <3>2, <3>3
  <2>2. \A t \in Tasks : state'[t] = "READY" => frame'[t] \in TaskPcs
    <3> SUFFICES ASSUME NEW t \in Tasks, state'[t] = "READY" PROVE frame'[t] \in TaskPcs
      OBVIOUS
    <3>1. t \in Threads /\ (state[t] = "READY" => frame[t] \in TaskPcs)
      BY DEF CoresInv
    <3> HIDE DEF SmpInv, TypeInv, TypeOK, cur, next, rotate
    <3>2. t # next
      BY <1>8
    <3> QED
      BY <1>8, <1>9, <3>1, <3>2
  <2>3. \A d \in Cores : frame'[Idle(d)] \in {"none", "idle"}
    <3>1. \A d \in Cores : Idle(d) = cur => d = c
      BY <1>7
    <3> QED
      BY <1>9, <3>1 DEF CoresInv
  <2> QED
    BY <1>12, <1>13, <2>1, <2>2, <2>3 DEF CoresInv
<1>15. ListsInv'
  <2>1. \A t \in Tasks : IsCurrent(t)' <=> t = next \/ (IsCurrent(t) /\ t # cur)
    <3>1. \A t \in Tasks : IsCurrent(t)' <=> t = next \/ \E d \in Cores : d # c /\ current[d] = t
      BY <1>11 DEF IsCurrent
    <3>2. \A t \in Tasks : (IsCurrent(t) /\ t # cur) <=> \E d \in Cores : d # c /\ current[d] = t
      BY <1>7 DEF IsCurrent
    <3> QED
      BY <3>1, <3>2
  <2>2. Image(ready_q') = {t \in Tasks : state'[t] = "READY"}
    BY SMTT(20), <1>2, <1>3, <1>4, <1>5, <1>6, <1>8 DEF ListsInv
  <2>3. IsCurrent(cur)
    BY DEF IsCurrent
  <2>4. /\ NoDup(zombie_q')
        /\ Image(zombie_q') = Image(zombie_q) \cup (IF zombie THEN {cur} ELSE {})
    <3>1. cur \notin Image(zombie_q) /\ NoDup(zombie_q)
      BY <2>3 DEF ListsInv
    <3>2. CASE zombie
      <4>1. zombie_q \in Seq(Threads) /\ zombie_q' = task_enqueue(zombie_q, cur)
        BY <1>1, <3>2
      <4> HIDE DEF cur, SmpInv
      <4> QED
        BY <1>2, <3>1, <3>2, <4>1, Enqueued
    <3>3. CASE ~zombie
      BY <1>1, <3>1, <3>3
    <3> QED
      BY <3>2, <3>3
  <2>5. zombie => cur # next
    BY <1>2, <1>3, <1>6
  <2>6. Image(zombie_q') = {t \in Tasks : state'[t] = "ZOMBIE" /\ ~IsCurrent(t)'}
    BY <1>2, <1>3, <1>6, <1>8, <2>1, <2>4, <2>5 DEF ListsInv
  <2>7. \A t \in Image(zombie_q') : core_id'[t] = NoCore
    <3>1. \A t \in Image(zombie_q) : t # next
      BY <1>6, <2>3 DEF ListsInv
    <3>2. \A t \in Threads : t # next => core_id'[t] = IF t = cur THEN NoCore ELSE core_id[t]
      BY <1>1, <1>2, <1>5
    <3>3. \A t \in Image(zombie_q) : t \in Threads /\ core_id[t] = NoCore
      BY DEF ListsInv
    <3> HIDE DEF cur, next, zombie, SmpInv
    <3> QED
      BY <1>2, <2>4, <2>5, <3>1, <3>2, <3>3
  <2>8. \A t \in Tasks : state'[t] = "RUNNING" => IsCurrent(t)'
    BY <1>3, <1>8, <2>1 DEF ListsInv
  <2> QED
    BY <1>5, <2>2, <2>4, <2>6, <2>7, <2>8 DEF ListsInv
<1> QED
  BY <1>10, <1>14, <1>15

\* The invariant is inductive.
LEMMA SmpStep ==
    ASSUME "msleep" \notin TaskCalls, SmpInv, [Next]_vars
    PROVE  SmpInv'
<1>1. TypeInv'
  BY TypeStep DEF SmpInv
<1>2. CASE UNCHANGED vars \/ \E t \in Tasks : WakeTimePasses(t)
  <2>1. UNCHANGED <<state, core_id, frame, ready_q, sleep_q, zombie_q, kept, current, ctx, irq>>
    BY <1>2 DEF vars, WakeTimePasses
  <2> QED
    BY <1>1, <2>1 DEF SmpInv, NobodySleeps, CoresInv, CoreInv, OnIdle, ListsInv, IsCurrent
<1>3. ASSUME NEW c \in Cores
      PROVE  ~MsleepLock(c) /\ ~MsleepUnlock(c) /\ ~CheckWake(c) /\ ~CheckKeep(c)
  BY DEF SmpInv, NobodySleeps, MsleepLock, MsleepUnlock, CheckWake, CheckKeep
<1>4. ASSUME NEW c \in Cores, Boot(c) \/ JoinCore(c) \/ Call(c) \/ Service(c)
      PROVE  SmpInv'
  BY <1>1, <1>3, <1>4, SmpThread, SmpJoin, SmpCreate, SmpExit DEF Boot, Service
<1>5. ASSUME NEW c \in Cores,
             Handler(c) \/ TimerFires(c) \/ \E i \in Interrupts : IrqTake(c, i)
      PROVE  SmpInv'
  BY <1>1, <1>3, <1>5, SmpHandler, SmpReap, SmpSchedule DEF Handler
<1> QED
  BY <1>2, <1>4, <1>5 DEF Next

\* On any number of cores whose tasks never sleep, the tasks, the cores and
\* the lists agree after every step.
THEOREM SmpInvariant ==
    ASSUME "msleep" \notin TaskCalls PROVE Spec => []SmpInv
BY SmpInit, SmpStep, PTL DEF Spec

\* ... no two cores ever have the same current thread,
THEOREM OneCorePerThreadWithoutSleepers ==
    ASSUME "msleep" \notin TaskCalls PROVE Spec => []OneCorePerThread
<1>1. SmpInv => OneCorePerThread
  BY IdFacts DEF SmpInv, CoresInv, CoreInv, OnIdle, OneCorePerThread, Enrolled
<1> QED
  BY <1>1, SmpInvariant, PTL

\* ... no task is lost or queued twice,
THEOREM AccountedForWithoutSleepers ==
    ASSUME "msleep" \notin TaskCalls PROVE Spec => []TasksAccountedFor
<1>1. SmpInv => TasksAccountedFor
  <2> SUFFICES ASSUME SmpInv PROVE TasksAccountedFor
    OBVIOUS
  <2>1. \A c \in Cores, h \in HandlerPcs : Keeping(c, h) = {}
    BY EmptyQueue DEF Keeping, SmpInv, NobodySleeps
  <2>2. Zombies = Image(zombie_q) /\ Sleepers = {}
    BY <2>1, EmptyQueue DEF Zombies, Sleepers, HandlerPcs, SmpInv, NobodySleeps
  <2>3. \A t \in Tasks : state[t] # "SLEEPING"
    BY IdFacts DEF SmpInv, NobodySleeps
  <2>4. NoDup(sleep_q)
    BY EmptyQueue DEF SmpInv, NobodySleeps
  <2> QED
    BY <2>2, <2>3, <2>4 DEF TasksAccountedFor, SmpInv, ListsInv
<1> QED
  BY <1>1, SmpInvariant, PTL

\* ... a task that executes is RUNNING,
THEOREM ActiveIsRunningWithoutSleepers ==
    ASSUME "msleep" \notin TaskCalls PROVE Spec => []ActiveIsRunning
<1>1. SmpInv => ActiveIsRunning
  BY DEF SmpInv, CoresInv, CoreInv, OnIdle, ActiveIsRunning
<1> QED
  BY <1>1, SmpInvariant, PTL

\* ... and the ready queue is first come, first served.
THEOREM NoOvertakingWithoutSleepers ==
    ASSUME "msleep" \notin TaskCalls PROVE Spec => NoOvertaking
<1>1. TypeInv /\ TasksAccountedFor /\ [Next]_vars
        => [\A t \in Image(ready_q) \cap Image(ready_q') : \A u \in Image(ready_q') :
               Before(ready_q', u, t) => Before(ready_q, u, t)]_vars
  BY NoStepOvertakes
<1>2. Spec => []TypeInv
  BY TypeInit, TypeStep, PTL DEF Spec
<1> QED
  BY <1>1, <1>2, AccountedForWithoutSleepers, PTL DEF Spec, NoOvertaking

-----------------------------------------------------------------------------
\* The locks of several cores.  sched_lock is held by a core: the one whose
\* handler is in a loop, or whose thread is in create_task() and cannot be
\* switched out.  kernel_lock is held by a thread, which may move to another
\* core in the middle of its print.

CreatePcs == {"creating", "created", "reporting", "reported"}

HoldsSched(c) == irq[c] \in LoopPcs \/ ctx[c] \in CreatePcs

SmpSchedInv ==
    /\ sched_lock = 1 <=> \E c \in Cores : HoldsSched(c)
    /\ \A c, d \in Cores : HoldsSched(c) /\ HoldsSched(d) => c = d
    /\ \A c \in Cores : irq[c] \in LoopPcs \cup {"eret"} => ctx[c] \notin CreatePcs
    /\ \A t \in Threads : frame[t] \notin CreatePcs \cup {"sysprint"}

Printing(t) == \/ \E c \in Cores : OnCore(t, c) /\ ctx[c] \in ConsoleHolders
               \/ frame[t] \in ConsoleHolders /\ \A c \in Cores : ~OnCore(t, c)

SmpConsoleInv ==
    /\ kernel_lock = 1 <=> \E t \in Threads : Printing(t)
    /\ \A t, u \in Threads : Printing(t) /\ Printing(u) => t = u
    /\ \A t \in Tasks : state[t] \in {"EMPTY", "ZOMBIE"} => ~Printing(t)

SmpLockInv == SmpInv /\ SmpSchedInv /\ SmpConsoleInv

LEMMA SmpLockInit == Init => SmpLockInv
<1> SUFFICES ASSUME Init PROVE SmpLockInv
  OBVIOUS
<1>1. SmpInv
  BY SmpInit
<1>2. SmpSchedInv
  BY IdFacts DEF Init, SmpSchedInv, HoldsSched, LoopPcs, CreatePcs
<1>3. \A t \in Threads : ~Printing(t)
  BY IdFacts DEF Init, Printing, ConsoleHolders, OnCore
<1>4. SmpConsoleInv
  BY <1>3, IdFacts DEF Init, SmpConsoleInv
<1> QED
  BY <1>1, <1>2, <1>4 DEF SmpLockInv

\* A step of core c that neither takes nor releases sched_lock.
LEMMA SchedKept ==
    ASSUME SmpSchedInv, NEW c \in Cores, UNCHANGED sched_lock,
           \A d \in Cores : d # c => ctx'[d] = ctx[d] /\ irq'[d] = irq[d],
           HoldsSched(c)' <=> HoldsSched(c),
           irq'[c] \in LoopPcs \cup {"eret"} => ctx'[c] \notin CreatePcs,
           \A t \in Threads : frame'[t] \notin CreatePcs \cup {"sysprint"}
    PROVE  SmpSchedInv'
<1>1. \A d \in Cores : HoldsSched(d)' <=> HoldsSched(d)
  BY DEF HoldsSched
<1> QED
  BY <1>1 DEF SmpSchedInv

\* One that takes it or releases it.
LEMMA SchedTaken ==
    ASSUME SmpSchedInv, NEW c \in Cores, sched_lock = 0, sched_lock' = 1,
           \A d \in Cores : d # c => ctx'[d] = ctx[d] /\ irq'[d] = irq[d],
           HoldsSched(c)', UNCHANGED frame,
           irq'[c] \in LoopPcs \cup {"eret"} => ctx'[c] \notin CreatePcs
    PROVE  SmpSchedInv'
<1>1. \A d \in Cores : HoldsSched(d)' <=> d = c
  BY DEF HoldsSched, SmpSchedInv
<1> QED
  BY <1>1 DEF SmpSchedInv

LEMMA SchedReleased ==
    ASSUME SmpSchedInv, NEW c \in Cores, HoldsSched(c), sched_lock' = 0,
           \A d \in Cores : d # c => ctx'[d] = ctx[d] /\ irq'[d] = irq[d],
           ~HoldsSched(c)', irq'[c] # "eret",
           \A t \in Threads : frame'[t] \notin CreatePcs \cup {"sysprint"}
    PROVE  SmpSchedInv'
<1>1. \A d \in Cores : ~HoldsSched(d)'
  BY DEF HoldsSched, SmpSchedInv
<1>2. irq'[c] \notin LoopPcs \cup {"eret"}
  BY DEF HoldsSched
<1> QED
  BY <1>1, <1>2 DEF SmpSchedInv

LEMMA SmpSchedThread ==
    ASSUME "msleep" \notin TaskCalls, SmpInv, SmpSchedInv, NEW c \in Cores,
           Boot(c) \/ JoinCore(c) \/ Call(c) \/ Service(c)
    PROVE  SmpSchedInv'
<1> USE IdFacts DEF SmpInv, TypeInv, TypeOK
<1>1. irq[c] = "none" /\ irq' = irq /\ ctx[c] \in Pcs
  BY DEF Boot, BootCreate, BootEnable, JoinCore, Call, Service, PrintAcquire, PrintRelease,
         SyscallAcquire, SyscallRelease, MsleepLock, MsleepUnlock, CreateLock, CreateAdd,
         CreateReport, CreateReported, CreateUnlock,
         Exit, Launch, Yield, Resume, CoresInv, CoreInv
<1>2. \A d \in Cores : HoldsSched(d) <=> irq[d] \in LoopPcs \/ ctx[d] \in CreatePcs
  BY DEF HoldsSched
<1>3. CASE BootCreate(c) \/ CreateAdd(c)
  <2>1. AddTask \/ TableFull
    BY <1>3 DEF BootCreate, CreateAdd
  <2>2. \A u \in Threads : frame'[u] \notin CreatePcs \cup {"sysprint"}
    <3>1. TypeInv /\ \A u \in Threads : frame[u] \notin CreatePcs \cup {"sysprint"}
      BY DEF SmpSchedInv
    <3> HIDE DEF SmpInv, TypeInv, TypeOK
    <3>2. PICK t \in Threads : /\ frame'[t] \in {frame[t], "run"}
                              /\ \A u \in Threads : u # t => frame'[u] = frame[u]
      BY <2>1, <3>1, AddTaskFrame
    <3> QED
      BY <3>1, <3>2 DEF CreatePcs
  <2>3. CASE BootCreate(c)
    <3>1. UNCHANGED <<sched_lock, ctx>>
      BY <2>3 DEF BootCreate
    <3> QED
      BY <1>1, <2>2, <3>1, SchedKept DEF HoldsSched, SmpSchedInv
  <2>4. CASE CreateAdd(c)
    <3>1. /\ ctx[c] \in CreatePcs /\ ctx'[c] \in CreatePcs /\ UNCHANGED sched_lock
          /\ \A d \in Cores : d # c => ctx'[d] = ctx[d]
      BY <2>4 DEF CreateAdd, CreatePcs
    <3> QED
      BY <1>1, <2>2, <3>1, SchedKept DEF HoldsSched, LoopPcs
  <2> QED
    BY <1>3, <2>3, <2>4
<1>4. CASE CreateLock(c)
  <2>1. /\ sched_lock = 0 /\ sched_lock' = 1 /\ ctx'[c] \in CreatePcs /\ UNCHANGED frame
        /\ \A d \in Cores : d # c => ctx'[d] = ctx[d]
    BY <1>4 DEF CreateLock, CreatePcs
  <2> QED
    BY <1>1, <2>1, SchedTaken DEF HoldsSched, LoopPcs
<1>7. CASE CreateReport(c) \/ CreateReported(c)
  <2>1. /\ ctx[c] \in CreatePcs /\ ctx'[c] \in CreatePcs /\ UNCHANGED <<sched_lock, frame>>
        /\ \A d \in Cores : d # c => ctx'[d] = ctx[d]
    BY <1>7 DEF CreateReport, CreateReported, CreatePcs
  <2>2. \A t \in Threads : frame'[t] \notin CreatePcs \cup {"sysprint"}
    BY <2>1 DEF SmpSchedInv
  <2> QED
    BY <1>1, <2>1, <2>2, SchedKept DEF HoldsSched, LoopPcs
<1>8. CASE CreateUnlock(c)
  <2>1. /\ ctx[c] \in CreatePcs /\ sched_lock' = 0 /\ ctx'[c] \notin CreatePcs
        /\ UNCHANGED frame /\ \A d \in Cores : d # c => ctx'[d] = ctx[d]
    BY <1>8 DEF CreateUnlock, CreatePcs
  <2>2. \A t \in Threads : frame'[t] \notin CreatePcs \cup {"sysprint"}
    BY <2>1 DEF SmpSchedInv
  <2> QED
    BY <1>1, <2>1, <2>2, SchedReleased DEF HoldsSched, LoopPcs
<1>5. CASE \/ JoinCore(c) \/ BootEnable(c) \/ Call(c) \/ PrintAcquire(c) \/ PrintRelease(c)
           \/ SyscallAcquire(c) \/ SyscallRelease(c) \/ Exit(c) \/ Launch(c) \/ Yield(c)
           \/ Resume(c)
  <2>1. /\ UNCHANGED <<sched_lock, frame>> /\ ctx[c] \notin CreatePcs
        /\ \A d \in Cores : d # c => ctx'[d] = ctx[d]
    BY <1>5 DEF JoinCore, BootEnable, Call, PrintAcquire, PrintRelease, SyscallAcquire,
                SyscallRelease, Exit, Launch, Yield, Resume, CreatePcs
  <2>2. ctx'[c] \notin CreatePcs
    <3>1. CASE Call(c)
      BY <3>1, TaskCallsAssumption DEF Call, Services, CreatePcs
    <3>2. CASE ~Call(c)
      BY <1>5, <3>2 DEF JoinCore, BootEnable, PrintAcquire, PrintRelease, SyscallAcquire,
                  SyscallRelease, Exit, Launch, Yield, Resume, CreatePcs
    <3> QED
      BY <3>1, <3>2
  <2>3. \A t \in Threads : frame'[t] \notin CreatePcs \cup {"sysprint"}
    BY <2>1 DEF SmpSchedInv
  <2> QED
    BY <1>1, <2>1, <2>2, <2>3, SchedKept DEF HoldsSched
<1>6. ~MsleepLock(c) /\ ~MsleepUnlock(c)
  BY DEF NobodySleeps, MsleepLock, MsleepUnlock
<1> QED
  BY <1>3, <1>4, <1>5, <1>6, <1>7, <1>8 DEF Boot, Service

LEMMA SmpSchedHandler ==
    ASSUME SmpInv, SmpSchedInv, NEW c \in Cores,
           Handler(c) \/ TimerFires(c) \/ \E i \in Interrupts : IrqTake(c, i)
    PROVE  SmpSchedInv'
<1> USE IdFacts DEF SmpInv, TypeInv, TypeOK
<1>1. CASE CheckLock(c) \/ GcLock(c)
  <2>1. /\ irq[c] \in {"check", "gc"} /\ irq'[c] \in LoopPcs
        /\ sched_lock = 0 /\ sched_lock' = 1 /\ UNCHANGED <<ctx, frame>>
        /\ \A d \in Cores : d # c => irq'[d] = irq[d]
    BY <1>1 DEF CheckLock, GcLock, LoopPcs
  <2>2. ctx[c] \notin CreatePcs
    BY <2>1 DEF SmpSchedInv, HoldsSched
  <2> QED
    BY <2>1, <2>2, SchedTaken DEF HoldsSched
<1>2. CASE CheckUnlock(c) \/ GcUnlock(c)
  <2>1. /\ irq[c] \in LoopPcs /\ irq'[c] \in {"sched", "none"}
        /\ sched_lock' = 0 /\ UNCHANGED <<ctx, frame>>
        /\ \A d \in Cores : d # c => irq'[d] = irq[d]
    BY <1>2 DEF CheckUnlock, GcUnlock, LoopPcs
  <2>2. ctx[c] \notin CreatePcs /\ \A t \in Threads : frame'[t] \notin CreatePcs \cup {"sysprint"}
    BY <2>1 DEF SmpSchedInv
  <2> QED
    BY <2>1, <2>2, SchedReleased DEF HoldsSched, LoopPcs
<1>3. CASE Dispatch(c) \/ TimerFires(c) \/ \E i \in Interrupts : IrqTake(c, i)
  <2>1. /\ UNCHANGED <<ctx, frame, sched_lock>>
        /\ irq'[c] = irq[c] \/ (irq[c] \notin LoopPcs /\ irq'[c] \notin LoopPcs \cup {"eret"})
        /\ \A d \in Cores : d # c => irq'[d] = irq[d]
    BY <1>3 DEF Dispatch, TimerFires, IrqTake, Masked, EntryOf, Interrupts, LoopPcs
  <2>2. /\ irq[c] \in LoopPcs \cup {"eret"} => ctx[c] \notin CreatePcs
        /\ \A t \in Threads : frame'[t] \notin CreatePcs \cup {"sysprint"}
    BY <2>1 DEF SmpSchedInv
  <2> QED
    BY <2>1, <2>2, SchedKept DEF HoldsSched
<1>4. CASE Reap(c)
  <2>1. /\ UNCHANGED <<ctx, irq, sched_lock>>
        /\ \A t \in Threads : frame'[t] \in {frame[t], "none"}
    BY <1>4, HeadFacts DEF Reap
  <2>2. /\ irq[c] \in LoopPcs \cup {"eret"} => ctx[c] \notin CreatePcs
        /\ \A t \in Threads : frame'[t] \notin CreatePcs \cup {"sysprint"}
    BY <2>1 DEF SmpSchedInv, CreatePcs
  <2> QED
    BY <2>1, <2>2, SchedKept DEF HoldsSched
<1>5. CASE Schedule(c)
  <2>1. /\ irq[c] = "sched" /\ irq'[c] = "eret" /\ sched_lock = 0 /\ UNCHANGED <<ctx, sched_lock>>
        /\ frame' = [frame EXCEPT ![current[c]] = ctx[c]]
        /\ \A d \in Cores : d # c => irq'[d] = irq[d]
    BY <1>5 DEF Schedule
  <2>2. ctx[c] \notin CreatePcs \cup {"sysprint"}
    <3>1. ctx[c] \notin CreatePcs
      BY <2>1 DEF SmpSchedInv, HoldsSched
    <3>2. ctx[c] \notin MaskedPcs
      BY <2>1 DEF CoresInv, CoreInv
    <3> QED
      BY <3>1, <3>2 DEF MaskedPcs
  <2>3. \A t \in Threads : frame'[t] \notin CreatePcs \cup {"sysprint"}
    BY <2>1, <2>2 DEF SmpSchedInv
  <2> QED
    <3>1. ~HoldsSched(c)' /\ ~HoldsSched(c) /\ ctx'[c] \notin CreatePcs
      BY <2>1, <2>2 DEF HoldsSched, LoopPcs
    <3>2. UNCHANGED sched_lock /\ \A d \in Cores : d # c => ctx'[d] = ctx[d] /\ irq'[d] = irq[d]
      BY <2>1
    <3> HIDE DEF SmpInv, TypeInv, TypeOK
    <3> QED
      BY <2>3, <3>1, <3>2, SchedKept
<1>6. CASE IrqReturn(c)
  <2>1. /\ irq[c] = "eret" /\ irq'[c] = "none" /\ ctx'[c] = frame[current[c]]
        /\ UNCHANGED <<frame, sched_lock>>
        /\ \A d \in Cores : d # c => irq'[d] = irq[d] /\ ctx'[d] = ctx[d]
    BY <1>6 DEF IrqReturn
  <2>2. current[c] \in Threads
    BY <2>1 DEF CoresInv, CoreInv, OnIdle
  <2>3. /\ ctx[c] \notin CreatePcs /\ ctx'[c] \notin CreatePcs
        /\ \A t \in Threads : frame'[t] \notin CreatePcs \cup {"sysprint"}
    BY <2>1, <2>2 DEF SmpSchedInv
  <2> QED
    BY <2>1, <2>3, SchedKept DEF HoldsSched, LoopPcs
<1>7. ~CheckWake(c) /\ ~CheckKeep(c)
  BY DEF NobodySleeps, CheckWake, CheckKeep
<1> QED
  BY <1>1, <1>2, <1>3, <1>4, <1>5, <1>6, <1>7 DEF Handler

\* kernel_lock.  A step that changes nothing of who prints.
LEMMA PrintingKept ==
    ASSUME SmpConsoleInv, UNCHANGED kernel_lock,
           \A t \in Threads : Printing(t)' <=> Printing(t),
           \A t \in Tasks : state'[t] \in {"EMPTY", "ZOMBIE"}
              => state[t] \in {"EMPTY", "ZOMBIE"} \/ ~Printing(t)'
    PROVE  SmpConsoleInv'
BY IdFacts DEF SmpConsoleInv

\* A step of the thread of core c to a position inside or outside a print.
LEMMA PrintingStep ==
    ASSUME SmpInv, NEW c \in Cores, irq[c] = "none", ctx[c] # "offline",
           UNCHANGED <<irq, current, frame>>,
           \A d \in Cores : d # c => ctx'[d] = ctx[d]
    PROVE  /\ current[c] \in Threads
           /\ Printing(current[c])  <=> ctx[c] \in ConsoleHolders
           /\ Printing(current[c])' <=> ctx'[c] \in ConsoleHolders
           /\ \A t \in Threads : t # current[c] => (Printing(t)' <=> Printing(t))
<1> USE IdFacts DEF SmpInv
<1>1. current[c] \in Threads
  BY DEF CoresInv, CoreInv, OnIdle
<1>2. \A d \in Cores : OnCore(current[c], d) <=> d = c
  <2>1. ASSUME NEW d \in Cores, current[d] = current[c] PROVE d = c
    <3>1. CASE current[c] \in Tasks
      BY <2>1, <3>1 DEF CoresInv
    <3>2. CASE current[c] = Idle(c)
      BY <2>1, <3>2 DEF CoresInv, CoreInv, OnIdle, ZERO
    <3> QED
      BY <3>1, <3>2 DEF CoresInv, CoreInv, OnIdle
  <2> QED
    BY <2>1 DEF OnCore
<1>3. Printing(current[c]) <=> ctx[c] \in ConsoleHolders
  BY <1>2 DEF Printing
<1>4. \A t, d : OnCore(t, d)' <=> OnCore(t, d)
  BY DEF OnCore
<1>5. Printing(current[c])' <=> ctx'[c] \in ConsoleHolders
  BY <1>2, <1>4 DEF Printing
<1>6. ASSUME NEW t \in Threads, t # current[c] PROVE Printing(t)' <=> Printing(t)
  <2>1. ~OnCore(t, c)
    BY <1>6 DEF OnCore
  <2> QED
    BY <2>1, <1>4 DEF Printing
<1> QED
  BY <1>1, <1>3, <1>5, <1>6

LEMMA SmpConsoleThread ==
    ASSUME SmpInv, SmpSchedInv, SmpConsoleInv, NEW c \in Cores, Boot(c) \/ Call(c) \/ Service(c)
    PROVE  SmpConsoleInv'
<1> USE IdFacts DEF SmpInv, TypeInv, TypeOK
<1>1. /\ irq[c] = "none" /\ ctx[c] # "offline" /\ irq' = irq /\ current' = current
      /\ \A d \in Cores : d # c => ctx'[d] = ctx[d]
  BY DEF Boot, BootCreate, BootEnable, Call, Service, PrintAcquire, PrintRelease,
         SyscallAcquire, SyscallRelease, MsleepLock, MsleepUnlock, CreateLock, CreateAdd,
         CreateReport, CreateReported, CreateUnlock,
         Exit, Launch, Yield, Resume
<1>2. CASE BootCreate(c) \/ CreateAdd(c)
  <2>1. AddTask \/ TableFull
    BY <1>2 DEF BootCreate, CreateAdd
  <2>2. PICK t \in Threads :
              /\ \/ frame'[t] = frame[t]
                 \/ t \in Tasks /\ state[t] = "EMPTY" /\ frame'[t] = "run"
              /\ \A u \in Threads : u # t => frame'[u] = frame[u]
              /\ \A u \in Threads : state'[u] = state[u] \/ state'[u] = "READY"
    BY <2>1, AddTaskFrame
  <2>3. ctx[c] \notin ConsoleHolders /\ ctx'[c] \notin ConsoleHolders /\ UNCHANGED kernel_lock
    BY <1>2 DEF BootCreate, CreateAdd, ConsoleHolders
  <2>4. \A u, d : OnCore(u, d)' <=> OnCore(u, d)
    BY <1>1 DEF OnCore
  <2>5. \A d \in Cores : ctx'[d] \in ConsoleHolders <=> ctx[d] \in ConsoleHolders
    BY <1>1, <2>3
  <2>6. ASSUME NEW u \in Threads PROVE Printing(u)' <=> Printing(u)
    <3>1. CASE frame'[u] = frame[u]
      BY <2>4, <2>5, <3>1 DEF Printing
    <3>2. CASE u \in Tasks /\ state[u] = "EMPTY" /\ frame'[u] = "run"
      <4>1. ~Printing(u)
        BY <3>2 DEF SmpConsoleInv
      <4> QED
        BY <2>4, <2>5, <3>2, <4>1 DEF Printing, ConsoleHolders
    <3> QED
      BY <2>2, <3>1, <3>2
  <2>7. \A u \in Tasks : state'[u] \in {"EMPTY", "ZOMBIE"} => state[u] \in {"EMPTY", "ZOMBIE"}
    BY <2>2
  <2> HIDE DEF SmpInv
  <2> QED
    BY <2>3, <2>6, <2>7, PrintingKept
<1>3. CASE \/ Call(c) \/ BootEnable(c) \/ CreateLock(c) \/ CreateUnlock(c) \/ Exit(c)
           \/ Launch(c) \/ Yield(c) \/ Resume(c)
  <2>1. ctx[c] \notin ConsoleHolders /\ ctx'[c] \notin ConsoleHolders /\ UNCHANGED <<frame, kernel_lock>>
    <3>1. CASE Call(c)
      BY <3>1, TaskCallsAssumption DEF Call, ConsoleHolders, Services
    <3>2. CASE ~Call(c)
      BY <1>3, <3>2 DEF BootEnable, CreateLock, CreateUnlock, Exit, Launch, Yield, Resume, ConsoleHolders
    <3> QED
      BY <3>1, <3>2
  <2>2. /\ ~Printing(current[c])'
        /\ \A t \in Threads : Printing(t)' <=> Printing(t)
    <3> HIDE DEF SmpInv, TypeInv
    <3> QED
      BY <1>1, <2>1, PrintingStep
  <2>3. \A u \in Tasks : state'[u] = state[u] \/ u = current[c]
    <3>1. CASE Exit(c)
      BY <3>1 DEF Exit
    <3>2. CASE ~Exit(c)
      <4>1. state' = state
        BY <1>3, <3>2 DEF Call, BootEnable, CreateLock, CreateUnlock, Launch, Yield, Resume
      <4> QED
        BY <4>1
    <3> QED
      BY <3>1, <3>2
  <2>4. \A u \in Tasks : state'[u] \in {"EMPTY", "ZOMBIE"}
           => state[u] \in {"EMPTY", "ZOMBIE"} \/ ~Printing(u)'
    <3>1. ASSUME NEW u \in Tasks, u = current[c] PROVE ~Printing(u)'
      <4>1. Printing(u)' <=> Printing(u)
        BY <2>2
      <4>2. current'[c] = u
        BY <1>1, <3>1
      <4>3. ~Printing(u)'
        BY <1>1, <2>2, <3>1
      <4> QED
        BY <4>3
    <3> QED
      BY <2>3, <3>1
  <2>5. UNCHANGED kernel_lock
    BY <2>1
  <2> HIDE DEF SmpInv, TypeInv
  <2> QED
    BY <2>2, <2>4, <2>5, PrintingKept
<1>4. CASE PrintAcquire(c) \/ SyscallAcquire(c) \/ CreateReport(c)
  <2>1. /\ ctx[c] \in {"console", "syscall", "created"} /\ ctx'[c] \in ConsoleHolders
        /\ kernel_lock = 0 /\ kernel_lock' = 1 /\ UNCHANGED <<frame, state>>
    BY <1>4 DEF PrintAcquire, SyscallAcquire, CreateReport, ConsoleHolders
  <2>2. \A t \in Threads : ~Printing(t)
    BY <2>1 DEF SmpConsoleInv
  <2>3. current[c] \in Threads /\ \A t \in Threads : Printing(t)' <=> t = current[c]
    <3> HIDE DEF SmpInv, TypeInv
    <3> QED
      BY <1>1, <2>1, <2>2, PrintingStep
  <2>4. current[c] \in Tasks => state[current[c]] = "RUNNING"
    BY <1>1, <2>1 DEF CoresInv, CoreInv
  <2> QED
    BY <2>1, <2>3, <2>4 DEF SmpConsoleInv
<1>5. CASE PrintRelease(c) \/ SyscallRelease(c) \/ CreateReported(c)
  <2>1. /\ ctx[c] \in ConsoleHolders /\ ctx'[c] \notin ConsoleHolders
        /\ kernel_lock' = 0 /\ UNCHANGED <<frame, state>>
    BY <1>5 DEF PrintRelease, SyscallRelease, CreateReported, ConsoleHolders
  <2>2. \A t \in Threads : ~Printing(t)'
    <3>1. /\ current[c] \in Threads /\ Printing(current[c]) /\ ~Printing(current[c])'
          /\ \A t \in Threads : t # current[c] => (Printing(t)' <=> Printing(t))
      <4> HIDE DEF SmpInv, TypeInv
      <4> QED
        BY <1>1, <2>1, PrintingStep
    <3>2. ASSUME NEW t \in Threads PROVE ~Printing(t)'
      <4>1. t # current[c] => ~Printing(t)
        BY <3>1 DEF SmpConsoleInv
      <4>2. t # current[c] => ~Printing(t)'
        BY <3>1, <4>1
      <4>3. t = current[c] => ~Printing(t)'
        BY <1>1, <3>1
      <4> QED
        BY <4>2, <4>3
    <3> QED
      BY <3>2
  <2> QED
    BY <2>1, <2>2 DEF SmpConsoleInv
<1>6. ~MsleepLock(c) /\ ~MsleepUnlock(c)
  BY DEF NobodySleeps, MsleepUnlock, MsleepLock
<1> QED
  BY <1>2, <1>3, <1>4, <1>5, <1>6 DEF Boot, Service

\* A switched out thread is where its frame says, wherever it goes next.
LEMMA SmpConsoleHandler ==
    ASSUME SmpInv, SmpConsoleInv, NEW c \in Cores,
           Handler(c) \/ TimerFires(c) \/ \E i \in Interrupts : IrqTake(c, i)
    PROVE  SmpConsoleInv'
<1> USE IdFacts DEF SmpInv, TypeInv, TypeOK
<1>1. CASE \/ CheckLock(c) \/ CheckUnlock(c) \/ GcLock(c) \/ GcUnlock(c) \/ Dispatch(c)
           \/ TimerFires(c) \/ \E i \in Interrupts : IrqTake(c, i)
  <2>1. (irq[c] # "eret" /\ irq'[c] # "eret") \/ irq'[c] = irq[c]
    BY <1>1 DEF CheckLock, CheckUnlock, GcLock, GcUnlock, Dispatch, TimerFires, IrqTake,
                Masked, EntryOf, Interrupts
  <2>2. /\ UNCHANGED <<current, ctx, frame, kernel_lock, state>>
        /\ \A d \in Cores : d # c => irq'[d] = irq[d]
    BY <1>1 DEF CheckLock, CheckUnlock, GcLock, GcUnlock, Dispatch, TimerFires, IrqTake
  <2>3. \A t \in Threads, d \in Cores : OnCore(t, d)' <=> OnCore(t, d)
    BY <2>1, <2>2 DEF OnCore
  <2>4. \A t \in Threads : Printing(t)' <=> Printing(t)
    BY <2>2, <2>3 DEF Printing
  <2> HIDE DEF SmpInv
  <2> QED
    BY <2>2, <2>4, PrintingKept
<1>2. CASE Reap(c)
  <2> DEFINE z == Head(zombie_q)
  <2>1. z \in Tasks /\ state[z] = "ZOMBIE" /\ ~IsCurrent(z)
    BY <1>2, HeadFacts DEF Reap, ListsInv
  <2>2. /\ UNCHANGED <<current, ctx, irq, kernel_lock>>
        /\ frame'[z] \in {frame[z], "none"}
        /\ \A t \in Threads \ {z} : frame'[t] = frame[t] /\ state'[t] = state[t]
    BY <1>2, <2>1 DEF Reap
  <2>3. ~Printing(z) /\ \A t \in Threads, d \in Cores : OnCore(t, d)' <=> OnCore(t, d)
    BY <2>1, <2>2 DEF SmpConsoleInv, OnCore
  <2>4. ASSUME NEW t \in Threads PROVE Printing(t)' <=> Printing(t)
    <3>1. CASE t = z
      <4>1. \A d \in Cores : ~OnCore(t, d) /\ ~OnCore(t, d)'
        BY <2>1, <2>3, <3>1 DEF OnCore, IsCurrent
      <4> HIDE DEF z
      <4> QED
        BY <2>2, <2>3, <3>1, <4>1 DEF Printing, ConsoleHolders
    <3>2. CASE t # z
      BY <2>2, <2>3, <3>2 DEF Printing
    <3> QED
      BY <3>1, <3>2
  <2>5. \A t \in Tasks : state'[t] \in {"EMPTY", "ZOMBIE"} => state[t] \in {"EMPTY", "ZOMBIE"}
    BY <2>1, <2>2
  <2> HIDE DEF SmpInv
  <2> QED
    BY <2>2, <2>4, <2>5, PrintingKept
<1>3. CASE Schedule(c)
  <2> DEFINE cur  == current[c]
             next == current'[c]
  <2>1. /\ irq[c] = "sched" /\ irq'[c] = "eret" /\ UNCHANGED <<ctx, kernel_lock>>
        /\ frame' = [frame EXCEPT ![cur] = ctx[c]]
        /\ \A d \in Cores : d # c => irq'[d] = irq[d] /\ current'[d] = current[d]
    BY <1>3 DEF Schedule
  <2>2. cur \in Threads /\ \A d \in Cores : d # c => current[d] # cur
    <3>1. cur \in Tasks \/ cur = Idle(c)
      BY <2>1 DEF CoresInv, CoreInv, OnIdle
    <3>2. ASSUME NEW d \in Cores, d # c, cur = Idle(c) PROVE current[d] # cur
      BY <3>2 DEF CoresInv, CoreInv, OnIdle, ZERO
    <3> QED
      BY <3>1, <3>2 DEF CoresInv
  <2>3. OnCore(cur, c) /\ \A t \in Threads : ~OnCore(t, c)'
    BY <2>1 DEF OnCore
  <2>4. \A t \in Threads, d \in Cores : d # c => (OnCore(t, d)' <=> OnCore(t, d))
    BY <2>1 DEF OnCore
  <2>5. \A d \in Cores : d # c => ~OnCore(cur, d)
    BY <2>2 DEF OnCore
  <2>6. ASSUME NEW t \in Threads PROVE Printing(t)' <=> Printing(t)
    <3>1. CASE t = cur
      <4>1. frame'[t] = ctx[c] /\ \A d \in Cores : ~OnCore(t, d)'
        <5>1. frame'[t] = ctx[c]
          BY <2>1, <3>1
        <5> HIDE DEF SmpInv, TypeInv, TypeOK, cur
        <5> QED
          BY <2>3, <2>4, <2>5, <3>1, <5>1
      <4>2. Printing(t)' <=> ctx[c] \in ConsoleHolders
        BY <4>1 DEF Printing
      <4>3. Printing(t) <=> ctx[c] \in ConsoleHolders
        BY <2>3, <2>5, <3>1 DEF Printing
      <4> QED
        BY <4>2, <4>3
    <3>2. CASE t # cur
      <4>1. ~OnCore(t, c) /\ frame'[t] = frame[t]
        BY <2>1, <3>2 DEF OnCore
      <4> QED
        BY <2>1, <2>3, <2>4, <4>1 DEF Printing
    <3> QED
      BY <3>1, <3>2
  <2>7. \A t \in Threads : state'[t] \in {"EMPTY", "ZOMBIE"} => state'[t] = state[t]
    BY <1>3 DEF Schedule
  <2> HIDE DEF SmpInv
  <2> QED
    BY <2>1, <2>6, <2>7, PrintingKept
<1>4. CASE IrqReturn(c)
  <2> DEFINE cur == current[c]
  <2>1. /\ irq[c] = "eret" /\ irq'[c] = "none" /\ ctx'[c] = frame[cur]
        /\ UNCHANGED <<current, frame, state, kernel_lock>>
        /\ \A d \in Cores : d # c => irq'[d] = irq[d] /\ ctx'[d] = ctx[d]
    BY <1>4 DEF IrqReturn
  <2>2. cur \in Threads /\ \A d \in Cores : d # c => current[d] # cur
    <3>1. cur \in Tasks \/ cur = Idle(c)
      BY <2>1 DEF CoresInv, CoreInv, OnIdle
    <3>2. ASSUME NEW d \in Cores, d # c, cur = Idle(c) PROVE current[d] # cur
      BY <3>2 DEF CoresInv, CoreInv, OnIdle, ZERO
    <3> QED
      BY <3>1, <3>2 DEF CoresInv
  <2>3. OnCore(cur, c)' /\ \A t \in Threads : ~OnCore(t, c)
    BY <2>1 DEF OnCore
  <2>4. \A t \in Threads, d \in Cores : d # c => (OnCore(t, d)' <=> OnCore(t, d))
    BY <2>1 DEF OnCore
  <2>5. \A d \in Cores : d # c => ~OnCore(cur, d)
    BY <2>2 DEF OnCore
  <2>6. ASSUME NEW t \in Threads PROVE Printing(t)' <=> Printing(t)
    <3>1. CASE t = cur
      <4>1. Printing(t) <=> frame[t] \in ConsoleHolders
        BY <2>2, <2>3, <2>5, <3>1 DEF Printing
      <4>2. OnCore(t, c)' /\ \A d \in Cores : d # c => ~OnCore(t, d)'
        BY <2>1, <2>2, <2>3, <2>4, <2>5, <3>1 DEF OnCore
      <4>3. Printing(t)' <=> ctx'[c] \in ConsoleHolders
        BY <4>2 DEF Printing
      <4> QED
        BY <2>1, <3>1, <4>1, <4>3
    <3>2. CASE t # cur
      <4>1. ~OnCore(t, c)' /\ frame'[t] = frame[t]
        BY <2>1, <3>2 DEF OnCore
      <4>2. \A d \in Cores : OnCore(t, d)' <=> OnCore(t, d)
        BY <2>3, <2>4, <4>1
      <4>3. \A d \in Cores : OnCore(t, d) => ctx'[d] = ctx[d]
        BY <2>1, <2>3
      <4> HIDE DEF cur
      <4> QED
        BY <4>1, <4>2, <4>3 DEF Printing
    <3> QED
      BY <3>1, <3>2
  <2> HIDE DEF SmpInv
  <2> QED
    BY <2>1, <2>6, PrintingKept
<1>5. ~CheckWake(c) /\ ~CheckKeep(c)
  BY DEF NobodySleeps, CheckWake, CheckKeep
<1> QED
  BY <1>1, <1>2, <1>3, <1>4, <1>5 DEF Handler

LEMMA SmpLockStep ==
    ASSUME "msleep" \notin TaskCalls, SmpLockInv, [Next]_vars
    PROVE  SmpLockInv'
<1> USE DEF SmpLockInv
<1>1. SmpInv'
  BY SmpStep
<1>2. CASE UNCHANGED vars \/ \E t \in Tasks : WakeTimePasses(t)
  <2>1. UNCHANGED <<state, frame, current, ctx, irq, sched_lock, kernel_lock>>
    BY <1>2 DEF vars, WakeTimePasses
  <2>2. SmpSchedInv' /\ SmpConsoleInv'
    BY <2>1 DEF SmpSchedInv, HoldsSched, SmpConsoleInv, Printing, OnCore
  <2> QED
    BY <1>1, <2>2
<1>3. ASSUME NEW c \in Cores, JoinCore(c) PROVE SmpConsoleInv'
  <2>1. /\ irq' = irq /\ frame' = frame /\ kernel_lock' = kernel_lock
        /\ ctx'[c] = "idle" /\ current'[c] = Idle(c)
        /\ \A d \in Cores : d # c => ctx'[d] = ctx[d] /\ current'[d] = current[d]
        /\ \A t \in Tasks : state'[t] = state[t]
    BY <1>3, IdFacts DEF JoinCore, SmpInv, TypeInv, TypeOK
  <2>2. current[c] = ZERO /\ frame[Idle(c)] \in {"none", "idle"}
    BY <1>3 DEF JoinCore, SmpInv, CoresInv, CoreInv
  <2>3. \A t \in Threads, d \in Cores : d # c => (OnCore(t, d)' <=> OnCore(t, d))
    BY <2>1 DEF OnCore
  <2>4. \A t \in Threads : ~OnCore(t, c) /\ (OnCore(t, c)' => t = Idle(c))
    BY <2>1, <2>2, IdFacts DEF OnCore
  <2>5. ASSUME NEW t \in Threads PROVE Printing(t)' <=> Printing(t)
    <3>1. CASE t = Idle(c)
      BY <2>1, <2>2, <2>3, <2>4, <3>1 DEF Printing, ConsoleHolders
    <3>2. CASE t # Idle(c)
      BY <2>1, <2>3, <2>4, <3>2 DEF Printing
    <3> QED
      BY <3>1, <3>2
  <2> QED
    BY <2>1, <2>5, PrintingKept
<1> QED
  BY <1>1, <1>2, <1>3, SmpSchedThread, SmpSchedHandler, SmpConsoleThread, SmpConsoleHandler
     DEF Next

LEMMA SmpLockInvariant ==
    ASSUME "msleep" \notin TaskCalls PROVE Spec => []SmpLockInv
BY SmpLockInit, SmpLockStep, PTL DEF Spec

\* On any number of cores whose tasks never sleep, a lock has exactly one
\* holder while it is taken: a core for sched_lock, and for the console a
\* thread, wherever it has been moved in the middle of its print.
THEOREM LocksHeldOnceWithoutSleepers ==
    ASSUME "msleep" \notin TaskCalls PROVE Spec => []LocksHeldOnce
<1>1. SmpLockInv => LocksHeldOnce
  <2> SUFFICES ASSUME SmpLockInv PROVE LocksHeldOnce
    OBVIOUS
  <2> USE DEF SmpLockInv
  <2> DEFINE S == Executing(SchedHolders)
             L == {c \in Cores : irq[c] \in {"checking", "reaping"}}
             K == Executing(ConsoleHolders)
  <2>1. K = {t \in Threads : Printing(t)}
    BY DEF Executing, Printing
  <2>2. S = {t \in Threads : \E c \in Cores : OnCore(t, c) /\ ctx[c] \in CreatePcs}
    BY DEF Executing, SmpInv, NobodySleeps, SmpSchedInv, SchedHolders, CreatePcs
  <2>3. /\ Cardinality({}) = 0
        /\ \A x : Cardinality({x}) = 1
    BY FS_EmptySet, FS_Singleton
  <2>4. sched_lock = Cardinality(S) + Cardinality(L)
    <3>1. CASE sched_lock = 0
      <4>1. S = {} /\ L = {}
        BY <2>2, <3>1 DEF SmpSchedInv, HoldsSched, LoopPcs
      <4> HIDE DEF S, L
      <4> QED
        BY <2>3, <3>1, <4>1
    <3>2. CASE sched_lock = 1
      <4>1. PICK c \in Cores : HoldsSched(c) /\ \A d \in Cores : HoldsSched(d) => d = c
        BY <3>2 DEF SmpSchedInv
      <4>2. CASE irq[c] \in LoopPcs
        <5>1. S = {} /\ L = {c}
          BY <2>2, <4>1, <4>2 DEF SmpSchedInv, HoldsSched, LoopPcs
        <5>2. Cardinality({c}) = 1
          BY <2>3
        <5> HIDE DEF S, L
        <5>3. Cardinality(S) = 0 /\ Cardinality(L) = 1
          BY <2>3, <5>1, <5>2
        <5> QED
          BY <3>2, <5>3
      <4>3. CASE irq[c] \notin LoopPcs
        <5>1. ctx[c] \in CreatePcs /\ irq[c] # "eret"
          BY <4>1, <4>3 DEF HoldsSched, SmpSchedInv
        <5>2. current[c] \in Threads
          BY <5>1, IdFacts DEF SmpInv, CoresInv, CoreInv, OnIdle, CreatePcs
        <5>3. S = {current[c]} /\ L = {}
          BY <2>2, <4>1, <4>3, <5>1, <5>2 DEF HoldsSched, LoopPcs, OnCore
        <5>4. Cardinality({current[c]}) = 1
          BY <2>3
        <5> HIDE DEF S, L
        <5>5. Cardinality(S) = 1 /\ Cardinality(L) = 0
          BY <2>3, <5>3, <5>4
        <5> QED
          BY <3>2, <5>5
      <4> QED
        BY <4>2, <4>3
    <3> QED
      BY <3>1, <3>2 DEF SmpInv, TypeInv, TypeOK
  <2>5. kernel_lock = Cardinality(K)
    <3>1. CASE kernel_lock = 0
      <4>1. K = {}
        BY <2>1, <3>1 DEF SmpConsoleInv
      <4> QED
        BY <2>3, <3>1, <4>1
    <3>2. CASE kernel_lock = 1
      <4>1. PICK t \in Threads : Printing(t)
        BY <3>2 DEF SmpConsoleInv
      <4>2. K = {t}
        BY <2>1, <4>1 DEF SmpConsoleInv
      <4> HIDE DEF K
      <4> QED
        BY <2>3, <3>2, <4>2
    <3> QED
      BY <3>1, <3>2 DEF SmpInv, TypeInv, TypeOK
  <2> QED
    BY <2>4, <2>5 DEF LocksHeldOnce
<1> QED
  BY <1>1, SmpLockInvariant, PTL

=============================================================================
