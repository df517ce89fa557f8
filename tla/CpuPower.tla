------------------------------ MODULE CpuPower ------------------------------
(***************************************************************************)
(* Turning cores on and off: the PSCI calls of the EL3 monitor             *)
(* (src/src/el3/el3_psci.c), the FIQ handlers that carry them out on the   *)
(* target core (el3_exception.c), the parking of a secondary core          *)
(* (el3_main.c) and the kernel's wait for core 1 (kernel_main.c).          *)
(*                                                                         *)
(* cpus[] is shared by all cores and guarded by no lock, so every read and *)
(* write of it is a step.  WAKE and SLEEP are Group 0 SGIs: EL3 takes them *)
(* as FIQs, at a lower EL always and at EL3 where PSTATE.F is clear.  An   *)
(* SGI arrives some time after it was sent, and once if it was sent twice  *)
(* before it arrived.                                                      *)
(***************************************************************************)
EXTENDS Integers, FiniteSets

CONSTANTS
    NumCores,   \* cores of the machine, at most MAX_CPUS
    Callers     \* the cores whose kernels turn cores on and off at will

ASSUME NumCoresAssumption  == NumCores \in 2..10

Cores       == 0..(NumCores - 1)
Secondaries == Cores \ {0}

ASSUME CallersAssumption == Callers \subseteq Cores

PowerStates == {"OFF", "ON", "BOOTING"}

\* A core that executes at a lower EL.
Entered  == {"entering", "virtual", "running", "main", "wait"}

\* An SMC handler of el3_psci.c, before the line that its name says.
InSmc    == {"checkOn", "checkBooting", "setEntry", "setBooting", "sendWake",
             "checkOff", "sendSleep"}

\* init_sec_core(): FIQs are masked up to "unmasked".
Parking  == {"reset", "marked", "unmasked", "parking", "parked"}

\* el3_cpu_off(): FIQs are masked before "offopen".
Offing   == {"off", "offprint", "offopen", "offdone"}

Pcs == Entered \cup InSmc \cup Parking \cup Offing \cup {"halted", "waking", "starting"}

\* Where a core takes FIQs.
FiqOpen == Entered \cup {"unmasked", "parking", "parked", "offopen", "offdone", "halted"}

VARIABLES
    state,        \* [Cores -> PowerStates]  cpus[].state
    entry_point,  \* [Cores -> {0, 1}]       cpus[].entry_point # 0
    pc,           \* [Cores -> Pcs]
    resume,       \* [Cores -> Pcs]          frame->elr of the core's EL3 handler
    target,       \* [Cores -> Cores]        argument of the core's SMC
    pending,      \* [Cores -> SUBSET {"WAKE", "SLEEP"}]
    sleeping,     \* cores on which SLEEP is active: its handler never ends it
    uart_lock,    \* of el3_uart.c
    k_cpus,       \* cores the kernel has marked ON
    identity      \* the kernel's identity map is there

cpus == <<state, entry_point>>
gic  == <<pending, sleeping>>
kernel == <<k_cpus, identity>>
vars == <<state, entry_point, pc, resume, target, pending, sleeping, uart_lock,
          k_cpus, identity>>

\* Core 0 runs the kernel, the others have just been released from reset.
Init ==
    /\ state = [c \in Cores |-> IF c = 0 THEN "ON" ELSE "OFF"]
    /\ entry_point = [c \in Cores |-> 0]
    /\ pc = [c \in Cores |-> IF c = 0 THEN "main" ELSE "reset"]
    /\ resume = [c \in Cores |-> "running"]
    /\ target = [c \in Cores |-> 0]
    /\ pending = [c \in Cores |-> {}]
    /\ sleeping = {}
    /\ uart_lock = 0
    /\ k_cpus = {0}
    /\ identity = TRUE

Step(c, from, to) == pc[c] = from /\ pc' = [pc EXCEPT ![c] = to]

-----------------------------------------------------------------------------
(* The kernel.                                                              *)

\* kernel_main_thread() asks for core 1 ...
MainCall ==
    /\ Step(0, "main", "checkOn")
    /\ resume' = [resume EXCEPT ![0] = "wait"]
    /\ target' = [target EXCEPT ![0] = 1]
    /\ UNCHANGED <<cpus, gic, uart_lock, kernel>>

\* ... waits until it is there, whatever the call returned, and removes the
\* identity map.
MainProceeds ==
    /\ Step(0, "wait", "running")
    /\ 1 \in k_cpus
    /\ identity' = FALSE
    /\ UNCHANGED <<cpus, resume, target, gic, uart_lock, k_cpus>>

\* A kernel asks for a secondary core to be turned on or off.
Call(c, d) ==
    /\ Step(c, "running", "checkOn") \/ Step(c, "running", "checkOff")
    /\ resume' = [resume EXCEPT ![c] = "running"]
    /\ target' = [target EXCEPT ![c] = d]
    /\ UNCHANGED <<cpus, gic, uart_lock, kernel>>

\* _kernel_entry on a secondary core: the instruction after the one that
\* enables the MMU is fetched through the identity map.
SetupMmu(c) ==
    /\ Step(c, "entering", "virtual")
    /\ identity
    /\ UNCHANGED <<cpus, resume, target, gic, uart_lock, kernel>>

\* sec_entry().
SecEntry(c) ==
    /\ Step(c, "virtual", "running")
    /\ k_cpus' = k_cpus \cup {c}
    /\ UNCHANGED <<cpus, resume, target, gic, uart_lock, identity>>

-----------------------------------------------------------------------------
(* psci_fn_cpu_on() and psci_fn_cpu_off(), with FIQs masked.                *)

Returns(c) == pc' = [pc EXCEPT ![c] = resume[c]]

CheckOn(c) ==
    /\ pc[c] = "checkOn"
    /\ IF state[target[c]] = "ON" THEN Returns(c) ELSE Step(c, "checkOn", "checkBooting")
    /\ UNCHANGED <<cpus, resume, target, gic, uart_lock, kernel>>

CheckBooting(c) ==
    /\ pc[c] = "checkBooting"
    /\ IF state[target[c]] = "BOOTING"
          THEN Returns(c) ELSE Step(c, "checkBooting", "setEntry")
    /\ UNCHANGED <<cpus, resume, target, gic, uart_lock, kernel>>

SetEntry(c) ==
    /\ Step(c, "setEntry", "setBooting")
    /\ entry_point' = [entry_point EXCEPT ![target[c]] = 1]
    /\ UNCHANGED <<state, resume, target, gic, uart_lock, kernel>>

SetBooting(c) ==
    /\ Step(c, "setBooting", "sendWake")
    /\ state' = [state EXCEPT ![target[c]] = "BOOTING"]
    /\ UNCHANGED <<entry_point, resume, target, gic, uart_lock, kernel>>

SendWakeSelf(c) ==                                       \* mutant
    /\ pc[c] = "sendWake"
    /\ pending' = [pending EXCEPT ![c] = @ \cup {"WAKE"}]
    /\ Returns(c)
    /\ UNCHANGED <<cpus, resume, target, sleeping, uart_lock, kernel>>

SendWake(c) ==
    /\ pc[c] = "sendWake"
    /\ pending' = [pending EXCEPT ![target[c]] = @ \cup {"WAKE"}]
    /\ Returns(c)
    /\ UNCHANGED <<cpus, resume, target, sleeping, uart_lock, kernel>>

\* Unlike psci_fn_cpu_on() it does not compare the target with MAX_CPUS: one
\* that is too large reads beyond cpus[].  The kernels here name cores that exist.
CheckOff(c) ==
    /\ pc[c] = "checkOff"
    /\ IF state[target[c]] = "OFF" THEN Returns(c) ELSE Step(c, "checkOff", "sendSleep")
    /\ UNCHANGED <<cpus, resume, target, gic, uart_lock, kernel>>

SendSleepMarksOff(c) ==                                  \* mutant
    /\ pc[c] = "sendSleep"
    /\ pending' = [pending EXCEPT ![target[c]] = @ \cup {"SLEEP"}]
    /\ state' = [state EXCEPT ![target[c]] = "OFF"]
    /\ Returns(c)
    /\ UNCHANGED <<entry_point, resume, target, sleeping, uart_lock, kernel>>

SendSleep(c) ==
    /\ pc[c] = "sendSleep"
    /\ pending' = [pending EXCEPT ![target[c]] = @ \cup {"SLEEP"}]
    /\ Returns(c)
    /\ UNCHANGED <<cpus, resume, target, sleeping, uart_lock, kernel>>

-----------------------------------------------------------------------------
(* init_sec_core(), then the wfi loop of el3_start.S.                       *)

MarkOn(c) ==
    /\ Step(c, "reset", "marked")
    /\ state' = [state EXCEPT ![c] = "ON"]
    /\ UNCHANGED <<entry_point, resume, target, gic, uart_lock, kernel>>

UnmaskFiq(c) ==
    /\ Step(c, "marked", "unmasked")
    /\ UNCHANGED <<cpus, resume, target, gic, uart_lock, kernel>>

ParkAcquireUnguarded(c) ==                               \* mutant
    /\ Step(c, "unmasked", "parking")
    /\ uart_lock' = 1
    /\ UNCHANGED <<cpus, resume, target, gic, kernel>>

\* uart_puts("Parking core\n").
ParkAcquire(c) ==
    /\ Step(c, "unmasked", "parking")
    /\ uart_lock = 0
    /\ uart_lock' = 1
    /\ UNCHANGED <<cpus, resume, target, gic, kernel>>

ParkRelease(c) ==
    /\ Step(c, "parking", "parked")
    /\ uart_lock' = 0
    /\ UNCHANGED <<cpus, resume, target, gic, kernel>>

ParkOff(c) ==
    /\ Step(c, "parked", "halted")
    /\ state' = [state EXCEPT ![c] = "OFF"]
    /\ UNCHANGED <<entry_point, resume, target, gic, uart_lock, kernel>>

-----------------------------------------------------------------------------
(* el3_fiq(), el3_cpu_on() and el3_cpu_off().                               *)

FiqWakeUnmasked(c) ==                                    \* mutant
    /\ pc[c] \in FiqOpen \cup InSmc
    /\ "WAKE" \in pending[c]
    /\ pending' = [pending EXCEPT ![c] = @ \ {"WAKE"}]
    /\ resume' = [resume EXCEPT ![c] = pc[c]]
    /\ pc' = [pc EXCEPT ![c] = "waking"]
    /\ UNCHANGED <<cpus, target, sleeping, uart_lock, kernel>>

\* WAKE has the higher priority.
FiqWake(c) ==
    /\ pc[c] \in FiqOpen
    /\ "WAKE" \in pending[c]
    /\ pending' = [pending EXCEPT ![c] = @ \ {"WAKE"}]
    /\ resume' = [resume EXCEPT ![c] = pc[c]]
    /\ pc' = [pc EXCEPT ![c] = "waking"]
    /\ UNCHANGED <<cpus, target, sleeping, uart_lock, kernel>>

\* el3_cpu_on() on a core that has an entry point, and on one that has none:
\* the handler then returns to what it interrupted.
WakeEntry(c) ==
    /\ Step(c, "waking", "starting")
    /\ entry_point[c] # 0
    /\ UNCHANGED <<cpus, resume, target, gic, uart_lock, kernel>>

WakeNothing(c) ==
    /\ pc[c] = "waking"
    /\ entry_point[c] = 0
    /\ Returns(c)
    /\ UNCHANGED <<cpus, resume, target, gic, uart_lock, kernel>>

WakeOn(c) ==
    /\ Step(c, "starting", "entering")
    /\ state' = [state EXCEPT ![c] = "ON"]
    /\ UNCHANGED <<entry_point, resume, target, gic, uart_lock, kernel>>

\* The handler of SLEEP does not return, so that SLEEP stays active: the core
\* takes no second one, and only what has a higher priority.
FiqSleep(c) ==
    /\ pc[c] \in FiqOpen
    /\ "SLEEP" \in pending[c] /\ "WAKE" \notin pending[c]
    /\ c \notin sleeping
    /\ pending' = [pending EXCEPT ![c] = @ \ {"SLEEP"}]
    /\ sleeping' = sleeping \cup {c}
    /\ pc' = [pc EXCEPT ![c] = "off"]
    /\ UNCHANGED <<cpus, resume, target, uart_lock, kernel>>

\* uart_puts("Turning off core\n").
OffAcquire(c) ==
    /\ Step(c, "off", "offprint")
    /\ uart_lock = 0
    /\ uart_lock' = 1
    /\ UNCHANGED <<cpus, resume, target, gic, kernel>>

\* From there to the unmasking of FIQs.
OffRelease(c) ==
    /\ Step(c, "offprint", "offopen")
    /\ uart_lock' = 0
    /\ UNCHANGED <<cpus, resume, target, gic, kernel>>

OffState(c) ==
    /\ Step(c, "offopen", "offdone")
    /\ state' = [state EXCEPT ![c] = "OFF"]
    /\ UNCHANGED <<entry_point, resume, target, gic, uart_lock, kernel>>

OffEntry(c) ==
    /\ Step(c, "offdone", "halted")
    /\ entry_point' = [entry_point EXCEPT ![c] = 0]
    /\ UNCHANGED <<state, resume, target, gic, uart_lock, kernel>>

-----------------------------------------------------------------------------
Kernel(c) == SetupMmu(c) \/ SecEntry(c)
Main      == MainCall \/ MainProceeds
Smc(c)    == \/ CheckOn(c) \/ CheckBooting(c) \/ SetEntry(c) \/ SetBooting(c)
             \/ SendWake(c) \/ CheckOff(c) \/ SendSleep(c)
Park(c)   == \/ MarkOn(c) \/ UnmaskFiq(c) \/ ParkAcquire(c) \/ ParkRelease(c)
             \/ ParkOff(c)
Wake(c)   == WakeEntry(c) \/ WakeNothing(c) \/ WakeOn(c)
Off(c)    == OffAcquire(c) \/ OffRelease(c) \/ OffState(c) \/ OffEntry(c)

Next ==
    \/ Main
    \/ \E c \in Cores : \/ c \in Callers /\ \E d \in Secondaries : Call(c, d)
                        \/ Kernel(c) \/ Smc(c) \/ Park(c) \/ Wake(c) \/ Off(c)
                        \/ FiqWake(c) \/ FiqSleep(c)

\* A core goes on with what it executes, and takes a FIQ that is pending each
\* time it unmasks them.  Nothing makes a kernel call PSCI but its main thread.
Fairness ==
    /\ WF_vars(Main)
    /\ \A c \in Cores : /\ WF_vars(Kernel(c) \/ Smc(c) \/ Park(c) \/ Wake(c) \/ Off(c))
                         /\ SF_vars(FiqWake(c) \/ FiqSleep(c))

Spec == Init /\ [][Next]_vars /\ Fairness

-----------------------------------------------------------------------------
(* Properties.                                                              *)

\* The variables have their types: what a WAKE interrupts is never an SMC or
\* another handler of EL3.
TypeOK ==
    /\ state \in [Cores -> PowerStates]
    /\ entry_point \in [Cores -> {0, 1}]
    /\ pc \in [Cores -> Pcs]
    /\ resume \in [Cores -> FiqOpen]
    /\ target \in [Cores -> Cores]
    /\ pending \in [Cores -> SUBSET {"WAKE", "SLEEP"}]
    /\ sleeping \subseteq Cores
    /\ uart_lock \in {0, 1}
    /\ k_cpus \subseteq Cores
    /\ identity \in BOOLEAN

\* What core c executes, or was executing when the WAKE handler interrupted it.
Where(c) == IF pc[c] \in {"waking", "starting"} THEN resume[c] ELSE pc[c]

\* A core that cpus[] reports as OFF executes neither the kernel nor anything
\* on its behalf: it is at EL3, on the way to a wfi loop or in it, although
\* three cores write the entry and none of them takes a lock.
OffIsHalted ==
    \A c \in Cores :
        state[c] = "OFF" => Where(c) \in {"reset", "halted"} \cup Offing

\* Of two cores, at most one is between the lock and the unlock of uart_puts(),
\* an interrupted one included, and the lock is then taken.
UartExclusive ==
    \A c, d \in Cores :
        Where(c) \in {"parking", "offprint"} =>
            /\ uart_lock = 1
            /\ Where(d) \in {"parking", "offprint"} => c = d

WakesSoon(c) == \E d \in Cores : pc[d] \in {"setBooting", "sendWake"} /\ target[d] = c

\* A core is left BOOTING, where psci_fn_cpu_on() refuses it for ever, only
\* while a WAKE is on its way or being handled; the exception is the core whose
\* own el3_cpu_off() has erased the new entry point.
BootingIsWoken ==
    \A c \in Cores :
        state[c] = "BOOTING" => \/ WakesSoon(c)
                                \/ "WAKE" \in pending[c]
                                \/ pc[c] \in {"waking", "starting"}
                                \/ entry_point[c] = 0

\* An accepted CPU_ON brings the core up, wherever the core was: it executes
\* the kernel from its entry point, past the instruction that turns its MMU on.
\* The exceptions: an el3_cpu_off() erases the entry point, the identity map is
\* gone by then, or the core has yet to turn off and finds the monitor's
\* console locked for ever.
AcceptedCoreArrives ==
    \A c \in Secondaries :
        state[c] = "BOOTING" /\ entry_point[c] # 0
            ~> \/ pc[c] = "virtual"
               \/ entry_point[c] = 0
               \/ pc[c] = "entering" /\ ~identity
               \/ [](pc[c] = "off")

\* "check if the core is offline": the kernel's main thread gets core 1, which
\* no one has turned on.  init_sec_core() marks the core ON before it parks it,
\* and a CPU_ON in between is refused.
MainThreadProceeds == pc[0] = "wait" ~> pc[0] # "wait"

=============================================================================
