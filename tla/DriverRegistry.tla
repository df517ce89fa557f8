---------------------------- MODULE DriverRegistry ----------------------------
(***************************************************************************)
(* The kernel's table of drivers (src/src/kernel/driver_manager.c) and the *)
(* interrupts that walk it (kernel_irq() of kernel_exception.c), on core 0 *)
(* to which they are routed.                                               *)
(*                                                                         *)
(* Each device has an interrupt of its own, which the model gives the      *)
(* device's name; it is level-triggered, and the device's handler clears   *)
(* it.  register_driver() takes no lock: one thread at a time calls it.    *)
(* Interrupts come between its steps.                                      *)
(*                                                                         *)
(* Drivers and handlers print, and kernel_printf() of kernel_uart.c holds  *)
(* kernel_lock with interrupts as they are: one that comes then spins on   *)
(* the lock, and the print that it interrupted never ends.  A handler that *)
(* gets the lock is one step.                                              *)
(***************************************************************************)
EXTENDS Integers

CONSTANTS
    Devices,
    NoDevice,     \* the null pointers of an entry that no driver has
    MAX_DRIVERS   \* entries of driver_registry[]: 32

ASSUME DevicesAssumption    == NoDevice \notin Devices
ASSUME MaxDriversAssumption == MAX_DRIVERS \in Nat \ {0}

Entries == 0..(MAX_DRIVERS - 1)

\* Where register_driver() is: before the lines that write the entry's fields,
\* count it and configure the interrupt.
RegPcs == {"idle", "irq_id", "handler", "device", "count", "conf"}

VARIABLES
    driver_registry,  \* [Entries -> [irq_id, handler, device]]
    driver_count,
    reg_pc,
    registering,      \* the device that register_driver() was called for
    enabled,          \* interrupts enabled in the GIC
    print,            \* where the print of the code that runs is
    line,             \* devices that signal their interrupt
    masked,           \* interrupts are masked on the core
    spinning          \* a handler spins on kernel_lock, and will for ever

\* None; about to take kernel_lock; with kernel_lock.
PrintPcs == {"no", "called", "printing"}

table    == <<driver_registry, driver_count, reg_pc, registering, enabled>>
registry == <<table, print>>
core     == <<line, masked, spinning>>

RegInit ==
    /\ driver_registry =
          [i \in Entries |-> [irq_id |-> NoDevice, handler |-> NoDevice, device |-> NoDevice]]
    /\ driver_count = 0
    /\ reg_pc = "idle"
    /\ registering = NoDevice
    /\ enabled = {}
    /\ print = "no"
    /\ line = {}
    /\ masked = TRUE
    /\ spinning = FALSE

-----------------------------------------------------------------------------
(* kernel_printf(), as the last thing that a function does.  No handler is  *)
(* in the middle of a print when the code that it interrupts runs.          *)

TakeKernelLock ==
    /\ print = "called"
    /\ print' = "printing"
    /\ UNCHANGED <<table, core>>

ReleaseKernelLock ==
    /\ print = "printing"
    /\ print' = "no"
    /\ UNCHANGED <<table, core>>

-----------------------------------------------------------------------------
(* register_driver(); a call at a full table only prints.                   *)

RegisterUnchecked(d) ==                                  \* mutant
    /\ reg_pc = "idle"
    /\ reg_pc' = "irq_id"
    /\ registering' = d
    /\ UNCHANGED <<driver_registry, driver_count, enabled, print>>

RegisterAnyway(d) ==                                     \* mutant
    /\ reg_pc = "idle"
    /\ reg_pc' = IF driver_count >= MAX_DRIVERS THEN "conf" ELSE "irq_id"
    /\ registering' = d
    /\ UNCHANGED <<driver_registry, driver_count, enabled, print>>

Register(d) ==
    /\ reg_pc = "idle"
    /\ \/ /\ driver_count < MAX_DRIVERS
          /\ reg_pc' = "irq_id"
          /\ registering' = d
          /\ UNCHANGED print
       \/ /\ driver_count >= MAX_DRIVERS
          /\ print' = "called"
          /\ UNCHANGED <<reg_pc, registering>>
    /\ UNCHANGED <<driver_registry, driver_count, enabled>>

RegStep(from, to) ==
    /\ reg_pc = from
    /\ reg_pc' = to
    /\ UNCHANGED <<registering, core>>

RegIrqId ==
    /\ RegStep("irq_id", "handler")
    /\ driver_registry' = [driver_registry EXCEPT ![driver_count].irq_id = registering]
    /\ UNCHANGED <<driver_count, enabled, print>>

RegHandler ==
    /\ RegStep("handler", "device")
    /\ driver_registry' = [driver_registry EXCEPT ![driver_count].handler = registering]
    /\ UNCHANGED <<driver_count, enabled, print>>

RegDevice ==
    /\ RegStep("device", "count")
    /\ driver_registry' = [driver_registry EXCEPT ![driver_count].device = registering]
    /\ UNCHANGED <<driver_count, enabled, print>>

RegCount ==
    /\ RegStep("count", "conf")
    /\ driver_count' = driver_count + 1
    /\ UNCHANGED <<driver_registry, enabled, print>>

\* gic_conf_spi() enables the interrupt, gic_enable_spi() does so again; the
\* print is next.
RegConf ==
    /\ RegStep("conf", "idle")
    /\ enabled' = enabled \cup {registering}
    /\ print' = "called"
    /\ UNCHANGED <<driver_registry, driver_count>>

-----------------------------------------------------------------------------
(* Interrupts.                                                              *)

\* A device signals its interrupt (external).
Raise(d) ==
    /\ d \notin line
    /\ line' = line \cup {d}
    /\ UNCHANGED <<registry, masked, spinning>>

\* The entries that dispatch_interrupt() would call the handler of.
Matches(d) == {i \in 0..(driver_count - 1) : /\ driver_registry[i].irq_id = d
                                             /\ driver_registry[i].handler # NoDevice}

\* The devices whose interrupt the handler clears that dispatch_interrupt()
\* calls: that of the first match.
Acknowledged(d) ==
    {driver_registry[i].handler : i \in {j \in Matches(d) : \A k \in Matches(d) : j <= k}}

\* kernel_irq() and dispatch_interrupt(): a handler clears its device's
\* interrupt and prints, as virtio_blk_handler() does.  Without a match the
\* interrupt stays, and there is a warning: a print as well.
Dispatch(d) ==
    /\ ~masked /\ ~spinning
    /\ d \in line \cap enabled
    /\ line' = line \ Acknowledged(d)
    /\ spinning' = (print = "printing")
    /\ UNCHANGED <<registry, masked>>

\* mask_interrupts(0), the end of c_entry().
Unmask ==
    /\ masked
    /\ masked' = FALSE
    /\ UNCHANGED <<registry, line, spinning>>

RegSteps == \/ RegIrqId \/ RegHandler \/ RegDevice \/ RegCount \/ RegConf
            \/ TakeKernelLock \/ ReleaseKernelLock

-----------------------------------------------------------------------------
(* Properties.                                                              *)

RegTypeOK ==
    /\ driver_registry \in [Entries -> [irq_id  : Devices \cup {NoDevice},
                                        handler : Devices \cup {NoDevice},
                                        device  : Devices \cup {NoDevice}]]
    /\ driver_count \in 0..MAX_DRIVERS
    /\ reg_pc \in RegPcs
    /\ registering \in Devices \cup {NoDevice}
    /\ enabled \subseteq Devices
    /\ line \subseteq Devices
    /\ print \in PrintPcs
    /\ masked \in BOOLEAN /\ spinning \in BOOLEAN

\* An interrupt that is enabled finds the handler and the device it belongs to,
\* whenever it comes between the steps of register_driver(), and also when the
\* same driver is registered twice or the table is full.
EnabledHasHandler ==
    \A d \in enabled :
        /\ Matches(d) # {}
        /\ \A i \in Matches(d) : driver_registry[i].handler = d /\ driver_registry[i].device = d

=============================================================================
