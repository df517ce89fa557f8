-------------------------------- MODULE Boot --------------------------------
(***************************************************************************)
(* The start of the three programs of the image on all cores.  Each of the *)
(* EL3 monitor, the kernel and SEEOS has its translation tables built by   *)
(* core 0, whose MMU is off, and a flag on which the other cores wait      *)
(* before they enable theirs: setup_mmu(), kernel_setup_mmu() and          *)
(* seeos_primary_core_init() of src/src/{el3/el3_mmu,kernel/kernel_mmu,    *)
(* see/see_init}.c.  The kernel's main thread turns core 1 on, once, and   *)
(* removes the identity map when it is there; the others stay parked.      *)
(* SEEOS starts on a core inside the kernel's first call, and a non-secure *)
(* interrupt can stop it there.                                            *)
(*                                                                         *)
(* Memory is counted in units of 2 MB, what one second-level entry maps.   *)
(***************************************************************************)
EXTENDS Integers, Sequences, FiniteSets, Functions

CONSTANTS
    NumCores,
    StackEnd    \* the unit of _kernel_stack

RAM   == 512    \* RAM_BASE; the image is linked to start there
SMEM  == 516    \* SMEM_BUFFER
GIC   == 64     \* GICD_BASE, GITS_BASE and GICR_BASE
UART  == 72     \* UART_BASE and SECURE_UART1
BLOCK == 80     \* VIRTIO_BLK_ADDRESS

ASSUME NumCoresAssumption == NumCores \in Nat /\ NumCores > 1
ASSUME ImageAssumption    == StackEnd \in RAM..(SMEM - 1)

Cores       == 0..(NumCores - 1)
Secondaries == Cores \ {0}
Regimes     == {"el3", "kernel", "see"}

\* Units first..last of the table tree at root, in the order of a region's loop.
Region(root, first, last) == [i \in 1..(last - first + 1) |-> <<root, first + i - 1>>]

\* What core 0 maps in setup_mmu(): six blocks of RAM, and the devices; ...
El3Map ==
    Region("l1_table", RAM, RAM + 5)
    \o Region("l1_table", GIC, GIC) \o Region("l1_table", UART, UART)

\* ... in kernel_setup_mmu(): image and stacks in both halves of the address
\* space, of which the lower one is the identity map, and the devices; ...
IdentityMap == Region("user_l1", RAM, StackEnd)
KernelMap ==
    IdentityMap \o Region("kernel_l1", RAM, StackEnd)
    \o Region("kernel_l1", UART, UART) \o Region("kernel_l1", GIC, GIC)
    \o Region("user_l1", SMEM, SMEM)

\* ... and in seeos_init_mmu_global().
SeeMap ==
    Region("seeos_l1_table", RAM, RAM + 1) \o Region("seeos_l1_table", SMEM, SMEM)
    \o Region("seeos_l1_table", UART, UART) \o Region("seeos_l1_table", GIC, GIC)

Map == [r \in Regimes |->
    CASE r = "el3" -> El3Map [] r = "kernel" -> KernelMap [] r = "see" -> SeeMap]

\* What virtio_blk_init() adds.
BlockPage == <<"kernel_l1", BLOCK>>

PoolSizeRamOnly == [r \in Regimes |->                        \* mutant
    CASE r = "el3" -> 1 [] r = "kernel" -> 32 [] r = "see" -> 64]

\* Tables that each regime's allocator has.
PoolSize == [r \in Regimes |->
    CASE r = "el3" -> 12 [] r = "kernel" -> 32 [] r = "see" -> 64]

\* The tables on the way to unit m = <<root, u>>, kept for the next unit that
\* needs them: one for a first-level entry ...
BlockTables(m) == {<<m[1], "l2", m[2] \div 512>>}

\* ... and, where pages are mapped, one for a second-level entry.
PageTables(m) == BlockTables(m) \cup {<<m[1], "l3", m[2]>>}

Tables(r, m) == IF r = "el3" THEN BlockTables(m) ELSE PageTables(m)

VARIABLES
    at,         \* [Cores -> Regimes]  the program the core executes
    stage,      \* [Cores -> [Regimes -> Stages]]  how far it has come there
    cursor,     \* [Regimes -> Nat]  units that core 0 has gone through
    mapped,     \* [Regimes -> set of <<root, unit>>]
    allocated,  \* [Regimes -> set of tables that the allocator has given out]
    ready,      \* regimes whose flag is set: mmu_ready, ~mmu_lock, seeos_mmu_ready
    keys,       \* the round keys of see_crypto.c are computed
    main,       \* how far the kernel of core 0 has come once it has started
    disturbed   \* history: cores on which an interrupt stopped SEEOS's start

\* MMU off; on; the keys computed; started.  A secondary core at EL3 is ON in
\* cpus[] once its MMU is on, and OFF again when it is parked ("started").
Stages == {"entry", "enabled", "keyed", "started"}

\* c_entry() before it creates the threads; the main thread before its CPU_ON,
\* at its wait for core 1 after a CPU_ON that was accepted or refused, past it.
MainPcs == {"init", "call", "woken", "refused", "done"}

tables == <<cursor, mapped, allocated>>
vars == <<at, stage, cursor, mapped, allocated, ready, keys, main, disturbed>>

Init ==
    /\ at = [c \in Cores |-> "el3"]
    /\ stage = [c \in Cores |-> [r \in Regimes |-> "entry"]]
    /\ cursor = [r \in Regimes |-> 0]
    /\ mapped = [r \in Regimes |-> {}]
    /\ allocated = [r \in Regimes |-> {}]
    /\ ready = {}
    /\ keys = FALSE
    /\ main = "init"
    /\ disturbed = {}

\* Core c, in regime r, goes from one stage to another.
Stage(c, r, from, to) ==
    /\ at[c] = r
    /\ stage[c][r] = from
    /\ stage' = [stage EXCEPT ![c][r] = to]

-----------------------------------------------------------------------------
(* Core 0.                                                                  *)

\* The next unit of the tables.  A start of SEEOS that was stopped goes on
\* with the caller's x0-x5 and may write its entry elsewhere.
MapUnit(r) ==
    /\ at[0] = r
    /\ stage[0][r] = "entry"
    /\ cursor[r] < Len(Map[r])
    /\ cursor' = [cursor EXCEPT ![r] = @ + 1]
    /\ \/ mapped' = [mapped EXCEPT ![r] = @ \cup {Map[r][cursor'[r]]}]
       \/ r = "see" /\ 0 \in disturbed /\ UNCHANGED mapped
    /\ allocated' = [allocated EXCEPT ![r] = @ \cup Tables(r, Map[r][cursor'[r]])]
    /\ UNCHANGED <<at, stage, ready, keys, main, disturbed>>

EnableMmu(r) ==
    /\ cursor[r] = Len(Map[r])
    /\ Stage(0, r, "entry", "enabled")
    /\ UNCHANGED <<at, tables, ready, keys, main, disturbed>>

\* see_init_crypto(), the round keys of which may be wrong for the same reason.
InitCrypto ==
    /\ Stage(0, "see", "enabled", "keyed")
    /\ keys' \in {TRUE} \cup (IF 0 \in disturbed THEN {FALSE} ELSE {})
    /\ UNCHANGED <<at, tables, ready, main, disturbed>>

PublishOnlyKernel(r) ==                                  \* mutant
    /\ Stage(0, r, IF r = "see" THEN "keyed" ELSE "enabled", "started")
    /\ ready' = ready \cup ({r} \cap {"kernel"})
    /\ UNCHANGED <<at, tables, keys, main, disturbed>>

PublishBeforeKeys(r) ==                                  \* mutant
    /\ \/ Stage(0, r, "enabled", "started")
       \/ Stage(0, r, "keyed", "started")
    /\ ready' = ready \cup {r}
    /\ UNCHANGED <<at, tables, keys, main, disturbed>>

\* The flag is set once the MMU is on and, in SEEOS, the keys are there.
Publish(r) ==
    /\ Stage(0, r, IF r = "see" THEN "keyed" ELSE "enabled", "started")
    /\ ready' = ready \cup {r}
    /\ UNCHANGED <<at, tables, keys, main, disturbed>>

\* main() of el3_main.c drops to _kernel_entry.
EnterKernel ==
    /\ at[0] = "el3"
    /\ stage[0]["el3"] = "started"
    /\ at' = [at EXCEPT ![0] = "kernel"]
    /\ UNCHANGED <<stage, tables, ready, keys, main, disturbed>>

-----------------------------------------------------------------------------
(* The kernel of core 0 after its start.                                    *)

Kernel0(from, to) ==
    /\ at[0] = "kernel" /\ stage[0]["kernel"] = "started"
    /\ main = from
    /\ main' = to

\* c_entry() up to create_task(): virtio_blk_init() maps the page of its device
\* before it looks for one.  The disk answers (else there are no threads).
CEntry ==
    /\ Kernel0("init", "call")
    /\ mapped' = [mapped EXCEPT !["kernel"] = @ \cup {BlockPage}]
    /\ allocated' = [allocated EXCEPT !["kernel"] = @ \cup PageTables(BlockPage)]
    /\ UNCHANGED <<at, stage, cursor, ready, keys, disturbed>>

\* kernel_main_thread() makes one CPU_ON, of core 1, and does not look at what
\* it returns.  A core 1 that is about to park is ON in cpus[].
CpuOn ==
    /\ Kernel0("call", IF at[1] = "el3" /\ stage[1]["el3"] = "enabled"
                          THEN "refused" ELSE "woken")
    /\ UNCHANGED <<at, stage, tables, ready, keys, disturbed>>

\* The wait for k_cpus[1], then the end of the identity map.  The application
\* is mapped where its tables already are.
MainProceeds ==
    /\ main \in {"woken", "refused"}
    /\ Kernel0(main, "done")
    /\ stage[1]["kernel"] = "started"
    /\ mapped' = [mapped EXCEPT !["kernel"] = @ \ Range(IdentityMap)]
    /\ UNCHANGED <<at, stage, cursor, allocated, ready, keys, disturbed>>

-----------------------------------------------------------------------------
(* The other cores.                                                         *)

\* The MMU of a core other than 0, over the tables of core 0.
EnableSecondary(c, r) ==
    /\ Stage(c, r, "entry", IF r = "el3" THEN "enabled" ELSE "started")
    /\ UNCHANGED <<at, tables, ready, keys, main, disturbed>>

SetupMmuSecondaryAtOnce(c) == EnableSecondary(c, "el3")  \* mutant

\* Each program waits for its flag first.
SetupMmuSecondary(c) == "el3" \in ready /\ EnableSecondary(c, "el3")

\* The end of init_sec_core().
Park(c) ==
    /\ Stage(c, "el3", "enabled", "started")
    /\ UNCHANGED <<at, tables, ready, keys, main, disturbed>>

\* The WAKE of a CPU_ON, which the core takes once it has unmasked FIQs.
TakeWake ==
    /\ main = "woken"
    /\ at[1] = "el3" /\ stage[1]["el3"] # "entry"
    /\ at' = [at EXCEPT ![1] = "kernel"]
    /\ UNCHANGED <<stage, tables, ready, keys, main, disturbed>>

\* The instruction after the MMU is on is fetched through the identity map.
SeccoreSetupMmu(c) == "kernel" \in ready /\ main # "done" /\ EnableSecondary(c, "kernel")

\* The loop of SEEOS tests a register of x0-x5, which a start that was stopped
\* does not find as it left it.
SeeosSecondaryCoreInit(c) ==
    /\ "see" \in ready \/ c \in disturbed
    /\ EnableSecondary(c, "see")

-----------------------------------------------------------------------------
(* SEEOS, on any core.                                                      *)

\* The threads of core 0 call, and those that a kernel may run on core 1.
SeeosCall(c) ==
    /\ at[c] = "kernel" /\ stage[c]["kernel"] = "started"
    /\ main # "init"
    /\ at' = [at EXCEPT ![c] = "see"]
    /\ UNCHANGED <<stage, tables, ready, keys, main, disturbed>>

\* A service, and SMC_YIELD.
Serve(c) ==
    /\ at[c] = "see" /\ stage[c]["see"] = "started"
    /\ at' = [at EXCEPT ![c] = "kernel"]
    /\ UNCHANGED <<stage, tables, ready, keys, main, disturbed>>

\* A non-secure interrupt gives the core back to the kernel; the next call
\* goes on where it stopped.
Preempt(c) ==
    /\ at[c] = "see"
    /\ at' = [at EXCEPT ![c] = "kernel"]
    /\ disturbed' = disturbed \cup (IF stage[c]["see"] = "started" THEN {} ELSE {c})
    /\ UNCHANGED <<stage, tables, ready, keys, main>>

-----------------------------------------------------------------------------
Primary == (\E r \in Regimes : MapUnit(r) \/ EnableMmu(r) \/ Publish(r))
           \/ InitCrypto \/ EnterKernel \/ CEntry

Main == CpuOn \/ MainProceeds

Secondary(c) == \/ SetupMmuSecondary(c) \/ Park(c) \/ SeccoreSetupMmu(c)
                \/ SeeosSecondaryCoreInit(c)

Next == \/ Primary \/ Main \/ TakeWake
        \/ \E c \in Secondaries : Secondary(c)
        \/ \E c \in Cores : SeeosCall(c) \/ Serve(c) \/ Preempt(c)

\* A core goes on with what it executes, and takes a WAKE; the scheduler of the
\* kernel runs the main thread again and again.
Fairness ==
    /\ WF_vars(Primary) /\ SF_vars(Main) /\ WF_vars(TakeWake)
    /\ \A c \in Secondaries : WF_vars(Secondary(c))
    /\ \A c \in Cores : WF_vars(Serve(c))

Spec == Init /\ [][Next]_vars /\ Fairness

-----------------------------------------------------------------------------
(* Properties.                                                              *)

\* The start of a regime that no interrupt has stopped.
Orderly(r) == r = "see" => disturbed = {}

\* What the main thread has taken from a regime's map.
Removed(r) == IF r = "kernel" /\ main = "done" THEN Range(IdentityMap) ELSE {}

Places    == {"l1_table", "user_l1", "kernel_l1", "seeos_l1_table"} \X Nat
AnyTables == {"l1_table", "user_l1", "kernel_l1", "seeos_l1_table"} \X {"l2", "l3"} \X Nat

\* The variables have their types, and no allocator of tables runs out, as long
\* as no interrupt stops the start of SEEOS: none of their callers checks for
\* the null pointer of an empty pool.
TypeOK ==
    /\ at \in [Cores -> Regimes]
    /\ stage \in [Cores -> [Regimes -> Stages]]
    /\ \A r \in Regimes : /\ cursor[r] \in 0..Len(Map[r])
                          /\ mapped[r] \subseteq Places
                          /\ allocated[r] \subseteq AnyTables
                          /\ Orderly(r) => Cardinality(allocated[r]) <= PoolSize[r]
    /\ ready \subseteq Regimes
    /\ keys \in BOOLEAN
    /\ main \in MainPcs
    /\ disturbed \subseteq Cores

\* No core translates addresses through tables of which core 0 has still to
\* write a part, or has taken one that the core needs: the three flags, two
\* calls and the order of core 0's own code see to that, as long as no
\* interrupt stops the start of SEEOS.
TablesBeforeUse ==
    \A c \in Cores, r \in Regimes :
        stage[c][r] # "entry" /\ Orderly(r)
            => Range(Map[r]) \ Removed(r) \subseteq mapped[r]

\* No core answers a call before core 0 has computed the keys, with which
\* seeos_servicer() wraps and unwraps, under the same condition.
KeysBeforeService ==
    disturbed = {} /\ (\E c \in Cores : stage[c]["see"] = "started") => keys

\* Core 0 comes to the CPU_ON of its main thread, and if core 1 accepts it, it
\* comes up and the thread goes on, wherever core 1 was when it was called:
\* the two never wait for each other, although the flag of the kernel is set
\* after core 0 has left EL3, whose flag core 1 needs to take the WAKE, and the
\* identity map that core 1 comes up through is removed in the end.  Nothing is
\* claimed of a CPU_ON that is refused, nor of the other cores.
AcceptedCoreStarts ==
    /\ <>(main \in {"woken", "refused"})
    /\ main = "woken" ~> stage[1]["kernel"] = "started" /\ main = "done"

=============================================================================
