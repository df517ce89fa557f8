--------------------------- MODULE CpuPowerProofs ---------------------------
(***************************************************************************)
(* Theorems about CpuPower, for every number of cores and every set of     *)
(* PSCI calls that kernels make.                                           *)
(***************************************************************************)
EXTENDS CpuPower, TLAPS

USE DEF Step, Returns, cpus, gic, kernel

-----------------------------------------------------------------------------
(* Types.                                                                   *)

LEMMA CoreFacts == 0 \in Cores /\ 1 \in Cores /\ Secondaries \subseteq Cores
BY NumCoresAssumption DEF Cores, Secondaries

LEMMA PcFacts == FiqOpen \subseteq Pcs
BY DEF FiqOpen, Pcs, Entered, Parking, Offing

\* The initial state has the types.
LEMMA TypeInit == Init => TypeOK
<1> SUFFICES ASSUME Init PROVE TypeOK
  OBVIOUS
<1> QED
  BY CoreFacts
  DEF Init, TypeOK, PowerStates, Pcs, Entered, Parking, FiqOpen

\* Every step keeps them.
LEMMA TypeStep == TypeOK /\ [Next]_vars => TypeOK'
<1> SUFFICES ASSUME TypeOK, [Next]_vars PROVE TypeOK'
  OBVIOUS
<1> USE CoreFacts, PcFacts
<1> USE DEF TypeOK, PowerStates
<1>1. CASE MainCall
  <2>1. pc' \in [Cores -> Pcs]
    BY <1>1 DEF MainCall, Pcs, InSmc
  <2>2. resume' \in [Cores -> FiqOpen]
    BY <1>1 DEF MainCall, FiqOpen, Entered
  <2>3. target' \in [Cores -> Cores]
    BY <1>1 DEF MainCall
  <2> QED
    BY <1>1, <2>1, <2>2, <2>3 DEF MainCall
<1>2. CASE MainProceeds
  <2>1. pc' \in [Cores -> Pcs]
    BY <1>2 DEF MainProceeds, Pcs, Entered
  <2> QED
    BY <1>2, <2>1 DEF MainProceeds
<1>11. CASE \E c \in Cores, d \in Secondaries : Call(c, d)
  <2> PICK c \in Cores, d \in Secondaries : Call(c, d)
    BY <1>11
  <2>1. pc' \in [Cores -> Pcs]
    BY DEF Call, Pcs, InSmc
  <2>2. resume' \in [Cores -> FiqOpen]
    BY DEF Call, FiqOpen, Entered
  <2>3. target' \in [Cores -> Cores]
    BY DEF Call
  <2> QED
    BY <2>1, <2>2, <2>3 DEF Call
<1>3. CASE \E c \in Cores : Kernel(c)
  BY <1>3 DEF Kernel, SetupMmu, SecEntry, Pcs, Entered
<1>4. CASE \E c \in Cores : Smc(c)
  <2> PICK c \in Cores : Smc(c)
    BY <1>4
  <2>1. CASE CheckOn(c) \/ CheckBooting(c) \/ CheckOff(c)
    <3>1. pc' \in [Cores -> Pcs]
      BY <2>1 DEF CheckOn, CheckBooting, CheckOff, Pcs, InSmc
    <3> QED
      BY <2>1, <3>1 DEF CheckOn, CheckBooting, CheckOff
  <2>2. CASE SetEntry(c) \/ SetBooting(c)
    BY <2>2 DEF SetEntry, SetBooting, Pcs, InSmc
  <2>3. CASE SendWake(c) \/ SendSleep(c)
    BY <2>3 DEF SendWake, SendSleep
  <2> QED
    BY <2>1, <2>2, <2>3 DEF Smc
<1>5. CASE \E c \in Cores : Park(c)
  <2> PICK c \in Cores : Park(c)
    BY <1>5
  <2>1. CASE MarkOn(c) \/ ParkOff(c)
    BY <2>1 DEF MarkOn, ParkOff, Pcs, Parking
  <2>2. CASE UnmaskFiq(c)
    BY <2>2 DEF UnmaskFiq, Pcs, Parking
  <2>3. CASE ParkAcquire(c) \/ ParkRelease(c)
    BY <2>3 DEF ParkAcquire, ParkRelease, Pcs, Parking
  <2> QED
    BY <2>1, <2>2, <2>3 DEF Park
<1>6. CASE \E c \in Cores : Wake(c)
  <2> PICK c \in Cores : Wake(c)
    BY <1>6
  <2>1. CASE WakeEntry(c)
    BY <2>1 DEF WakeEntry, Pcs
  <2>2. CASE WakeNothing(c)
    BY <2>2 DEF WakeNothing
  <2>3. CASE WakeOn(c)
    BY <2>3 DEF WakeOn, Pcs, Entered
  <2> QED
    BY <2>1, <2>2, <2>3 DEF Wake
<1>7. CASE \E c \in Cores : Off(c)
  <2> PICK c \in Cores : Off(c)
    BY <1>7
  <2>1. CASE OffAcquire(c) \/ OffRelease(c)
    BY <2>1 DEF OffAcquire, OffRelease, Pcs, Offing
  <2>2. CASE OffState(c) \/ OffEntry(c)
    BY <2>2 DEF OffState, OffEntry, Pcs, Offing
  <2> QED
    BY <2>1, <2>2 DEF Off
<1>8. CASE \E c \in Cores : FiqWake(c)
  BY <1>8 DEF FiqWake, Pcs
<1>9. CASE \E c \in Cores : FiqSleep(c)
  BY <1>9 DEF FiqSleep, Pcs, Offing
<1>10. CASE UNCHANGED vars
  BY <1>10 DEF vars
<1> QED
  BY <1>1, <1>2, <1>3, <1>4, <1>5, <1>6, <1>7, <1>8, <1>9, <1>10, <1>11 DEF Next, Main

\* The type invariant holds in every configuration (no PSCI call leaves
\* cpus[] or a core's program position undefined).
THEOREM TypeCorrect == Spec => []TypeOK
BY TypeInit, TypeStep, PTL DEF Spec

-----------------------------------------------------------------------------
(* A core that is OFF is halted, or will be.                                *)

LEMMA OffStep == TypeOK /\ OffIsHalted /\ [Next]_vars => OffIsHalted'
<1> SUFFICES ASSUME TypeOK, OffIsHalted, [Next]_vars, NEW e \in Cores, state'[e] = "OFF"
             PROVE  (Where(e) \in {"reset", "halted"} \cup Offing)'
  BY DEF OffIsHalted
<1> USE CoreFacts
<1> USE DEF TypeOK, OffIsHalted, Where, Offing
<1>1. CASE Main
  BY <1>1 DEF Main, MainCall, MainProceeds
<1>2. CASE \E c \in Cores, d \in Secondaries : Call(c, d)
  BY <1>2 DEF Call
<1>3. CASE \E c \in Cores : Kernel(c)
  BY <1>3 DEF Kernel, SetupMmu, SecEntry
<1>4. CASE \E c \in Cores : Smc(c)
  <2> PICK c \in Cores : Smc(c)
    BY <1>4
  <2>1. CASE CheckOn(c) \/ CheckBooting(c) \/ CheckOff(c)
    BY <2>1 DEF CheckOn, CheckBooting, CheckOff
  <2>2. CASE SetEntry(c) \/ SetBooting(c)
    BY <2>2 DEF SetEntry, SetBooting
  <2>3. CASE SendWake(c) \/ SendSleep(c)
    BY <2>3 DEF SendWake, SendSleep
  <2> QED
    BY <2>1, <2>2, <2>3 DEF Smc
<1>5. CASE \E c \in Cores : Park(c)
  BY <1>5 DEF Park, MarkOn, UnmaskFiq, ParkAcquire, ParkRelease, ParkOff
<1>6. CASE \E c \in Cores : Wake(c)
  BY <1>6 DEF Wake, WakeEntry, WakeNothing, WakeOn, FiqOpen, Entered
<1>7. CASE \E c \in Cores : Off(c)
  BY <1>7 DEF Off, OffAcquire, OffRelease, OffState, OffEntry
<1>8. CASE \E c \in Cores : FiqWake(c)
  BY <1>8 DEF FiqWake, FiqOpen, Entered
<1>9. CASE \E c \in Cores : FiqSleep(c)
  BY <1>9 DEF FiqSleep
<1>10. CASE UNCHANGED vars
  BY <1>10 DEF vars
<1> QED
  BY <1>1, <1>2, <1>3, <1>4, <1>5, <1>6, <1>7, <1>8, <1>9, <1>10 DEF Next

\* A core that cpus[] reports as OFF executes neither the kernel nor an SMC,
\* whatever calls race for it.
THEOREM OffIsHaltedAlways == Spec => []OffIsHalted
<1>1. Init => OffIsHalted
  BY DEF Init, OffIsHalted, Where
<1> QED
  BY <1>1, TypeCorrect, OffStep, PTL DEF Spec

-----------------------------------------------------------------------------
(* The console lock of the monitor.                                         *)

\* An SMC returns to the kernel that made it, never into uart_puts().
SmcReturns == \A c \in Cores : pc[c] \in InSmc => resume[c] \in {"wait", "running"}

LEMMA SmcStep == TypeOK /\ SmcReturns /\ [Next]_vars => SmcReturns'
<1> SUFFICES ASSUME TypeOK, SmcReturns, [Next]_vars PROVE SmcReturns'
  OBVIOUS
<1> USE CoreFacts
<1> USE DEF TypeOK, SmcReturns
<1>1. CASE Main
  BY <1>1 DEF Main, MainCall, MainProceeds, InSmc
<1>2. CASE \E c \in Cores, d \in Secondaries : Call(c, d)
  BY <1>2 DEF Call, InSmc
<1>3. CASE \E c \in Cores : Kernel(c)
  BY <1>3 DEF Kernel, SetupMmu, SecEntry, InSmc
<1>4. CASE \E c \in Cores : Smc(c)
  <2> PICK c \in Cores : Smc(c)
    BY <1>4
  <2>1. CASE CheckOn(c) \/ CheckBooting(c) \/ CheckOff(c)
    BY <2>1 DEF CheckOn, CheckBooting, CheckOff, InSmc
  <2>2. CASE SetEntry(c) \/ SetBooting(c)
    BY <2>2 DEF SetEntry, SetBooting, InSmc
  <2>3. CASE SendWake(c) \/ SendSleep(c)
    BY <2>3 DEF SendWake, SendSleep, InSmc
  <2> QED
    BY <2>1, <2>2, <2>3 DEF Smc
<1>5. CASE \E c \in Cores : Park(c)
  BY <1>5 DEF Park, MarkOn, UnmaskFiq, ParkAcquire, ParkRelease, ParkOff, InSmc
<1>6. CASE \E c \in Cores : Wake(c)
  BY <1>6 DEF Wake, WakeEntry, WakeNothing, WakeOn, InSmc, FiqOpen, Entered
<1>7. CASE \E c \in Cores : Off(c)
  BY <1>7 DEF Off, OffAcquire, OffRelease, OffState, OffEntry, InSmc
<1>8. CASE \E c \in Cores : FiqWake(c)
  BY <1>8 DEF FiqWake, InSmc, FiqOpen, Entered
<1>9. CASE \E c \in Cores : FiqSleep(c)
  BY <1>9 DEF FiqSleep, InSmc
<1>10. CASE UNCHANGED vars
  BY <1>10 DEF vars
<1> QED
  BY <1>1, <1>2, <1>3, <1>4, <1>5, <1>6, <1>7, <1>8, <1>9, <1>10 DEF Next

LEMMA UartStep == TypeOK /\ SmcReturns /\ UartExclusive /\ [Next]_vars => UartExclusive'
<1> SUFFICES ASSUME TypeOK, SmcReturns, UartExclusive, [Next]_vars PROVE UartExclusive'
  OBVIOUS
<1> USE CoreFacts
<1> USE DEF TypeOK, UartExclusive, Where
<1>1. CASE Main
  BY <1>1 DEF Main, MainCall, MainProceeds
<1>2. CASE \E c \in Cores, d \in Secondaries : Call(c, d)
  BY <1>2 DEF Call
<1>3. CASE \E c \in Cores : Kernel(c)
  BY <1>3 DEF Kernel, SetupMmu, SecEntry
<1>4. CASE \E c \in Cores : Smc(c)
  <2> PICK c \in Cores : Smc(c)
    BY <1>4
  <2>1. CASE CheckOn(c) \/ CheckBooting(c) \/ CheckOff(c)
    BY <2>1 DEF CheckOn, CheckBooting, CheckOff, SmcReturns, InSmc
  <2>2. CASE SetEntry(c) \/ SetBooting(c)
    BY <2>2 DEF SetEntry, SetBooting
  <2>3. CASE SendWake(c) \/ SendSleep(c)
    BY <2>3 DEF SendWake, SendSleep, SmcReturns, InSmc
  <2> QED
    BY <2>1, <2>2, <2>3 DEF Smc
<1>5. CASE \E c \in Cores : Park(c)
  BY <1>5 DEF Park, MarkOn, UnmaskFiq, ParkAcquire, ParkRelease, ParkOff
<1>6. CASE \E c \in Cores : Wake(c)
  BY <1>6 DEF Wake, WakeEntry, WakeNothing, WakeOn, FiqOpen, Entered
<1>7. CASE \E c \in Cores : Off(c)
  BY <1>7 DEF Off, OffAcquire, OffRelease, OffState, OffEntry
<1>8. CASE \E c \in Cores : FiqWake(c)
  BY <1>8 DEF FiqWake, FiqOpen, Entered
<1>9. CASE \E c \in Cores : FiqSleep(c)
  BY <1>9 DEF FiqSleep
<1>10. CASE UNCHANGED vars
  BY <1>10 DEF vars
<1> QED
  BY <1>1, <1>2, <1>3, <1>4, <1>5, <1>6, <1>7, <1>8, <1>9, <1>10 DEF Next

\* No two cores are inside uart_puts() at once.
THEOREM UartExclusiveAlways == Spec => []UartExclusive
<1>1. Init => UartExclusive /\ SmcReturns
  BY DEF Init, UartExclusive, Where, SmcReturns
<1> QED
  BY <1>1, TypeCorrect, SmcStep, UartStep, PTL DEF Spec

-----------------------------------------------------------------------------
(* A core that is BOOTING has a WAKE coming.                                *)

LEMMA BootingStep == TypeOK /\ BootingIsWoken /\ [Next]_vars => BootingIsWoken'
<1> SUFFICES ASSUME TypeOK, BootingIsWoken, [Next]_vars PROVE BootingIsWoken'
  OBVIOUS
<1> USE CoreFacts
<1> USE DEF TypeOK, BootingIsWoken, WakesSoon
<1>1. CASE Main
  BY <1>1 DEF Main, MainCall, MainProceeds
<1>2. CASE \E c \in Cores, d \in Secondaries : Call(c, d)
  BY <1>2 DEF Call
<1>3. CASE \E c \in Cores : Kernel(c)
  BY <1>3 DEF Kernel, SetupMmu, SecEntry
<1>4. CASE \E c \in Cores : Smc(c)
  <2> PICK c \in Cores : Smc(c)
    BY <1>4
  <2>1. CASE CheckOn(c) \/ CheckBooting(c) \/ CheckOff(c)
    BY <2>1 DEF CheckOn, CheckBooting, CheckOff, FiqOpen
  <2>2. CASE SetEntry(c) \/ SetBooting(c)
    BY <2>2 DEF SetEntry, SetBooting
  <2>3. CASE SendWake(c) \/ SendSleep(c)
    BY <2>3 DEF SendWake, SendSleep
  <2> QED
    BY <2>1, <2>2, <2>3 DEF Smc
<1>5. CASE \E c \in Cores : Park(c)
  BY <1>5 DEF Park, MarkOn, UnmaskFiq, ParkAcquire, ParkRelease, ParkOff
<1>6. CASE \E c \in Cores : Wake(c)
  BY <1>6 DEF Wake, WakeEntry, WakeNothing, WakeOn
<1>7. CASE \E c \in Cores : Off(c)
  BY <1>7 DEF Off, OffAcquire, OffRelease, OffState, OffEntry
<1>8. CASE \E c \in Cores : FiqWake(c)
  BY <1>8 DEF FiqWake, FiqOpen, Entered
<1>9. CASE \E c \in Cores : FiqSleep(c)
  BY <1>9 DEF FiqSleep, FiqOpen, Entered
<1>10. CASE UNCHANGED vars
  BY <1>10 DEF vars
<1> QED
  BY <1>1, <1>2, <1>3, <1>4, <1>5, <1>6, <1>7, <1>8, <1>9, <1>10 DEF Next

\* psci_fn_cpu_on() never leaves a core BOOTING without a WAKE to come, unless
\* el3_cpu_off() has erased its entry point.
THEOREM BootingIsWokenAlways == Spec => []BootingIsWoken
<1>1. Init => BootingIsWoken
  BY DEF Init, BootingIsWoken
<1> QED
  BY <1>1, TypeCorrect, BootingStep, PTL DEF Spec

=============================================================================
