----------------------------- MODULE BootProofs -----------------------------
(***************************************************************************)
(* Proofs about Boot for every number of cores and every size of the       *)
(* kernel's image below the buffer that it shares with SEEOS.              *)
(***************************************************************************)
EXTENDS Boot, FiniteSetTheorems, TLAPS

\* Types, without the number of tables.
TypeInv ==
    /\ at \in [Cores -> Regimes]
    /\ stage \in [Cores -> [Regimes -> Stages]]
    /\ cursor \in [Regimes -> Nat]
    /\ mapped \in [Regimes -> SUBSET Places]
    /\ ready \subseteq Regimes
    /\ keys \in BOOLEAN
    /\ main \in MainPcs
    /\ disturbed \subseteq Cores

\* Core 0 leaves no unit out, and removes the identity map only ...
MappedInv ==
    \A r \in Regimes :
        /\ cursor[r] <= Len(Map[r])
        /\ Orderly(r) => {Map[r][i] : i \in 1..cursor[r]} \ Removed(r) \subseteq mapped[r]

\* ... and turns its own MMU on after the last one.
PrimaryInv ==
    \A r \in Regimes : stage[0][r] # "entry" => cursor[r] = Len(Map[r])

\* The other cores turn theirs on after the flag.
SecondaryInv ==
    \A r \in Regimes :
        /\ r \in ready => stage[0][r] = "started"
        /\ Orderly(r) => \A c \in Secondaries : stage[c][r] # "entry" => r \in ready

\* Core 0 starts to serve with the keys.
KeysInv == disturbed = {} /\ stage[0]["see"] \in {"keyed", "started"} => keys

IInv == TypeInv /\ MappedInv /\ PrimaryInv /\ SecondaryInv /\ KeysInv

-----------------------------------------------------------------------------
(* The lists of units.                                                      *)

\* The units that any of the programs maps, and the roots of each program.
Units == {GIC, UART, BLOCK} \cup (RAM..(SMEM + 1))
Roots(r) == CASE r = "el3" -> {"l1_table"}
              [] r = "kernel" -> {"user_l1", "kernel_l1"}
              [] r = "see" -> {"seeos_l1_table"}

\* A region is a sequence of the places that it goes through.
LEMMA RegionPlaces ==
    ASSUME NEW S, NEW root, NEW first \in Nat, NEW last \in Nat, first <= last,
           \A u \in first..last : <<root, u>> \in S
    PROVE  Region(root, first, last) \in Seq(S)
<1> DEFINE n == last - first + 1
<1>1. n \in Nat
  OBVIOUS
<1>2. \A i \in 1..n : first + i - 1 \in first..last
  OBVIOUS
<1>3. Region(root, first, last) \in [1..n -> S]
  BY <1>2 DEF Region
<1> QED
  BY <1>1, <1>3

\* A region that stays within the units.
Span(first, last) ==
    first \in Nat /\ last \in Nat /\ first <= last /\ first..last \subseteq Units

LEMMA SpanRegion ==
    ASSUME NEW S, NEW root, {root} \X Units \subseteq S,
           NEW first, NEW last, Span(first, last)
    PROVE  Region(root, first, last) \in Seq(S)
<1>1. \A u \in first..last : <<root, u>> \in S
  BY DEF Span
<1> QED
  BY <1>1, RegionPlaces DEF Span

\* All regions of the three lists do.
LEMMA Spans ==
    /\ Span(RAM, RAM + 5) /\ Span(RAM, RAM + 1) /\ Span(SMEM, SMEM)
    /\ Span(GIC, GIC) /\ Span(UART, UART)
    /\ Span(RAM, StackEnd)
<1> USE ImageAssumption DEF Span, Units, RAM, SMEM, GIC, UART
<1>1. Span(RAM, RAM + 5) /\ Span(RAM, RAM + 1) /\ Span(SMEM, SMEM)
  OBVIOUS
<1>2. Span(GIC, GIC)
  OBVIOUS
<1>3. Span(UART, UART)
  OBVIOUS
<1>4. Span(RAM, StackEnd)
  OBVIOUS
<1> QED
  BY <1>1, <1>2, <1>3, <1>4

\* Each map stays below its roots and within the units.
LEMMA MapPlaces == \A r \in Regimes : Map[r] \in Seq(Roots(r) \X Units)
<1>1. El3Map \in Seq(Roots("el3") \X Units)
  <2> DEFINE S == Roots("el3") \X Units
  <2>1. {"l1_table"} \X Units \subseteq S
    BY DEF Roots
  <2> HIDE DEF S
  <2>2. /\ Region("l1_table", RAM, RAM + 5) \in Seq(S)
        /\ Region("l1_table", GIC, GIC) \in Seq(S) /\ Region("l1_table", UART, UART) \in Seq(S)
    BY <2>1, Spans, SpanRegion
  <2>3. El3Map \in Seq(S)
    BY <2>2 DEF El3Map
  <2> QED
    BY <2>3 DEF S
<1>2. KernelMap \in Seq(Roots("kernel") \X Units)
  <2> DEFINE S == Roots("kernel") \X Units
  <2>1. {"user_l1"} \X Units \subseteq S /\ {"kernel_l1"} \X Units \subseteq S
    BY DEF Roots
  <2> HIDE DEF S
  <2>2. /\ Region("user_l1", RAM, StackEnd) \in Seq(S)
        /\ Region("user_l1", SMEM, SMEM) \in Seq(S)
    BY <2>1, Spans, SpanRegion
  <2>3. /\ Region("kernel_l1", RAM, StackEnd) \in Seq(S)
        /\ Region("kernel_l1", GIC, GIC) \in Seq(S) /\ Region("kernel_l1", UART, UART) \in Seq(S)
    BY <2>1, Spans, SpanRegion
  <2>4. KernelMap \in Seq(S)
    BY <2>2, <2>3 DEF KernelMap, IdentityMap
  <2> QED
    BY <2>4 DEF S
<1>3. SeeMap \in Seq(Roots("see") \X Units)
  <2> DEFINE S == Roots("see") \X Units
  <2>1. {"seeos_l1_table"} \X Units \subseteq S
    BY DEF Roots
  <2> HIDE DEF S
  <2>2. /\ Region("seeos_l1_table", RAM, RAM + 1) \in Seq(S)
        /\ Region("seeos_l1_table", SMEM, SMEM) \in Seq(S)
        /\ Region("seeos_l1_table", GIC, GIC) \in Seq(S)
        /\ Region("seeos_l1_table", UART, UART) \in Seq(S)
    BY <2>1, Spans, SpanRegion
  <2>3. SeeMap \in Seq(S)
    BY <2>2 DEF SeeMap
  <2> QED
    BY <2>3 DEF S
<1> QED
  BY <1>1, <1>2, <1>3 DEF Map, Regimes

\* What the rest needs to know of the maps.
LEMMA MapFacts ==
    \A r \in Regimes :
        /\ Len(Map[r]) \in Nat
        /\ \A i \in 1..Len(Map[r]) : Map[r][i] \in Places
        /\ Range(Map[r]) = {Map[r][i] : i \in 1..Len(Map[r])}
<1> SUFFICES ASSUME NEW r \in Regimes, NEW m, m = Map[r]
             PROVE  /\ Len(m) \in Nat
                    /\ \A i \in 1..Len(m) : m[i] \in Places
                    /\ Range(m) = {m[i] : i \in 1..Len(m)}
  OBVIOUS
<1>1. m \in Seq(Places)
  <2>1. m \in Seq(Roots(r) \X Units)
    BY MapPlaces
  <2>2. Roots(r) \X Units \subseteq Places
    <3>1. Roots(r) \subseteq {"l1_table", "user_l1", "kernel_l1", "seeos_l1_table"}
      BY DEF Roots, Regimes
    <3>2. Units \subseteq Nat
      BY DEF Units, GIC, UART, BLOCK, RAM, SMEM
    <3> QED
      BY <3>1, <3>2 DEF Places
  <2> QED
    BY <2>1, <2>2
<1>2. Len(m) \in Nat /\ DOMAIN m = 1..Len(m) /\ \A i \in 1..Len(m) : m[i] \in Places
  BY <1>1
<1> QED
  BY <1>2 DEF Range

\* Core 0 is one of the cores.
LEMMA CoreZero == 0 \in Cores /\ Secondaries \subseteq Cores /\ 0 \notin Secondaries
BY NumCoresAssumption DEF Cores, Secondaries

\* And so is core 1.
LEMMA CoreOne == 1 \in Cores
BY NumCoresAssumption DEF Cores

-----------------------------------------------------------------------------
(* The invariant.                                                           *)

LEMMA Initial == Init => IInv
<1> SUFFICES ASSUME Init PROVE IInv
  OBVIOUS
<1> USE CoreZero, MapFacts DEF Init
<1>1. TypeInv
  BY DEF TypeInv, Regimes, Stages, MainPcs
<1>2. MappedInv
  <2> SUFFICES ASSUME NEW r \in Regimes
               PROVE  cursor[r] <= Len(Map[r]) /\ {Map[r][i] : i \in 1..cursor[r]} = {}
    BY DEF MappedInv
  <2>1. cursor[r] = 0
    OBVIOUS
  <2>2. 1..0 = {}
    OBVIOUS
  <2> QED
    BY <2>1, <2>2
<1>3. PrimaryInv /\ SecondaryInv /\ KeysInv
  BY DEF PrimaryInv, SecondaryInv, KeysInv, Regimes
<1> QED
  BY <1>1, <1>2, <1>3 DEF IInv

\* A step to another stage, which leaves the tables alone, keeps the types.
LEMMA StageType ==
    ASSUME TypeInv, NEW c \in Cores, NEW r \in Regimes, NEW to \in Stages,
           NEW from, Stage(c, r, from, to)
    PROVE  /\ stage' \in [Cores -> [Regimes -> Stages]]
           /\ stage'[c][r] = to
           /\ \A d \in Cores, q \in Regimes : d # c \/ q # r => stage'[d][q] = stage[d][q]
BY DEF TypeInv, Stage

\* MappedInv speaks of the tables only.
LEMMA TablesKept ==
    ASSUME MappedInv, UNCHANGED tables, disturbed \subseteq disturbed',
           main' = "done" <=> main = "done"
    PROVE  MappedInv'
<1> SUFFICES ASSUME NEW r \in Regimes
             PROVE  /\ cursor'[r] <= Len(Map[r])
                    /\ Orderly(r)' => {Map[r][i] : i \in 1..cursor'[r]} \ Removed(r)'
                                         \subseteq mapped'[r]
  BY DEF MappedInv
<1>1. cursor' = cursor /\ mapped' = mapped
  BY DEF tables
<1>2. Orderly(r)' => Orderly(r)
  BY DEF Orderly
<1>3. Removed(r)' = Removed(r)
  BY DEF Removed
<1> QED
  BY <1>1, <1>2, <1>3 DEF MappedInv

\* The next unit is the next one of the map.
LEMMA MapUnitKeeps ==
    ASSUME IInv, NEW r \in Regimes, MapUnit(r)
    PROVE  IInv'
<1> USE CoreZero DEF IInv
<1> DEFINE k == cursor[r] + 1
<1>1. /\ cursor[r] \in Nat /\ k \in 1..Len(Map[r]) /\ cursor'[r] = k
      /\ \A q \in Regimes \ {r} : cursor'[q] = cursor[q] /\ mapped'[q] = mapped[q]
      /\ UNCHANGED <<at, stage, ready, keys, main, disturbed>>
  BY MapFacts DEF MapUnit, TypeInv
<1>2. Map[r][k] \in Places
  BY <1>1, MapFacts
<1>3. TypeInv'
  <2>1. cursor' \in [Regimes -> Nat]
    BY <1>1 DEF MapUnit, TypeInv
  <2>2. mapped' \in [Regimes -> SUBSET Places]
    BY <1>1, <1>2 DEF MapUnit, TypeInv
  <2> QED
    BY <1>1, <2>1, <2>2 DEF TypeInv
<1>4. MappedInv'
  <2>1. cursor'[r] <= Len(Map[r])
    BY <1>1, MapFacts
  <2>2. Orderly(r) => mapped'[r] = mapped[r] \cup {Map[r][k]}
    BY <1>1 DEF MapUnit, TypeInv, Orderly
  <2>3. 1..k = (1..cursor[r]) \cup {k}
    BY <1>1
  <2>4. Orderly(r) => {Map[r][i] : i \in 1..cursor'[r]} \ Removed(r) \subseteq mapped'[r]
    <3> SUFFICES ASSUME Orderly(r)
                 PROVE  {Map[r][i] : i \in 1..k} \ Removed(r) \subseteq mapped'[r]
      BY <1>1
    <3>1. {Map[r][i] : i \in 1..cursor[r]} \ Removed(r) \subseteq mapped[r]
      BY DEF MappedInv
    <3> HIDE DEF k
    <3> QED
      BY <2>2, <2>3, <3>1
  <2> QED
    BY <1>1, <2>1, <2>4 DEF MappedInv, Orderly, Removed
<1>5. PrimaryInv' /\ SecondaryInv' /\ KeysInv'
  BY <1>1 DEF MapUnit, PrimaryInv, SecondaryInv, KeysInv, Orderly
<1> QED
  BY <1>3, <1>4, <1>5

\* Another core's MMU, after the flag unless the start was stopped.
LEMMA EnableSecondaryKeeps ==
    ASSUME IInv, NEW c \in Secondaries, NEW r \in Regimes,
           EnableSecondary(c, r), r \in ready \/ (r = "see" /\ c \in disturbed)
    PROVE  IInv'
<1> USE CoreZero DEF IInv
<1>1. /\ Stage(c, r, "entry", IF r = "el3" THEN "enabled" ELSE "started")
      /\ UNCHANGED <<at, tables, ready, keys, main, disturbed>>
  BY DEF EnableSecondary
<1>2. stage' \in [Cores -> [Regimes -> Stages]]
      /\ \A d \in Cores, q \in Regimes : d # c \/ q # r => stage'[d][q] = stage[d][q]
  BY <1>1, StageType DEF Stages
<1>3. TypeInv' /\ MappedInv'
  BY <1>1, <1>2, TablesKept DEF TypeInv, tables
<1>4. \A q \in Regimes : stage'[0][q] = stage[0][q]
  BY <1>2
<1>5. PrimaryInv' /\ KeysInv'
  BY <1>1, <1>4 DEF PrimaryInv, KeysInv, tables, Regimes
<1>6. SecondaryInv'
  BY <1>1, <1>2, <1>4 DEF SecondaryInv, Orderly
<1> QED
  BY <1>3, <1>5, <1>6

\* A core that has had its MMU on parks.
LEMMA ParkKeeps ==
    ASSUME IInv, NEW c \in Secondaries, Park(c)
    PROVE  IInv'
<1> USE CoreZero DEF IInv
<1>1. /\ Stage(c, "el3", "enabled", "started")
      /\ UNCHANGED <<at, tables, ready, keys, main, disturbed>>
  BY DEF Park
<1>2. /\ stage' \in [Cores -> [Regimes -> Stages]]
      /\ \A d \in Cores, q \in Regimes : d # c \/ q # "el3" => stage'[d][q] = stage[d][q]
  BY <1>1, StageType DEF Stages, Regimes
<1>3. TypeInv' /\ MappedInv'
  BY <1>1, <1>2, TablesKept DEF TypeInv, tables
<1>4. \A q \in Regimes : stage'[0][q] = stage[0][q]
  BY <1>2
<1>5. PrimaryInv' /\ KeysInv'
  BY <1>1, <1>4 DEF PrimaryInv, KeysInv, tables, Regimes
<1>6. SecondaryInv'
  BY <1>1, <1>2, <1>4 DEF SecondaryInv, Orderly, Stage
<1> QED
  BY <1>3, <1>5, <1>6

\* The steps of core 0 that leave the tables alone.
LEMMA PrimaryStageKeeps ==
    ASSUME IInv, NEW r \in Regimes, EnableMmu(r) \/ Publish(r) \/ (r = "see" /\ InitCrypto)
    PROVE  IInv'
<1> USE CoreZero DEF IInv
<1>1. CASE EnableMmu(r)
  <2>1. Stage(0, r, "entry", "enabled") /\ cursor[r] = Len(Map[r])
        /\ UNCHANGED <<at, tables, ready, keys, main, disturbed>>
    BY <1>1 DEF EnableMmu
  <2>2. stage' \in [Cores -> [Regimes -> Stages]] /\ stage'[0][r] = "enabled"
        /\ \A d \in Cores, q \in Regimes : d # 0 \/ q # r => stage'[d][q] = stage[d][q]
    BY <2>1, StageType DEF Stages
  <2>3. TypeInv' /\ MappedInv'
    BY <2>1, <2>2, TablesKept DEF TypeInv, tables
  <2>4. PrimaryInv'
    BY <2>1, <2>2 DEF PrimaryInv, tables
  <2>5. SecondaryInv'
    BY <2>1, <2>2 DEF SecondaryInv, Orderly, Stage
  <2>6. KeysInv'
    BY <2>1, <2>2 DEF KeysInv, Regimes
  <2> QED
    BY <2>3, <2>4, <2>5, <2>6
<1>2. CASE Publish(r)
  <2>1. stage[0][r] # "entry" /\ (r = "see" => stage[0][r] = "keyed") /\ ready' = ready \cup {r}
        /\ UNCHANGED <<at, tables, keys, main, disturbed>>
    BY <1>2 DEF Publish, Stage
  <2>2. stage' \in [Cores -> [Regimes -> Stages]] /\ stage'[0][r] = "started"
        /\ \A d \in Cores, q \in Regimes : d # 0 \/ q # r => stage'[d][q] = stage[d][q]
    BY <1>2, StageType DEF Publish, Stages
  <2>3. TypeInv' /\ MappedInv'
    BY <2>1, <2>2, TablesKept DEF TypeInv, tables
  <2>4. PrimaryInv'
    BY <2>1, <2>2 DEF PrimaryInv, tables
  <2>5. SecondaryInv'
    BY <2>1, <2>2 DEF SecondaryInv, Orderly
  <2>6. KeysInv'
    BY <2>1, <2>2 DEF KeysInv, Regimes
  <2> QED
    BY <2>3, <2>4, <2>5, <2>6
<1>3. CASE r = "see" /\ InitCrypto
  <2>1. Stage(0, "see", "enabled", "keyed") /\ keys' \in BOOLEAN
        /\ UNCHANGED <<at, tables, ready, main, disturbed>> /\ (disturbed = {} => keys' = TRUE)
    BY <1>3 DEF InitCrypto
  <2>2. stage' \in [Cores -> [Regimes -> Stages]] /\ stage'[0]["see"] = "keyed"
        /\ \A d \in Cores, q \in Regimes : d # 0 \/ q # "see" => stage'[d][q] = stage[d][q]
    BY <1>3, <2>1, StageType DEF Stages
  <2>3. TypeInv' /\ MappedInv'
    BY <2>1, <2>2, TablesKept DEF TypeInv, tables
  <2>4. PrimaryInv'
    BY <2>1, <2>2 DEF PrimaryInv, tables, Stage
  <2>5. SecondaryInv'
    BY <2>1, <2>2 DEF SecondaryInv, Orderly, Stage
  <2>6. KeysInv'
    BY <2>1 DEF KeysInv
  <2> QED
    BY <2>3, <2>4, <2>5, <2>6
<1> QED
  BY <1>1, <1>2, <1>3

\* The steps from one program to another.
LEMMA SwitchKeeps ==
    ASSUME IInv,
           \/ EnterKernel \/ CpuOn \/ TakeWake
           \/ \E c \in Cores : SeeosCall(c) \/ Serve(c) \/ Preempt(c)
    PROVE  IInv'
<1> USE CoreZero, CoreOne DEF IInv
<1>1. /\ UNCHANGED <<stage, tables, ready, keys>>
      /\ disturbed \subseteq disturbed' /\ disturbed' \subseteq Cores
      /\ at' \in [Cores -> Regimes]
      /\ main' \in MainPcs /\ (main' = "done" <=> main = "done")
  BY DEF EnterKernel, CpuOn, Kernel0, TakeWake, SeeosCall, Serve, Preempt, TypeInv, Regimes,
         MainPcs
<1>2. TypeInv' /\ MappedInv'
  BY <1>1, TablesKept DEF TypeInv, tables
<1>3. PrimaryInv' /\ SecondaryInv' /\ KeysInv'
  BY <1>1 DEF PrimaryInv, SecondaryInv, KeysInv, tables, Orderly
<1> QED
  BY <1>2, <1>3

\* The disk's page is added, and the identity map removed.
LEMMA KernelTablesKeep ==
    ASSUME IInv, CEntry \/ MainProceeds
    PROVE  IInv'
<1> USE CoreZero DEF IInv
<1>1. /\ UNCHANGED <<at, stage, cursor, ready, keys, disturbed>>
      /\ main' \in MainPcs
      /\ main # "done"
      /\ \A r \in Regimes : /\ mapped'[r] \subseteq mapped[r] \cup {BlockPage}
                            /\ mapped[r] \ Removed(r)' \subseteq mapped'[r]
      /\ mapped' \in [Regimes -> SUBSET Places]
  <2>1. BlockPage \in Places
    BY DEF BlockPage, Places, BLOCK
  <2>2. CASE CEntry
    BY <2>1, <2>2 DEF CEntry, Kernel0, TypeInv, MainPcs, Regimes
  <2>3. CASE MainProceeds
    BY <2>3 DEF MainProceeds, Kernel0, TypeInv, MainPcs, Regimes, Removed
  <2> QED
    BY <2>2, <2>3
<1>2. TypeInv'
  BY <1>1 DEF TypeInv
<1>3. MappedInv'
  <2> SUFFICES ASSUME NEW r \in Regimes
               PROVE  /\ cursor[r] <= Len(Map[r])
                      /\ Orderly(r) => {Map[r][i] : i \in 1..cursor[r]} \ Removed(r)'
                                          \subseteq mapped'[r]
    BY <1>1 DEF MappedInv, Orderly
  <2>1. Removed(r) = {}
    BY <1>1 DEF Removed
  <2> QED
    BY <1>1, <2>1 DEF MappedInv
<1>4. PrimaryInv' /\ SecondaryInv' /\ KeysInv'
  BY <1>1 DEF PrimaryInv, SecondaryInv, KeysInv, Orderly
<1> QED
  BY <1>2, <1>3, <1>4

LEMMA Inductive == IInv /\ [Next]_vars => IInv'
<1> SUFFICES ASSUME IInv, [Next]_vars PROVE IInv'
  OBVIOUS
<1>1. CASE \E r \in Regimes : MapUnit(r)
  BY <1>1, MapUnitKeeps
<1>2. CASE \E r \in Regimes : EnableMmu(r) \/ Publish(r)
  BY <1>2, PrimaryStageKeeps
<1>3. CASE InitCrypto
  BY <1>3, PrimaryStageKeeps DEF Regimes
<1>4. CASE \E c \in Secondaries : Secondary(c)
  BY <1>4, EnableSecondaryKeeps, ParkKeeps
     DEF Secondary, SetupMmuSecondary, SeccoreSetupMmu, SeeosSecondaryCoreInit, Regimes
<1>5. CASE \/ EnterKernel \/ CpuOn \/ TakeWake
           \/ \E c \in Cores : SeeosCall(c) \/ Serve(c) \/ Preempt(c)
  BY <1>5, SwitchKeeps
<1>6. CASE CEntry \/ MainProceeds
  BY <1>6, KernelTablesKeep
<1>7. CASE UNCHANGED vars
  BY <1>7 DEF vars, IInv, TypeInv, MappedInv, PrimaryInv, SecondaryInv, KeysInv, Orderly, Removed
<1> QED
  BY <1>1, <1>2, <1>3, <1>4, <1>5, <1>6, <1>7 DEF Next, Primary, Main

\* The invariant holds in every behaviour.
THEOREM Invariant == Spec => []IInv
BY Initial, Inductive, PTL DEF Spec

-----------------------------------------------------------------------------
(* The properties.                                                          *)

\* No core, of any number, translates through tables that core 0 has not
\* finished, unless an interrupt has stopped the start of SEEOS.
THEOREM TablesBeforeUseAlways == Spec => []TablesBeforeUse
<1>1. IInv => TablesBeforeUse
  <2> SUFFICES ASSUME IInv, NEW c \in Cores, NEW r \in Regimes,
                      stage[c][r] # "entry", Orderly(r)
               PROVE  Range(Map[r]) \ Removed(r) \subseteq mapped[r]
    BY DEF TablesBeforeUse
  <2>1. stage[0][r] # "entry"
    BY DEF IInv, SecondaryInv, Secondaries
  <2>2. /\ cursor[r] = Len(Map[r])
        /\ {Map[r][i] : i \in 1..cursor[r]} \ Removed(r) \subseteq mapped[r]
    BY <2>1 DEF IInv, PrimaryInv, MappedInv
  <2> QED
    BY <2>2, MapFacts
<1> QED
  BY <1>1, Invariant, PTL

\* No core, of any number, serves a call before the keys are computed, under
\* the same condition.
THEOREM KeysBeforeServiceAlways == Spec => []KeysBeforeService
<1>1. IInv => KeysBeforeService
  <2> SUFFICES ASSUME IInv, disturbed = {}, NEW c \in Cores, stage[c]["see"] = "started"
               PROVE  keys
    BY DEF KeysBeforeService
  <2>1. stage[0]["see"] = "started"
    BY DEF IInv, SecondaryInv, Secondaries, Orderly, Regimes
  <2> QED
    BY <2>1 DEF IInv, KeysInv
<1> QED
  BY <1>1, Invariant, PTL

-----------------------------------------------------------------------------
(* The pools of tables.                                                     *)

\* The tables below one root that these units can need.
RootTables(root) == {<<root, "l2", n>> : n \in {0, 1}} \cup {<<root, "l3", u>> : u \in Units}

\* Those that the allocator of a program can come to give out: it has been
\* asked for nothing else.
ProgramTables(r) == UNION {RootTables(root) : root \in Roots(r)}
AllocatedInv ==
    /\ allocated \in [Regimes -> SUBSET AnyTables]
    /\ \A r \in Regimes : allocated[r] \subseteq ProgramTables(r)

\* Sizes of finite sets, by bounds that add up.
SizeAtMost(S, n) == IsFiniteSet(S) /\ n \in Nat /\ Cardinality(S) <= n

LEMMA SingletonSize == ASSUME NEW x PROVE SizeAtMost({x}, 1)
<1>1. IsFiniteSet({x}) /\ Cardinality({x}) = 1
  BY FS_Singleton
<1> QED
  BY <1>1 DEF SizeAtMost

LEMMA SubsetSize ==
    ASSUME NEW S, NEW T \in SUBSET S, NEW n, SizeAtMost(S, n) PROVE SizeAtMost(T, n)
<1>1. IsFiniteSet(S) /\ n \in Nat /\ Cardinality(S) <= n
  BY DEF SizeAtMost
<1>2. IsFiniteSet(T) /\ Cardinality(T) <= Cardinality(S)
  BY <1>1, FS_Subset
<1>3. Cardinality(S) \in Nat /\ Cardinality(T) \in Nat
  BY <1>1, <1>2, FS_CardinalityType
<1> QED
  BY <1>1, <1>2, <1>3 DEF SizeAtMost

LEMMA UnionSize ==
    ASSUME NEW A, NEW B, NEW m, NEW n, SizeAtMost(A, m), SizeAtMost(B, n)
    PROVE  SizeAtMost(A \cup B, m + n)
<1>1. IsFiniteSet(A) /\ m \in Nat /\ Cardinality(A) <= m
      /\ IsFiniteSet(B) /\ n \in Nat /\ Cardinality(B) <= n
  BY DEF SizeAtMost
<1>2. Cardinality(A) \in Nat /\ Cardinality(B) \in Nat
  BY <1>1, FS_CardinalityType
<1>3. IsFiniteSet(A \cap B)
  <2>1. A \cap B \in SUBSET A
    OBVIOUS
  <2> QED
    BY <1>1, <2>1, FS_Subset
<1>4. Cardinality(A \cap B) \in Nat
  BY <1>3, FS_CardinalityType
<1>5. /\ IsFiniteSet(A \cup B)
      /\ Cardinality(A \cup B) = Cardinality(A) + Cardinality(B) - Cardinality(A \cap B)
  BY <1>1, FS_Union
<1> QED
  BY <1>1, <1>2, <1>4, <1>5 DEF SizeAtMost

\* Each root needs at most eleven tables.
LEMMA RootTablesBound == ASSUME NEW root PROVE SizeAtMost(RootTables(root), 11)
<1> DEFINE L2 == {<<root, "l2", 0>>} \cup {<<root, "l2", 1>>}
           L3 == {<<root, "l3", u>> : u \in Units}
<1>1. SizeAtMost(Units, 9)
  <2> DEFINE Ram == RAM..(SMEM + 1)
             Devices == ({GIC} \cup {UART}) \cup {BLOCK}
  <2>1. SizeAtMost(Ram, 6)
    <3>1. PICK a \in Int, b \in Int : a = RAM /\ b = SMEM + 1 /\ b - a + 1 = 6
      BY DEF RAM, SMEM
    <3>2. IsFiniteSet(a..b) /\ Cardinality(a..b) = IF a > b THEN 0 ELSE b - a + 1
      BY FS_Interval
    <3>3. SizeAtMost(a..b, 6)
      BY <3>1, <3>2 DEF SizeAtMost
    <3>4. Ram = a..b
      BY <3>1
    <3> QED
      BY <3>3, <3>4
  <2>2. SizeAtMost(Devices, (1 + 1) + 1)
    <3>1. SizeAtMost({GIC} \cup {UART}, 1 + 1)
      BY SingletonSize, UnionSize
    <3> QED
      BY <3>1, SingletonSize, UnionSize
  <2>3. SizeAtMost(Devices \cup Ram, ((1 + 1) + 1) + 6)
    BY <2>1, <2>2, UnionSize
  <2>4. Units = Devices \cup Ram
    BY DEF Units
  <2> QED
    BY <2>3, <2>4
<1>2. SizeAtMost(L2, 1 + 1)
  BY SingletonSize, UnionSize
<1>3. SizeAtMost(L3, 9)
  <2> DEFINE f == [u \in Units |-> <<root, "l3", u>>]
  <2>1. f \in Surjection(Units, L3)
    BY DEF Surjection
  <2> HIDE DEF f, L3
  <2>2. IsFiniteSet(Units) /\ Cardinality(Units) <= 9
    BY <1>1 DEF SizeAtMost
  <2>3. IsFiniteSet(L3) /\ Cardinality(L3) <= Cardinality(Units)
    BY <2>1, <2>2, FS_Surjection
  <2>4. Cardinality(L3) \in Nat /\ Cardinality(Units) \in Nat
    BY <2>2, <2>3, FS_CardinalityType
  <2> QED
    BY <2>2, <2>3, <2>4 DEF SizeAtMost
<1>4. SizeAtMost(L2 \cup L3, (1 + 1) + 9)
  <2> HIDE DEF L2, L3
  <2> QED
    BY <1>2, <1>3, UnionSize
<1>5. RootTables(root) = L2 \cup L3
  BY DEF RootTables
<1> QED
  BY <1>4, <1>5

\* Whatever a program has asked for so far, its pool has the tables.
LEMMA PoolSuffices ==
    ASSUME AllocatedInv, NEW r \in Regimes
    PROVE  Cardinality(allocated[r]) <= PoolSize[r]
<1>1. SizeAtMost(allocated[r], IF r = "kernel" THEN 22 ELSE 11)
  <2>1. CASE r = "kernel"
    <3> DEFINE A == RootTables("user_l1")
               B == RootTables("kernel_l1")
    <3>1. allocated[r] \subseteq A \cup B
      BY <2>1 DEF AllocatedInv, ProgramTables, Roots
    <3>2. SizeAtMost(A \cup B, 11 + 11)
      BY RootTablesBound, UnionSize
    <3>3. SizeAtMost(allocated[r], 11 + 11)
      BY <3>1, <3>2, SubsetSize
    <3> QED
      BY <2>1, <3>3
  <2>2. CASE r # "kernel"
    <3>1. PICK root : allocated[r] \subseteq RootTables(root)
      <4>1. CASE r = "el3"
        BY <4>1 DEF AllocatedInv, ProgramTables, Roots
      <4>2. CASE r = "see"
        BY <4>2 DEF AllocatedInv, ProgramTables, Roots
      <4> QED
        BY <2>2, <4>1, <4>2 DEF Regimes
    <3>2. SizeAtMost(allocated[r], 11)
      BY <3>1, RootTablesBound, SubsetSize
    <3> QED
      BY <2>2, <3>2
  <2> QED
    BY <2>1, <2>2
<1>2. Cardinality(allocated[r]) \in Nat
      /\ Cardinality(allocated[r]) <= IF r = "kernel" THEN 22 ELSE 11
  BY <1>1, FS_CardinalityType DEF SizeAtMost
<1>3. PoolSize[r] \in Nat /\ PoolSize[r] >= IF r = "kernel" THEN 22 ELSE 11
  BY DEF PoolSize, Regimes
<1> QED
  BY <1>2, <1>3

\* The tables for a unit of a program's list, or for the page of the disk, are
\* among those of the program.
LEMMA UnitTables ==
    ASSUME NEW r \in Regimes, NEW m \in Roots(r) \X Units
    PROVE  Tables(r, m) \subseteq ProgramTables(r) /\ Tables(r, m) \subseteq AnyTables
<1>1. m[1] \in Roots(r) /\ m[2] \in Units
  OBVIOUS
<1>2. m[2] \div 512 \in {0, 1} /\ m[2] \in Nat
  BY <1>1 DEF Units, GIC, UART, BLOCK, RAM, SMEM
<1>3. Tables(r, m) \subseteq RootTables(m[1])
  BY <1>1, <1>2 DEF Tables, PageTables, BlockTables, RootTables
<1>4. Tables(r, m) \subseteq ProgramTables(r)
  BY <1>1, <1>3 DEF ProgramTables
<1>5. m[1] \in {"l1_table", "user_l1", "kernel_l1", "seeos_l1_table"}
  BY <1>1 DEF Roots, Regimes
<1>6. Tables(r, m) \subseteq AnyTables
  BY <1>2, <1>5 DEF Tables, PageTables, BlockTables, AnyTables
<1> QED
  BY <1>4, <1>6

\* Core 0 asks for no others.
LEMMA Allocated == Spec => []AllocatedInv
<1>1. Init => AllocatedInv
  BY DEF Init, AllocatedInv
<1>2. ASSUME IInv, AllocatedInv, [Next]_vars PROVE AllocatedInv'
  <2>1. ASSUME NEW r \in Regimes, NEW m \in Roots(r) \X Units,
               allocated' = [allocated EXCEPT ![r] = @ \cup Tables(r, m)]
        PROVE  AllocatedInv'
    BY <1>2, <2>1, UnitTables DEF AllocatedInv
  <2>2. CASE \E r \in Regimes : MapUnit(r)
    <3>1. PICK r \in Regimes : MapUnit(r)
      BY <2>2
    <3>2. TypeInv
      BY <1>2 DEF IInv
    <3>3. cursor'[r] \in 1..Len(Map[r])
      BY <3>1, <3>2, MapFacts DEF MapUnit, TypeInv
    <3>4. Map[r][cursor'[r]] \in Roots(r) \X Units
      <4>1. ASSUME NEW S, NEW m \in Seq(S), NEW i \in 1..Len(m) PROVE m[i] \in S
        OBVIOUS
      <4> QED
        BY <3>3, <4>1, MapPlaces
    <3> QED
      BY <2>1, <3>1, <3>4 DEF MapUnit
  <2>3. CASE CEntry
    <3>1. BlockPage \in Roots("kernel") \X Units
      BY DEF BlockPage, Roots, Units
    <3>2. Tables("kernel", BlockPage) = PageTables(BlockPage) /\ "kernel" \in Regimes
      BY DEF Tables, Regimes
    <3> QED
      BY <2>1, <2>3, <3>1, <3>2 DEF CEntry
  <2>4. CASE ~CEntry /\ ~\E r \in Regimes : MapUnit(r)
    <3>1. allocated' = allocated
      BY <1>2, <2>4 DEF Next, Primary, Main, Secondary, vars, tables, EnableMmu, Publish,
           InitCrypto, EnterKernel, CpuOn, MainProceeds, TakeWake, Park, SeeosCall, Serve,
           Preempt, SetupMmuSecondary, SeccoreSetupMmu, SeeosSecondaryCoreInit, EnableSecondary
    <3> QED
      BY <1>2, <3>1 DEF AllocatedInv
  <2> QED
    BY <2>2, <2>3, <2>4
<1> QED
  BY <1>1, <1>2, Invariant, PTL DEF Spec

\* No allocator of tables runs out and the variables have their types, for any
\* number of cores and any kernel below the buffer, the page of the disk
\* included.
THEOREM TypeCorrect == Spec => []TypeOK
<1>1. IInv /\ AllocatedInv => TypeOK
  <2> SUFFICES ASSUME IInv, AllocatedInv PROVE TypeOK
    OBVIOUS
  <2>1. ASSUME NEW r \in Regimes PROVE cursor[r] \in 0..Len(Map[r])
    <3>1. cursor[r] \in Nat /\ cursor[r] <= Len(Map[r])
      BY DEF IInv, TypeInv, MappedInv
    <3> QED
      BY <3>1, MapFacts
  <2>2. \A r \in Regimes : Cardinality(allocated[r]) <= PoolSize[r]
    BY PoolSuffices
  <2>3. TypeInv
    BY DEF IInv
  <2>4. \A r \in Regimes : mapped[r] \subseteq Places /\ allocated[r] \subseteq AnyTables
    BY <2>3 DEF TypeInv, AllocatedInv
  <2> QED
    BY <2>1, <2>2, <2>3, <2>4 DEF TypeOK, TypeInv
<1> QED
  BY <1>1, Invariant, Allocated, PTL

=============================================================================
