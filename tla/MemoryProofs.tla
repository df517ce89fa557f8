----------------------------- MODULE MemoryProofs -----------------------------
(***************************************************************************)
(* Theorems about Memory, for every size of the heap, of the blocks, of    *)
(* the tables and of the pool, and any number of cores.                    *)
(***************************************************************************)
EXTENDS Memory, FiniteSetTheorems, TLAPS

-----------------------------------------------------------------------------
(* The inductive invariant.                                                 *)

Apart(b, d) == PagesOf(b) \cap PagesOf(d) = {}

\* Blocks that are held are marked, mapped and apart from each other.
HeldInv ==
    /\ \A b \in held : PagesOf(b) \subseteq pages \cap mapped
    /\ \A b, d \in held : b # d => Apart(b, d)

\* What is mapped has a table.
TableInv == \A p \in mapped : L2Index(p) \in tables

\* The block of the operation under way is inside the heap, belongs to no
\* caller, and is marked while it is mapped and free while it is unmapped.
BlockInv ==
    /\ pc \in {"map", "unmap", "flush", "fault"} =>
          /\ block \in Blocks
          /\ PagesOf(block) \subseteq Pages
          /\ i \in block.base..(block.base + block.size)
          /\ \A b \in held : Apart(b, block)
    /\ pc \in {"map", "fault"} =>
          /\ PagesOf(block) \subseteq pages
          /\ block.base..(i - 1) \subseteq mapped
    /\ pc \in {"unmap", "flush"} => PagesOf(block) \cap pages = {}

\* Pages that can be reached are marked, or are pages of the block being freed
\* that have yet to be unmapped or flushed.
ReachInv ==
    /\ mapped \subseteq pages \cup (IF pc = "unmap" THEN i..(block.base + block.size - 1) ELSE {})
    /\ \A c \in Cores :
          tlb[c] \subseteq pages \cup
             (CASE pc = "unmap" -> PagesOf(block)
                [] pc = "flush" -> i..(block.base + block.size - 1)
                [] OTHER        -> {})

IInv == TypeOK /\ HeldInv /\ TableInv /\ BlockInv /\ ReachInv

LEMMA BlockFacts ==
    ASSUME NEW b \in Blocks
    PROVE  /\ b.base \in Nat /\ b.base < MAX_PAGES
           /\ b.size \in Nat /\ b.size >= 1
           /\ MAX_PAGES \in Nat /\ MAX_PAGES >= 1
<1>1. b.base \in Pages /\ b.size \in Sizes
  BY DEF Blocks
<1>2. b.size \in 1..MAX_PAGES
  BY <1>1, MemoryAssumption
<1> QED
  BY <1>1, <1>2, MemoryAssumption DEF Pages

LEMMA IndexFacts == 0 \in Pages /\ \A p \in Pages : L2Index(p) \in L2Indices
BY MemoryAssumption DEF Pages, L2Indices

LEMMA InvInit == Init => IInv
<1> SUFFICES ASSUME Init PROVE IInv
  OBVIOUS
<1>1. TypeOK
  BY IndexFacts, MemoryAssumption DEF Init, TypeOK, Pcs
<1>2. HeldInv /\ TableInv /\ BlockInv /\ ReachInv
  BY DEF Init, HeldInv, TableInv, BlockInv, ReachInv
<1> QED
  BY <1>1, <1>2 DEF IInv

-----------------------------------------------------------------------------
(* Each step keeps it.                                                      *)

LEMMA WalkStep == ASSUME IInv, NEW c \in Cores, Walk(c) PROVE IInv'
<1> USE DEF IInv, Walk, op
<1>1. TypeOK'
  BY DEF TypeOK
<1>2. HeldInv' /\ TableInv' /\ BlockInv'
  BY DEF HeldInv, TableInv, BlockInv, Apart
<1>3. ReachInv'
  <2> PICK p \in mapped : tlb' = [tlb EXCEPT ![c] = @ \cup {p}]
    OBVIOUS
  <2>1. CASE pc = "unmap"
    <3>1. p \in pages \cup PagesOf(block)
      BY <2>1, BlockFacts DEF ReachInv, BlockInv, PagesOf
    <3> QED
      BY <2>1, <3>1 DEF ReachInv, TypeOK
  <2>2. CASE pc # "unmap"
    BY <2>2 DEF ReachInv, TypeOK
  <2> QED
    BY <2>1, <2>2
<1> QED
  BY <1>1, <1>2, <1>3

LEMMA AllocateStep == ASSUME IInv, NEW n \in Sizes, Allocate(n) PROVE IInv'
<1> USE DEF IInv, Allocate
<1> PICK b \in Blocks : /\ IsFree(b)
                        /\ pages' = pages \cup PagesOf(b)
                        /\ block' = b
                        /\ i' = b.base
  OBVIOUS
<1>1. PagesOf(b) \subseteq Pages
  BY BlockFacts DEF IsFree, PagesOf, Pages
<1>2. TypeOK'
  BY <1>1, BlockFacts DEF TypeOK, Pcs
<1>3. HeldInv' /\ TableInv'
  BY DEF HeldInv, TableInv, Apart
<1>4. BlockInv'
  <2>1. \A d \in held : Apart(d, b)
    BY DEF HeldInv, Apart, IsFree
  <2>2. b.base..(b.base - 1) = {} /\ b.base \in b.base..(b.base + b.size)
    BY BlockFacts
  <2> QED
    BY <1>1, <2>1, <2>2 DEF BlockInv, PagesOf, Apart
<1>5. ReachInv'
  BY DEF ReachInv
<1> QED
  BY <1>2, <1>3, <1>4, <1>5

LEMMA FailStep == ASSUME IInv, NEW n \in Sizes, AllocateFails(n) PROVE IInv'
<1> USE DEF IInv, AllocateFails
<1>1. TypeOK'
  BY DEF TypeOK, Pcs
<1>2. HeldInv' /\ TableInv' /\ BlockInv' /\ ReachInv'
  BY DEF HeldInv, TableInv, BlockInv, ReachInv, Apart
<1> QED
  BY <1>1, <1>2

LEMMA MapStep == ASSUME IInv, MapPage PROVE IInv'
<1> USE DEF IInv, MapPage
<1>0. block \in Blocks /\ i \in Pages /\ i \in pages
  BY DEF BlockInv
<1>1. TypeOK'
  <2>1. L2Index(i) \in L2Indices
    BY <1>0, IndexFacts
  <2>2. tables' \subseteq L2Indices /\ pool_ptr' \in 0..Pool
    BY <2>1, MemoryAssumption DEF TypeOK
  <2>3. i' \in 0..MAX_PAGES
    BY <1>0, MemoryAssumption DEF Pages
  <2> QED
    BY <1>0, <2>2, <2>3 DEF TypeOK
<1>2. HeldInv' /\ TableInv'
  BY DEF HeldInv, TableInv, Apart
<1>3. BlockInv'
  <2>1. i' \in block.base..(block.base + block.size)
    BY <1>0, BlockFacts DEF PagesOf
  <2>2. block.base..(i' - 1) \subseteq mapped'
    BY <1>0, BlockFacts DEF BlockInv, PagesOf
  <2> QED
    BY <2>1, <2>2 DEF BlockInv, PagesOf, Apart
<1>4. ReachInv'
  BY <1>0 DEF ReachInv
<1> QED
  BY <1>1, <1>2, <1>3, <1>4

LEMMA PoolEmptyStep == ASSUME IInv, PoolEmpty PROVE IInv'
<1> USE DEF IInv, PoolEmpty
<1>1. TypeOK'
  BY DEF TypeOK, Pcs
<1>2. HeldInv' /\ TableInv' /\ ReachInv'
  BY DEF HeldInv, TableInv, ReachInv, Apart
<1>3. BlockInv'
  BY DEF BlockInv, Apart
<1> QED
  BY <1>1, <1>2, <1>3

LEMMA AllocateReturnsStep == ASSUME IInv, AllocateReturns PROVE IInv'
<1> USE DEF IInv, AllocateReturns
<1>1. TypeOK'
  BY DEF TypeOK, BlockInv, Pcs
<1>2. PagesOf(block) \subseteq pages \cap mapped
  <2>1. i = block.base + block.size
    BY BlockFacts DEF BlockInv, PagesOf
  <2>2. PagesOf(block) \subseteq pages /\ block.base..(i - 1) \subseteq mapped
    BY DEF BlockInv
  <2>3. PagesOf(block) = block.base..(i - 1)
    BY <2>1, BlockFacts DEF PagesOf, BlockInv
  <2> QED
    BY <2>2, <2>3
<1>3. HeldInv'
  BY <1>2 DEF HeldInv, BlockInv, Apart
<1>4. TableInv' /\ BlockInv' /\ ReachInv'
  BY DEF TableInv, BlockInv, ReachInv
<1> QED
  BY <1>1, <1>3, <1>4

LEMMA FreeStep == ASSUME IInv, NEW b \in held, Free(b) PROVE IInv'
<1> USE DEF IInv, Free
<1>0. b \in Blocks /\ PagesOf(b) \subseteq Pages
  BY DEF TypeOK, HeldInv
<1>1. TypeOK'
  BY <1>0, BlockFacts DEF TypeOK, Pcs
<1>2. HeldInv'
  BY DEF HeldInv, Apart
<1>3. TableInv'
  BY DEF TableInv
<1>4. BlockInv'
  <2>1. b.base \in b.base..(b.base + b.size)
    BY <1>0, BlockFacts
  <2>2. \A d \in held \ {b} : Apart(d, b)
    BY DEF HeldInv
  <2> QED
    BY <1>0, <2>1, <2>2 DEF BlockInv, Apart, PagesOf
<1>5. ReachInv'
  <2>1. mapped \subseteq pages /\ \A c \in Cores : tlb[c] \subseteq pages
    BY DEF ReachInv
  <2> QED
    BY <2>1 DEF ReachInv, PagesOf
<1> QED
  BY <1>1, <1>2, <1>3, <1>4, <1>5

LEMMA UnmapStep == ASSUME IInv, UnmapPage PROVE IInv'
<1> USE DEF IInv, UnmapPage
<1>0. block \in Blocks /\ i \in Pages /\ i \notin pages
  BY DEF BlockInv
<1>1. TypeOK'
  BY <1>0, MemoryAssumption DEF TypeOK, Pages
<1>2. HeldInv' /\ TableInv'
  BY <1>0 DEF HeldInv, TableInv, Apart
<1>3. BlockInv'
  <2>1. i' \in block.base..(block.base + block.size)
    BY <1>0, BlockFacts DEF PagesOf
  <2> QED
    BY <2>1 DEF BlockInv, Apart, PagesOf
<1>4. ReachInv'
  <2>1. mapped' \subseteq pages \cup i'..(block.base + block.size - 1)
    BY <1>0, BlockFacts DEF ReachInv, PagesOf, Pages
  <2> QED
    BY <2>1 DEF ReachInv, PagesOf
<1> QED
  BY <1>1, <1>2, <1>3, <1>4

LEMMA UnmappedStep == ASSUME IInv, Unmapped PROVE IInv'
<1> USE DEF IInv, Unmapped
<1>0. block \in Blocks
  BY DEF BlockInv
<1>1. TypeOK'
  BY <1>0, BlockFacts DEF TypeOK, Pcs
<1>2. HeldInv' /\ TableInv'
  BY DEF HeldInv, TableInv, Apart
<1>3. BlockInv'
  BY <1>0, BlockFacts DEF BlockInv, Apart, PagesOf
<1>4. ReachInv'
  <2>1. i..(block.base + block.size - 1) = {}
    BY <1>0, BlockFacts DEF BlockInv, PagesOf
  <2> QED
    BY <2>1 DEF ReachInv, PagesOf
<1> QED
  BY <1>1, <1>2, <1>3, <1>4

LEMMA FlushStep == ASSUME IInv, FlushPage PROVE IInv'
<1> USE DEF IInv, FlushPage
<1>0. block \in Blocks /\ i \in Pages
  BY DEF BlockInv
<1>1. TypeOK'
  BY <1>0, MemoryAssumption DEF TypeOK, Pages
<1>2. HeldInv' /\ TableInv'
  BY DEF HeldInv, TableInv, Apart
<1>3. BlockInv'
  <2>1. i' \in block.base..(block.base + block.size)
    BY <1>0, BlockFacts DEF PagesOf
  <2> QED
    BY <2>1 DEF BlockInv, Apart, PagesOf
<1>4. ReachInv'
  <2>1. \A c \in Cores : tlb'[c] \subseteq pages \cup i'..(block.base + block.size - 1)
    BY <1>0, BlockFacts DEF ReachInv, Pages
  <2> QED
    BY <2>1 DEF ReachInv
<1> QED
  BY <1>1, <1>2, <1>3, <1>4

LEMMA FreeReturnsStep == ASSUME IInv, FreeReturns PROVE IInv'
<1> USE DEF IInv, FreeReturns
<1>0. block \in Blocks
  BY DEF BlockInv
<1>1. TypeOK'
  BY DEF TypeOK, Pcs
<1>2. HeldInv' /\ TableInv' /\ BlockInv'
  BY DEF HeldInv, TableInv, BlockInv, Apart
<1>3. ReachInv'
  <2>1. i..(block.base + block.size - 1) = {}
    BY <1>0, BlockFacts DEF BlockInv, PagesOf
  <2> QED
    BY <2>1 DEF ReachInv
<1> QED
  BY <1>1, <1>2, <1>3

LEMMA StutterStep == IInv /\ UNCHANGED vars => IInv'
BY DEF vars, IInv, TypeOK, HeldInv, TableInv, BlockInv, ReachInv, Apart

LEMMA InvStep == IInv /\ [Next]_vars => IInv'
BY WalkStep, AllocateStep, FailStep, MapStep, PoolEmptyStep, AllocateReturnsStep,
   FreeStep, UnmapStep, UnmappedStep, FlushStep, FreeReturnsStep, StutterStep
DEF Next, Step

LEMMA InvAlways == Spec => []IInv
BY InvInit, InvStep, PTL DEF Spec

-----------------------------------------------------------------------------
(* Theorems.                                                                *)

\* Types hold always: the loops of the allocator stay inside the heap.
THEOREM TypeCorrect == Spec => []TypeOK
<1>1. IInv => TypeOK
  BY DEF IInv
<1> QED
  BY <1>1, InvAlways, PTL

\* A stack that is held is mapped, all of it, whatever is done next to it.
THEOREM HeldMappedAlways == Spec => []HeldMapped
<1>1. IInv => HeldMapped
  BY DEF IInv, HeldInv, TableInv, HeldMapped, Heap
<1> QED
  BY <1>1, InvAlways, PTL

\* Once mm_free_pages() has returned no core reaches the freed pages.
THEOREM NotReachedOnceFreeAlways == Spec => []NotReachedOnceFree
<1>1. IInv => NotReachedOnceFree
  BY DEF IInv, ReachInv, NotReachedOnceFree
<1> QED
  BY <1>1, InvAlways, PTL

\* The allocator implements PageStore: it never hands out a page that a caller
\* still holds.
THEOREM Implements == Spec => KeepsPromise
<1>1. Init => Promise!Init
  BY DEF Init, Promise!Init
<1>2. IInv /\ [Next]_vars => [Promise!Next]_held
  <2> SUFFICES ASSUME IInv, Next, held' # held PROVE Promise!Next
    BY DEF vars
  <2>1. CASE AllocateReturns
    <3>1. block \in Blocks /\ \A b \in held : Apart(b, block)
      BY <2>1 DEF AllocateReturns, IInv, BlockInv
    <3>2. Promise!Give(block)
      BY <2>1, <3>1 DEF AllocateReturns, Apart, PagesOf, Promise!Give, Promise!Extent
    <3> QED
      BY <3>1, <3>2 DEF Promise!Next
  <2>2. ASSUME NEW b \in held, Free(b) PROVE Promise!Next
    <3>1. b \in Blocks
      BY DEF IInv, TypeOK
    <3>2. Promise!TakeBack(b)
      BY <2>2 DEF Free, Promise!TakeBack
    <3> QED
      BY <3>1, <3>2 DEF Promise!Next
  <2>3. AllocateReturns \/ \E b \in held : Free(b)
    BY DEF Next, Step, Walk, Allocate, AllocateFails, MapPage, PoolEmpty,
           UnmapPage, Unmapped, FlushPage, FreeReturns
  <2> QED
    BY <2>1, <2>2, <2>3
<1> QED
  BY <1>1, <1>2, InvAlways, PTL DEF Spec, KeepsPromise, Promise!Spec

-----------------------------------------------------------------------------
(* The pool.                                                                *)

PoolInv ==
    /\ IsFiniteSet(tables)
    /\ pool_ptr = Cardinality(tables) - 1
    /\ pc = "fault" => Cardinality(L2Indices) > Pool + 1

LEMMA IndicesFinite == IsFiniteSet(L2Indices)
<1> DEFINE f == [p \in Pages |-> L2Index(p)]
<1>1. IsFiniteSet(Pages)
  BY FS_Interval, MemoryAssumption DEF Pages
<1>2. f \in Surjection(Pages, L2Indices)
  BY DEF Surjection, L2Indices
<1> HIDE DEF f
<1> QED
  BY <1>1, <1>2, FS_Surjection

LEMMA PoolInit == Init => PoolInv
<1> SUFFICES ASSUME Init PROVE PoolInv
  OBVIOUS
<1>1. IsFiniteSet(tables) /\ Cardinality(tables) = 1
  BY FS_Singleton DEF Init
<1> QED
  BY <1>1 DEF Init, PoolInv

LEMMA PoolStep == IInv /\ PoolInv /\ [Next]_vars => PoolInv'
<1> SUFFICES ASSUME IInv, PoolInv, [Next]_vars PROVE PoolInv'
  OBVIOUS
<1>0. Cardinality(tables) \in Nat /\ Pool \in Nat
  BY FS_CardinalityType, MemoryAssumption DEF PoolInv
<1>1. CASE MapPage
  <2>1. CASE tables' = tables /\ pool_ptr' = pool_ptr
    BY <1>1, <2>1 DEF PoolInv, MapPage
  <2>2. CASE L2Index(i) \notin tables /\ tables' = tables \cup {L2Index(i)}
                /\ pool_ptr' = pool_ptr + 1
    <3>1. IsFiniteSet(tables') /\ Cardinality(tables') = Cardinality(tables) + 1
      BY <2>2, FS_AddElement DEF PoolInv
    <3> QED
      BY <1>0, <1>1, <2>2, <3>1 DEF PoolInv, MapPage
  <2> QED
    BY <1>1, <2>1, <2>2 DEF MapPage
<1>2. CASE PoolEmpty
  <2>1. i \in Pages
    BY <1>2 DEF PoolEmpty, IInv, BlockInv
  <2> DEFINE T == tables \cup {L2Index(i)}
  <2>2. Cardinality(T) = Cardinality(tables) + 1
    BY <1>2, FS_AddElement DEF PoolInv, PoolEmpty
  <2>3. T \in SUBSET L2Indices
    BY <2>1, IndexFacts DEF IInv, TypeOK
  <2>4. Cardinality(T) <= Cardinality(L2Indices)
    BY <2>3, IndicesFinite, FS_Subset
  <2>5. Cardinality(L2Indices) \in Nat
    BY IndicesFinite, FS_CardinalityType
  <2> HIDE DEF T
  <2>6. Cardinality(L2Indices) > Pool + 1
    BY <1>0, <1>2, <2>2, <2>4, <2>5 DEF PoolInv, PoolEmpty
  <2> QED
    BY <1>2, <2>6 DEF PoolInv, PoolEmpty
<1>3. CASE UNCHANGED <<tables, pool_ptr>> /\ (pc' = "fault" => pc = "fault")
  BY <1>3 DEF PoolInv
<1> QED
  BY <1>1, <1>2, <1>3
  DEF Next, Step, Walk, Allocate, AllocateFails, AllocateReturns, Free,
      UnmapPage, Unmapped, FlushPage, FreeReturns, vars, op

\* One table of the pool for each entry of the heap: allocating and freeing
\* for ever exhausts the pool only if the heap spans more entries than there
\* are tables.
THEOREM PoolNotLeakedAlways == Spec => []PoolNotLeaked
<1>1. PoolInv => PoolNotLeaked
  BY DEF PoolInv, PoolNotLeaked
<1> QED
  BY <1>1, PoolInit, PoolStep, InvAlways, PTL DEF Spec

-----------------------------------------------------------------------------
(* Blocks of one size.  The kernel asks for stacks only, all of one size n. *)
(* The first fit then puts them at multiples of n, so that the heap does    *)
(* not fragment and the tables are taken in the order of the entries.       *)

Slots(n) == {k * n : k \in Nat}

LEMMA ProductOrder ==
    ASSUME NEW n \in Nat \ {0}, NEW j \in Int, NEW k \in Int, j < k
    PROVE  j * n + n <= k * n
<1> DEFINE d == k - j - 1
<1>1. d \in Nat /\ k = j + 1 + d
  OBVIOUS
<1> HIDE DEF d
<1>2. d * n >= 0 /\ d * n \in Int
  BY <1>1
<1>3. k * n = j * n + n + d * n
  BY <1>1
<1> QED
  BY <1>2, <1>3

LEMMA Division ==
    ASSUME NEW n \in Nat \ {0}, NEW p \in Nat
    PROVE  p \div n \in Nat /\ (p \div n) * n <= p /\ p < (p \div n) * n + n
BY SMT

LEMMA SlotFacts ==
    ASSUME NEW n \in Nat \ {0}
    PROVE  /\ Slots(n) \subseteq Nat /\ 0 \in Slots(n)
           /\ \A s, t \in Slots(n) : s < t => s + n <= t
           /\ \A p \in Nat : \E s \in Slots(n) : s <= p /\ p < s + n
<1>1. Slots(n) \subseteq Nat /\ 0 \in Slots(n)
  BY DEF Slots
<1>2. ASSUME NEW s \in Slots(n), NEW t \in Slots(n), s < t PROVE s + n <= t
  <2>1. PICK j \in Nat, k \in Nat : s = j * n /\ t = k * n
    BY DEF Slots
  <2>2. j < k
    <3>1. SUFFICES ASSUME k < j PROVE FALSE
      BY <1>2, <2>1
    <3>2. k * n + n <= j * n
      BY <3>1, ProductOrder
    <3> QED
      BY <1>2, <2>1, <3>2
  <2>3. j * n + n <= k * n
    BY <2>2, ProductOrder
  <2> QED
    BY <2>1, <2>3
<1>3. ASSUME NEW p \in Nat PROVE \E s \in Slots(n) : s <= p /\ p < s + n
  BY Division DEF Slots
<1> QED
  BY <1>1, <1>2, <1>3

\* Where the blocks lie, and which tables were taken.
UniformInv(n) ==
    /\ \A b \in held : b.base \in Slots(n)
    /\ block.base \in Slots(n)
    /\ pages \subseteq Heap(held)
                 \cup (IF pc \in {"map", "fault"} THEN PagesOf(block) ELSE {})
    /\ pc \in {"map", "fault"} => 0..(block.base - 1) \subseteq pages
    /\ tables = 0..pool_ptr
    /\ pc = "null" => (Cardinality(held) + 1) * n > MAX_PAGES
    /\ pc = "fault" =>
          (Cardinality(held) + 1) * n + HeapOffset > PagesPerTable * (Pool + 1)

LEMMA UniformFacts ==
    ASSUME NEW n, Sizes = {n}
    PROVE  n \in Nat \ {0} /\ n <= MAX_PAGES /\ \A b \in Blocks : b.size = n
BY MemoryAssumption DEF Blocks

LEMMA HeldFinite ==
    ASSUME NEW n, Sizes = {n}, held \subseteq Blocks
    PROVE  IsFiniteSet(held) /\ Cardinality(held) \in Nat
<1> DEFINE f == [b \in held |-> b.base]
<1>1. f \in Injection(held, Pages)
  BY DEF Blocks, Injection, IsInjective
<1>2. IsFiniteSet(Pages)
  BY FS_Interval, MemoryAssumption DEF Pages
<1> HIDE DEF f
<1>3. IsFiniteSet(held)
  BY <1>1, <1>2, FS_Injection
<1> QED
  BY <1>3, FS_CardinalityType

\* A block that has a page of a slot is the block of that slot.
LEMMA SlotOf ==
    ASSUME NEW n, Sizes = {n}, NEW b \in Blocks, b.base \in Slots(n),
           NEW s \in Slots(n), NEW p \in PagesOf(b), s <= p, p < s + n
    PROVE  b.base = s
<1>0. b.size = n /\ n \in Nat \ {0} /\ p \in Int
  BY UniformFacts DEF PagesOf
<1>1. b.base \in Nat /\ s \in Nat
  BY <1>0, SlotFacts
<1>2. b.base <= p /\ p < b.base + n
  BY <1>0, <1>1 DEF PagesOf
<1>3. ~(b.base < s) /\ ~(s < b.base)
  BY <1>0, <1>1, <1>2, SlotFacts
<1> QED
  BY <1>1, <1>3

\* As many slots in use as there are blocks that are held.
LEMMA SlotCount ==
    ASSUME NEW n, Sizes = {n}, held \subseteq Blocks, NEW k \in Nat,
           \A j \in 0..(k - 1) : \E b \in held : b.base = j * n
    PROVE  k <= Cardinality(held)
<1> DEFINE f == [j \in 0..(k - 1) |-> CHOOSE b \in held : b.base = j * n]
<1>1. \A j \in 0..(k - 1) : f[j] \in held /\ f[j].base = j * n
  OBVIOUS
<1>2. f \in [0..(k - 1) -> held]
  BY <1>1
<1>3. ASSUME NEW j \in 0..(k - 1), NEW m \in 0..(k - 1), f[j] = f[m]
      PROVE  j = m
  <2>1. j * n = m * n
    BY <1>1, <1>3
  <2>2. n \in Nat \ {0} /\ j * n \in Int /\ m * n \in Int
    BY UniformFacts
  <2>3. ~(j < m) /\ ~(m < j)
    BY <2>1, <2>2, ProductOrder
  <2> QED
    BY <2>3
<1> HIDE DEF f
<1>4. f \in Injection(0..(k - 1), held)
  BY <1>2, <1>3 DEF Injection, IsInjective
<1>5. Cardinality(0..(k - 1)) <= Cardinality(held)
  BY <1>4, HeldFinite, FS_Injection
<1>6. Cardinality(0..(k - 1)) = k
  BY FS_Interval
<1> QED
  BY <1>5, <1>6

LEMMA UniformInit ==
    ASSUME NEW n, Sizes = {n}, Init
    PROVE  UniformInv(n)
<1>1. L2Index(0) = 0
  BY MemoryAssumption DEF L2Index
<1>2. block.base \in Slots(n)
  BY UniformFacts, SlotFacts DEF Init, NoBlock
<1> QED
  BY <1>1, <1>2 DEF Init, UniformInv, Heap

\* The first fit is a slot, and there is no free page below it.
LEMMA FirstFit ==
    ASSUME NEW n, Sizes = {n}, IInv, UniformInv(n), pc = "idle",
           NEW b \in Blocks, IsFree(b),
           \A d \in Blocks : d.size = n /\ IsFree(d) => b.base <= d.base
    PROVE  b.base \in Slots(n) /\ 0..(b.base - 1) \subseteq pages
<1>0. n \in Nat \ {0} /\ b.size = n /\ b.base \in Nat /\ MAX_PAGES \in Nat
  BY UniformFacts, BlockFacts
<1>1. ASSUME NEW p \in 0..b.base, p \notin pages
      PROVE  b.base \in Slots(n) /\ b.base <= p
  <2>1. PICK s \in Slots(n) : s <= p /\ p < s + n
    BY SlotFacts, <1>0
  <2>2. s \in Nat
    BY SlotFacts, <1>0
  <2> DEFINE d == [base |-> s, size |-> n]
  <2>3. s + n <= MAX_PAGES
    BY <1>0, <2>1, <2>2 DEF IsFree
  <2>4. d \in Blocks /\ d.size = n /\ d.base = s
    BY <1>0, <2>2, <2>3 DEF Blocks, Pages
  <2>5. ASSUME NEW q \in PagesOf(d) \cap pages PROVE FALSE
    <3>1. PICK e \in held : q \in PagesOf(e)
      BY DEF UniformInv, Heap
    <3>2. e \in Blocks /\ e.base \in Slots(n) /\ PagesOf(e) \subseteq pages
      BY DEF UniformInv, IInv, TypeOK, HeldInv
    <3>3. s <= q /\ q < s + n
      BY <1>0, <2>2, <2>4 DEF PagesOf
    <3>4. e.base = s /\ e.size = n
      BY <3>1, <3>2, <3>3, SlotOf, UniformFacts
    <3>5. p \in PagesOf(e)
      BY <1>0, <2>1, <2>2, <3>4 DEF PagesOf
    <3> QED
      BY <1>1, <3>2, <3>5
  <2>6. IsFree(d)
    BY <2>3, <2>4, <2>5 DEF IsFree
  <2>7. b.base <= s
    BY <2>4, <2>6
  <2> QED
    BY <1>0, <2>1, <2>2, <2>7, SlotFacts
<1>2. b.base \in PagesOf(b) /\ b.base \notin pages
  BY <1>0 DEF PagesOf, IsFree
<1>3. b.base \in Slots(n)
  BY <1>0, <1>1, <1>2
<1>4. ASSUME NEW p \in 0..(b.base - 1) PROVE p \in pages
  BY <1>0, <1>1, <1>4
<1> QED
  BY <1>3, <1>4

\* The entries that cover the heap come in the order of its pages.
LEMMA IndexOrder ==
    ASSUME NEW p \in Nat
    PROVE  /\ L2Index(p) \in Nat
           /\ PagesPerTable * L2Index(p) <= p + HeapOffset
           /\ p > 0 => L2Index(p) <= L2Index(p - 1) + 1
<1> DEFINE k == PagesPerTable
           q == p + HeapOffset
<1>0. k \in Nat \ {0} /\ q \in Nat /\ HeapOffset \in Nat
  BY MemoryAssumption
<1>1. q \div k \in Nat /\ (q \div k) * k <= q
  BY <1>0, Division
<1>2. ASSUME p > 0 PROVE q \div k <= (q - 1) \div k + 1
  <2> DEFINE a == q \div k
             b == (q - 1) \div k
  <2>1. q - 1 \in Nat
    BY <1>0, <1>2
  <2>2. a \in Nat /\ b \in Nat /\ a * k <= q /\ q - 1 < b * k + k
    BY <1>0, <2>1, Division
  <2> HIDE DEF a, b, q, k
  <2>3. ASSUME b + 1 < a PROVE FALSE
    <3>1. (b + 1) * k + k <= a * k
      BY <1>0, <2>2, <2>3, ProductOrder
    <3>2. (b + 1) * k = b * k + k
      BY <1>0, <2>2
    <3>3. a * k \in Nat /\ b * k \in Nat
      BY <1>0, <2>2
    <3> QED
      BY <1>0, <2>2, <3>1, <3>2, <3>3
  <2>4. a <= b + 1
    BY <2>2, <2>3
  <2> QED
    BY <2>4 DEF a, b
<1>3. L2Index(p) = q \div k /\ (p > 0 => L2Index(p - 1) = (q - 1) \div k)
  BY <1>0 DEF L2Index
<1> HIDE DEF q, k
<1>4. k * (q \div k) = (q \div k) * k
  BY <1>0, <1>1
<1> QED
  BY <1>1, <1>2, <1>3, <1>4 DEF q, k

LEMMA UniformAllocate ==
    ASSUME NEW n, Sizes = {n}, IInv, UniformInv(n), Allocate(n)
    PROVE  UniformInv(n)'
<1>1. PICK b \in Blocks : /\ b.size = n /\ IsFree(b)
                         /\ \A d \in Blocks : d.size = n /\ IsFree(d) => b.base <= d.base
                         /\ pages' = pages \cup PagesOf(b)
                         /\ block' = b
  BY DEF Allocate
<1>2. b.base \in Slots(n) /\ 0..(b.base - 1) \subseteq pages
  BY <1>1, FirstFit DEF Allocate
<1>3. pages \subseteq Heap(held)
  BY DEF Allocate, UniformInv
<1> QED
  BY <1>1, <1>2, <1>3 DEF Allocate, UniformInv, Heap

\* A slot of the heap with a page in use is a held block, while no call is
\* under way.
LEMMA SlotInUse ==
    ASSUME NEW n, Sizes = {n}, IInv, UniformInv(n), NEW s \in Slots(n),
           NEW p \in Heap(held), s <= p, p < s + n
    PROVE  \E b \in held : b.base = s
<1>1. PICK b \in held : p \in PagesOf(b)
  BY DEF Heap
<1>2. b \in Blocks /\ b.base \in Slots(n)
  BY DEF IInv, TypeOK, UniformInv
<1> QED
  BY <1>1, <1>2, SlotOf

\* The search fails only where the held blocks leave no room for another.
LEMMA UniformFail ==
    ASSUME NEW n, Sizes = {n}, IInv, UniformInv(n), AllocateFails(n)
    PROVE  UniformInv(n)'
<1>0. /\ n \in Nat \ {0} /\ MAX_PAGES \in Nat
      /\ held \subseteq Blocks /\ Cardinality(held) \in Nat
  BY UniformFacts, HeldFinite, MemoryAssumption DEF IInv, TypeOK
<1> DEFINE c == Cardinality(held)
<1>1. ASSUME ~((c + 1) * n > MAX_PAGES) PROVE FALSE
  <2> HIDE DEF c
  <2>0. c \in Nat
    BY <1>0 DEF c
  <2>1. ASSUME NEW j \in 0..((c + 1) - 1) PROVE \E b \in held : b.base = j * n
    <3>1. j \in Nat /\ j < c + 1 /\ j * n \in Nat /\ (c + 1) * n \in Nat
      BY <1>0, <2>0
    <3>2. j * n + n <= (c + 1) * n
      BY <1>0, <2>0, <3>1, ProductOrder
    <3>3. j * n \in Slots(n)
      BY <3>1 DEF Slots
    <3> DEFINE s == j * n
               d == [base |-> s, size |-> n]
    <3> HIDE DEF s
    <3>4. s \in Nat /\ s + n <= MAX_PAGES
      BY <1>0, <1>1, <3>1, <3>2 DEF s
    <3>5. d \in Blocks /\ d.size = n /\ d.base = s
      BY <1>0, <3>4 DEF Blocks, Pages
    <3>6. PagesOf(d) \cap pages # {}
      BY <3>4, <3>5 DEF AllocateFails, IsFree
    <3>7. PICK p \in PagesOf(d) : p \in Heap(held)
      BY <3>6 DEF AllocateFails, UniformInv
    <3>8. s <= p /\ p < s + n
      BY <1>0, <3>4 DEF PagesOf
    <3> QED
      BY <3>3, <3>7, <3>8, SlotInUse DEF s
  <2>2. c + 1 <= Cardinality(held)
    <3> DEFINE m == c + 1
    <3>1. m \in Nat /\ \A j \in 0..(m - 1) : \E b \in held : b.base = j * n
      BY <2>0, <2>1
    <3> HIDE DEF m
    <3>2. m <= Cardinality(held)
      BY <1>0, <3>1, SlotCount
    <3> QED
      BY <3>2 DEF m
  <2> QED
    BY <2>0, <2>2 DEF c
<1> HIDE DEF c
<1> QED
  BY <1>1 DEF AllocateFails, UniformInv, Heap, c

LEMMA UniformMap ==
    ASSUME NEW n, Sizes = {n}, IInv, UniformInv(n), MapPage
    PROVE  UniformInv(n)'
<1>1. i \in Pages /\ block \in Blocks /\ i \in PagesOf(block)
  BY DEF MapPage, IInv, BlockInv
<1>2. tables' = 0..pool_ptr'
  <2>1. CASE UNCHANGED <<tables, pool_ptr>>
    BY <2>1 DEF UniformInv
  <2>2. CASE L2Index(i) \notin tables /\ tables' = tables \cup {L2Index(i)}
                /\ pool_ptr' = pool_ptr + 1
    <3>0. i \in Nat /\ pool_ptr \in Nat /\ tables = 0..pool_ptr
      BY <1>1, MemoryAssumption DEF IInv, TypeOK, UniformInv, Pages
    <3>1. i > 0
      <4>1. L2Index(0) = 0
        BY MemoryAssumption DEF L2Index
      <4> QED
        BY <2>2, <3>0, <4>1
    <3>2. i - 1 \in mapped
      <4>1. CASE i = block.base
        <5>1. i - 1 \in pages /\ i - 1 \notin PagesOf(block)
          BY <3>0, <3>1, <4>1 DEF UniformInv, MapPage, PagesOf
        <5>2. i - 1 \in Heap(held)
          BY <5>1 DEF UniformInv
        <5> QED
          BY <5>2 DEF Heap, IInv, HeldInv
      <4>2. CASE i # block.base
        <5>1. block.base \in Nat /\ block.base <= i
          BY <1>1, BlockFacts DEF PagesOf
        <5>2. i - 1 \in block.base..(i - 1)
          BY <3>0, <4>2, <5>1
        <5> QED
          BY <5>2 DEF MapPage, IInv, BlockInv
      <4> QED
        BY <4>1, <4>2
    <3>3. L2Index(i - 1) \in 0..pool_ptr
      BY <3>0, <3>2 DEF IInv, TableInv
    <3>4. L2Index(i) \in Nat /\ L2Index(i) <= L2Index(i - 1) + 1
      BY <3>0, <3>1, IndexOrder
    <3>5. L2Index(i) = pool_ptr + 1
      BY <2>2, <3>0, <3>3, <3>4
    <3> QED
      BY <2>2, <3>0, <3>5
  <2> QED
    BY <2>1, <2>2 DEF MapPage
<1> QED
  BY <1>2 DEF MapPage, UniformInv, Heap

\* The pool is empty only where the held blocks reach past its last table.
LEMMA UniformPoolEmpty ==
    ASSUME NEW n, Sizes = {n}, IInv, UniformInv(n), PoolEmpty
    PROVE  UniformInv(n)'
<1>0. /\ n \in Nat \ {0} /\ held \subseteq Blocks /\ Cardinality(held) \in Nat
      /\ i \in Nat /\ block \in Blocks /\ block.size = n /\ i \in PagesOf(block)
  <2>1. held \subseteq Blocks /\ block \in Blocks /\ i \in Nat /\ i \in PagesOf(block)
    BY MemoryAssumption DEF IInv, TypeOK, PoolEmpty, BlockInv, Pages
  <2> QED
    BY <2>1, UniformFacts, HeldFinite
<1>1. PICK k \in Nat : block.base = k * n
  BY DEF UniformInv, Slots
<1>2. ASSUME NEW j \in 0..(k - 1) PROVE \E b \in held : b.base = j * n
  <2>1. j \in Nat /\ j < k /\ j * n \in Nat /\ k * n \in Nat
    BY <1>0
  <2>2. j * n + n <= k * n
    BY <1>0, <2>1, ProductOrder
  <2>3. j * n \in pages /\ j * n \notin PagesOf(block)
    BY <1>0, <1>1, <2>1, <2>2 DEF UniformInv, PoolEmpty, PagesOf
  <2>4. j * n \in Heap(held)
    BY <2>3 DEF UniformInv
  <2>5. j * n \in Slots(n)
    BY <2>1 DEF Slots
  <2> QED
    BY <1>0, <2>1, <2>4, <2>5, SlotInUse
<1> DEFINE c == Cardinality(held)
<1>3. k <= c
  BY <1>0, <1>2, SlotCount
<1>4. i < (c + 1) * n
  <2>1. k * n + n <= (c + 1) * n
    BY <1>0, <1>3, ProductOrder
  <2>2. i < k * n + n /\ k * n \in Nat /\ (c + 1) * n \in Nat
    BY <1>0, <1>1 DEF PagesOf
  <2> QED
    BY <1>0, <2>1, <2>2
<1>5. PagesPerTable * (Pool + 1) <= i + HeapOffset
  <2>1. L2Index(i) \in Nat /\ PagesPerTable * L2Index(i) <= i + HeapOffset
    BY <1>0, IndexOrder
  <2>2. L2Index(i) > Pool
    BY <1>0, <2>1, MemoryAssumption DEF PoolEmpty, UniformInv
  <2>3. PagesPerTable * (Pool + 1) <= PagesPerTable * L2Index(i)
    <3>1. CASE Pool + 1 = L2Index(i)
      BY <2>1, <3>1, MemoryAssumption
    <3>2. CASE Pool + 1 < L2Index(i)
      <4>1. (Pool + 1) * PagesPerTable + PagesPerTable <= L2Index(i) * PagesPerTable
        BY <2>1, <3>2, MemoryAssumption, ProductOrder
      <4> QED
        BY <2>1, <4>1, MemoryAssumption
    <3> QED
      BY <2>1, <2>2, <3>1, <3>2, MemoryAssumption
  <2> QED
    BY <1>0, <2>1, <2>3, MemoryAssumption
<1>6. (c + 1) * n + HeapOffset > PagesPerTable * (Pool + 1)
  <2>1. (c + 1) * n \in Nat /\ HeapOffset \in Nat /\ PagesPerTable * (Pool + 1) \in Nat
    BY <1>0, MemoryAssumption
  <2> QED
    BY <1>0, <1>4, <1>5, <2>1
<1> HIDE DEF c
<1> QED
  BY <1>6 DEF PoolEmpty, UniformInv, Heap, c

LEMMA UniformStep ==
    ASSUME NEW n, Sizes = {n}
    PROVE  IInv /\ UniformInv(n) /\ [Next]_vars => UniformInv(n)'
<1> SUFFICES ASSUME IInv, UniformInv(n), [Next]_vars PROVE UniformInv(n)'
  OBVIOUS
<1>1. CASE \E m \in Sizes : Allocate(m) \/ AllocateFails(m)
  BY <1>1, UniformAllocate, UniformFail
<1>2. CASE MapPage
  BY <1>2, UniformMap
<1>3. CASE PoolEmpty
  BY <1>3, UniformPoolEmpty
<1>4. CASE AllocateReturns
  BY <1>4 DEF AllocateReturns, UniformInv, Heap
<1>5. ASSUME NEW b \in held, Free(b) PROVE UniformInv(n)'
  BY <1>5 DEF Free, UniformInv, Heap
<1>6. CASE UnmapPage \/ Unmapped \/ FlushPage \/ FreeReturns \/ UNCHANGED vars
            \/ \E c \in Cores : Walk(c)
  BY <1>6 DEF UnmapPage, Unmapped, FlushPage, FreeReturns, Walk, op, vars,
              UniformInv, Heap
<1> QED
  BY <1>1, <1>2, <1>3, <1>4, <1>5, <1>6 DEF Next, Step

\* create_task() does not test what mm_allocate_pages() returns, nor does
\* map_page_virtual() what allocate_table() does.  As long as every block is of
\* one size, as every stack is, no call fails but for want of memory: while the
\* blocks held and one more fit into the heap and into what the pool's tables
\* map, whatever the order in which they were allocated and freed.
THEOREM StacksNeverFail ==
    ASSUME NEW n, Sizes = {n}
    PROVE  Spec => [](/\ (Cardinality(held) + 1) * n <= MAX_PAGES
                      /\ (Cardinality(held) + 1) * n + HeapOffset
                             <= PagesPerTable * (Pool + 1)
                      => pc \notin {"null", "fault"})
<1> DEFINE Fits == /\ (Cardinality(held) + 1) * n <= MAX_PAGES
                   /\ (Cardinality(held) + 1) * n + HeapOffset
                          <= PagesPerTable * (Pool + 1)
                   => pc \notin {"null", "fault"}
<1>1. Init => UniformInv(n)
  BY UniformInit
<1>2. IInv /\ UniformInv(n) => Fits
  <2>1. ASSUME IInv PROVE /\ n \in Nat /\ Cardinality(held) \in Nat
                          /\ MAX_PAGES \in Nat /\ HeapOffset \in Nat
                          /\ PagesPerTable \in Nat /\ Pool \in Nat
    BY <2>1, HeldFinite, UniformFacts, MemoryAssumption DEF IInv, TypeOK
  <2> QED
    BY <2>1 DEF UniformInv
<1> HIDE DEF Fits
<1>3. Spec => []Fits
  BY <1>1, <1>2, UniformStep, InvAlways, PTL DEF Spec
<1> QED
  BY <1>3 DEF Fits

=============================================================================
