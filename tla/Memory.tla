-------------------------------- MODULE Memory --------------------------------
(***************************************************************************)
(* The page allocator (src/src/kernel/kernel_mm.c) with the part of the    *)
(* kernel's page tables it changes (kernel_mmu.c): the pages of the heap,  *)
(* the second-level table entries that cover them, the pool that tables    *)
(* are taken from, and the translations that the cores cache.              *)
(*                                                                         *)
(* Both operations run under sched_lock (create_task(), reaper_service()), *)
(* one at a time, but every write to a table entry and every TLB flush is  *)
(* a step, between which any core may cache any translation there is.  A   *)
(* page is always mapped to itself, so that an entry is valid or not.      *)
(***************************************************************************)
EXTENDS Integers, FiniteSets

CONSTANTS
    Cores,
    MAX_PAGES,      \* pages of the heap
    Sizes,          \* block sizes that callers ask for
    PagesPerTable,  \* 512: the pages that one second-level entry covers
    HeapOffset,     \* where _heap_begin is in the first of those
    Pool            \* tables left in page_pool[] after kernel_setup_mmu() and
                    \* virtio_blk_init()

ASSUME MemoryAssumption ==
    /\ MAX_PAGES \in Nat \ {0}
    /\ Sizes \subseteq 1..MAX_PAGES
    /\ PagesPerTable \in Nat \ {0}
    /\ HeapOffset \in 0..(PagesPerTable - 1)
    /\ Pool \in Nat

Pages == 0..(MAX_PAGES - 1)

\* The second-level entry that covers page p, and all that cover the heap.
\* The first one also covers the end of the kernel's stacks.
L2Index(p) == (p + HeapOffset) \div PagesPerTable
L2Indices  == {L2Index(p) : p \in Pages}

Blocks == [base : Pages, size : Sizes]
PagesOf(b) == b.base..(b.base + b.size - 1)
NoBlock == [base |-> 0, size |-> 0]

VARIABLES
    pages,     \* pages[]: those that are 1
    held,      \* the blocks that callers were given and have not freed
    tables,    \* the second-level entries that are valid
    pool_ptr,  \* tables taken from the pool since virtio_blk_init()
    mapped,    \* the pages whose third-level entry is valid
    tlb,       \* [Cores -> SUBSET Pages]  cached translations
    pc,        \* where the operation under sched_lock is
    block,     \* the block it is about
    i          \* the next page of its loop

op   == <<pc, block, i>>
vars == <<pages, held, tables, pool_ptr, mapped, tlb, pc, block, i>>

Pcs == {"idle", "map", "unmap", "flush", "null", "fault"}

Init ==
    /\ pages = {}
    /\ held = {}
    /\ tables = {L2Index(0)}
    /\ pool_ptr = 0
    /\ mapped = {}
    /\ tlb = [c \in Cores |-> {}]
    /\ pc = "idle"
    /\ block = NoBlock
    /\ i = 0

\* A core walks the tables, for an access or ahead of one.
Walk(c) ==
    /\ \E p \in mapped : tlb' = [tlb EXCEPT ![c] = @ \cup {p}]
    /\ UNCHANGED <<pages, held, tables, pool_ptr, mapped, op>>

-----------------------------------------------------------------------------
(* mm_allocate_pages().                                                     *)

IsFreeButLast(b) ==                                      \* mutant
    b.base + b.size <= MAX_PAGES /\ (PagesOf(b) \ {b.base + b.size - 1}) \cap pages = {}

IsFreePastEnd(b) ==                                      \* mutant
    b.base + b.size <= MAX_PAGES + 1 /\ PagesOf(b) \cap pages = {}

\* The test of the search, for one position.
IsFree(b) == b.base + b.size <= MAX_PAGES /\ PagesOf(b) \cap pages = {}

\* The first fit is marked, before it is mapped.
Allocate(n) ==
    /\ pc = "idle"
    /\ \E b \in Blocks :
          /\ b.size = n /\ IsFree(b)
          /\ \A d \in Blocks : d.size = n /\ IsFree(d) => b.base <= d.base
          /\ pages' = pages \cup PagesOf(b)
          /\ block' = b
          /\ i' = b.base
    /\ pc' = "map"
    /\ UNCHANGED <<held, tables, pool_ptr, mapped, tlb>>

\* No block is found, and create_task() clears the memory at address 0.
AllocateFails(n) ==
    /\ pc = "idle"
    /\ \A b \in Blocks : b.size = n => ~IsFree(b)
    /\ pc' = "null"
    /\ UNCHANGED <<pages, held, tables, pool_ptr, mapped, tlb, block, i>>

MapPageNewTable ==                                       \* mutant
    /\ pc = "map" /\ i \in PagesOf(block)
    /\ pool_ptr < Pool
    /\ tables' = tables \cup {L2Index(i)}
    /\ pool_ptr' = pool_ptr + 1
    /\ mapped' = mapped \cup {i}
    /\ i' = i + 1
    /\ UNCHANGED <<pages, held, tlb, pc, block>>

\* map_page_virtual(): a missing table comes from the pool.
MapPage ==
    /\ pc = "map" /\ i \in PagesOf(block)
    /\ \/ L2Index(i) \in tables /\ UNCHANGED <<tables, pool_ptr>>
       \/ /\ L2Index(i) \notin tables /\ pool_ptr < Pool
          /\ tables' = tables \cup {L2Index(i)}
          /\ pool_ptr' = pool_ptr + 1
    /\ mapped' = mapped \cup {i}
    /\ i' = i + 1
    /\ UNCHANGED <<pages, held, tlb, pc, block>>

\* allocate_table() returns 0: the write through it is to address 0.
PoolEmpty ==
    /\ pc = "map" /\ i \in PagesOf(block)
    /\ L2Index(i) \notin tables /\ pool_ptr = Pool
    /\ pc' = "fault"
    /\ UNCHANGED <<pages, held, tables, pool_ptr, mapped, tlb, block, i>>

AllocateReturns ==
    /\ pc = "map" /\ i \notin PagesOf(block)
    /\ held' = held \cup {block}
    /\ pc' = "idle"
    /\ UNCHANGED <<pages, tables, pool_ptr, mapped, tlb, block, i>>

-----------------------------------------------------------------------------
(* mm_free_pages().                                                         *)

\* The pages of b, which its holder gives back whole, are marked free ...
Free(b) ==
    /\ pc = "idle"
    /\ held' = held \ {b}
    /\ pages' = pages \ PagesOf(b)
    /\ block' = b
    /\ i' = b.base
    /\ pc' = "unmap"
    /\ UNCHANGED <<tables, pool_ptr, mapped, tlb>>

UnmapPageAndNext ==                                      \* mutant
    /\ pc = "unmap" /\ i \in PagesOf(block)
    /\ mapped' = mapped \ {i, i + 1}
    /\ i' = i + 1
    /\ UNCHANGED <<pages, held, tables, pool_ptr, tlb, pc, block>>

\* ... unmapped one by one ...
UnmapPage ==
    /\ pc = "unmap" /\ i \in PagesOf(block)
    /\ mapped' = mapped \ {i}
    /\ i' = i + 1
    /\ UNCHANGED <<pages, held, tables, pool_ptr, tlb, pc, block>>

Unmapped ==
    /\ pc = "unmap" /\ i \notin PagesOf(block)
    /\ i' = block.base
    /\ pc' = "flush"
    /\ UNCHANGED <<pages, held, tables, pool_ptr, mapped, tlb, block>>

FlushPageLocal ==                                        \* mutant
    /\ pc = "flush" /\ i \in PagesOf(block)
    /\ \E c \in Cores : tlb' = [tlb EXCEPT ![c] = @ \ {i}]
    /\ i' = i + 1
    /\ UNCHANGED <<pages, held, tables, pool_ptr, mapped, pc, block>>

\* ... and then flushed from the TLBs of all cores, one by one.
FlushPage ==
    /\ pc = "flush" /\ i \in PagesOf(block)
    /\ tlb' = [c \in Cores |-> tlb[c] \ {i}]
    /\ i' = i + 1
    /\ UNCHANGED <<pages, held, tables, pool_ptr, mapped, pc, block>>

FreeReturns ==
    /\ pc = "flush" /\ i \notin PagesOf(block)
    /\ pc' = "idle"
    /\ UNCHANGED <<pages, held, tables, pool_ptr, mapped, tlb, block, i>>

-----------------------------------------------------------------------------
Step == \/ \E n \in Sizes : Allocate(n) \/ AllocateFails(n)
        \/ MapPage \/ PoolEmpty \/ AllocateReturns
        \/ \E b \in held : Free(b)
        \/ UnmapPage \/ Unmapped \/ FlushPage \/ FreeReturns

Next == Step \/ \E c \in Cores : Walk(c)

Spec == Init /\ [][Next]_vars

-----------------------------------------------------------------------------
(* Properties.                                                              *)

\* Types: the loops stay inside the heap and the tables inside the pool.
TypeOK ==
    /\ pages \subseteq Pages
    /\ held \subseteq Blocks
    /\ tables \subseteq L2Indices
    /\ pool_ptr \in 0..Pool
    /\ mapped \subseteq Pages
    /\ tlb \in [Cores -> SUBSET Pages]
    /\ pc \in Pcs
    /\ block \in Blocks \cup {NoBlock}
    /\ i \in 0..MAX_PAGES

\* The allocator keeps the promise of PageStore, in every sequence of calls
\* that fragments the heap.
Promise == INSTANCE PageStore WITH Blocks <- Blocks, held <- held
KeepsPromise == Promise!Spec

Heap(bs) == UNION {PagesOf(b) : b \in bs}

\* The stack that a task runs on stays mapped, whatever is allocated and freed
\* next to it, and so do the tables above it.
HeldMapped ==
    \A p \in Heap(held) : p \in mapped /\ L2Index(p) \in tables

\* Once mm_free_pages() has returned no core reaches the freed pages, also
\* through a translation it cached while they were being freed; a page that is
\* handed out again is therefore nobody else's.
NotReachedOnceFree ==
    pc \notin {"unmap", "flush"} =>
        mapped \subseteq pages /\ \A c \in Cores : tlb[c] \subseteq pages

\* The pool gives one table for each second-level entry of the heap and none
\* twice, so that allocating and freeing for ever does not exhaust it; it is
\* found empty only where the heap spans more entries than it has tables.
PoolNotLeaked ==
    /\ pool_ptr = Cardinality(tables) - 1
    /\ pc = "fault" => Cardinality(L2Indices) > Pool + 1

=============================================================================
