------------------------------ MODULE PageStore ------------------------------
(***************************************************************************)
(* What mm_allocate_pages() and mm_free_pages() of kernel_mm.c promise to  *)
(* their callers: a block that is handed out shares no page with one that  *)
(* is still held, and only its holder gives it back.                       *)
(***************************************************************************)
EXTENDS Integers

CONSTANTS Blocks  \* a set of records with the fields base and size

VARIABLE held

Extent(b) == b.base..(b.base + b.size - 1)

Init == held = {}

Give(b) ==
    /\ \A d \in held : Extent(b) \cap Extent(d) = {}
    /\ held' = held \cup {b}

TakeBack(b) ==
    /\ b \in held
    /\ held' = held \ {b}

Next == \E b \in Blocks : Give(b) \/ TakeBack(b)

Spec == Init /\ [][Next]_held

=============================================================================
