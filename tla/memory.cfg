SPECIFICATION Spec
CONSTANTS
    Cores = {c0, c1}
    MAX_PAGES = 6
    Sizes <- SizesHere
    PagesPerTable = 2
    HeapOffset = 1
    Pool = 2
SYMMETRY CoreSymmetry
INVARIANTS
    TypeOK
    HeldMapped
    NotReachedOnceFree
    PoolNotLeaked
PROPERTIES
    KeepsPromise
CHECK_DEADLOCK FALSE
