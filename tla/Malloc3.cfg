SPECIFICATION Spec
CONSTANTS
    META = 2
    MAX_SIZE = 9
    HIST_SIZE = 2
    KILOBYTE = 4
    SPLIT = 2
    Limit = 18
    Maps = 1
    Base = 2
    Alignments = {1, 2}
    Word = 32
    Requests = {0, 1, 2, 4, 8}
    Counts = {1, 2, 17}
INVARIANTS TypeOK BlocksApart HistogramIsFreeBlocks Coalesced HeldAreUsed CountersAgree
CHECK_DEADLOCK FALSE
