SPECIFICATION Spec
CONSTANTS
    META = 2
    MAX_SIZE = 9
    HIST_SIZE = 2
    KILOBYTE = 4
    SPLIT = 2
    Limit = 16
    Maps = 0
    Base = 2
    Alignments = {1}
    Word = 32
    Requests = {0, 1, 2, 4, 8}
    Counts = {1, 2, 17}
INVARIANTS BucketsOfferFreeBlocks
CHECK_DEADLOCK FALSE
