SPECIFICATION Spec
CONSTANTS
    META = 1
    MAX_SIZE = 3
    Word = 16
    Limit = 8
    Requests = {0, 1, 2, 3, 4}
    Counts = {0, 1, 2}
    Bytes = {0, 1}
INVARIANTS TypeOK NoOverlap Ledger CountersAgree
PROPERTIES ImplementsHeap
