SPECIFICATION FairSpec
CONSTANTS
    Pids = {11, 12, 13}
    MaxJobId = 5
INVARIANTS TypeOK StrictlySorted
PROPERTIES ImplementsTable LoopTerminates
