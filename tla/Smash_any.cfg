SPECIFICATION Spec
CONSTANTS
    Pids = {2, 3}
    MaxJobId = 3
    UnseenStops = TRUE
CHECK_DEADLOCK FALSE
INVARIANTS TypeOK JobsAreChildren ChildIsNew OneEntryPerChild
PROPERTIES NamedInTime
