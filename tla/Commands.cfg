SPECIFICATION FairSpec
CONSTANTS
    Pids = {1, 2, 3}
    Dirs = {"a", "b"}
    Home = "a"
    MaxFd = 8
    Session = 6
INVARIANTS TypeOK PromptIsClean BackIsPrevious
PROPERTIES WaitsEnd
CHECK_DEADLOCK FALSE
