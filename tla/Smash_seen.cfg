SPECIFICATION FairSpec
CONSTANTS
    Pids = {11, 12}
    MaxJobId = 3
    UnseenStops = FALSE
INVARIANTS NoLostChild StoppedIsMarked NoStuckWait QuitKillReachesAll
PROPERTIES KeysReturnPrompt
