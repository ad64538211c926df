SPECIFICATION Spec
CONSTANTS
    Pids = {11, 12}
    MaxJobId = 3
    UnseenStops = FALSE
PROPERTY BgContinuesLastStopped
