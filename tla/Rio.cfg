SPECIFICATION RioFairSpec
CONSTANTS
    RIO_BUFSIZE = 3
    Length = 5
    MaxLens = {2, 4}
    Ns = {0, 3}
    MaxIntr = 1
INVARIANTS RioTypeOK InOrder FitsBuffer
PROPERTIES ImplementsReader CallEnds
