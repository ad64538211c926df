SPECIFICATION FairSpec
CONSTANTS
    Clients = {c1, c2}
    Programs = {c2}
    MaxHeaders = 1
PROPERTIES RepeatedlyHandles
