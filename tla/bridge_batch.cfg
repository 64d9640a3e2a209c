SPECIFICATION Spec
CONSTANTS
    read = read
    delete = delete
    Tools <- MCTools
    Safe <- MCSafe
    Capped <- MCCapped
    NumCalls = 3
    Cap = 1
    MaxToolCalls = 2
    MaxOutput = 3
    Parts = 2
    Room = 2
INVARIANTS
    BatchedCallsOwn
CHECK_DEADLOCK FALSE
