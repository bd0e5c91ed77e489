\* Three CPUs, two calls after each other; the longest ranges give
\* the BSP a second chunk.
SPECIFICATION MpFairSpec
CONSTANTS
    NumOfCpus = 3
    Big = 3
    ChunkSize = 6
    AcceptPageSize = 3
    Starts = {0, 1}
    Ends = {3, 8, 22}
    Faults = {4, 10}
    Larges = {1}
    Ranges <- MCRanges
    SeptStates <- MCSeptStates
    AcceptArgs <- MCArgs
    AssertsEnabled = TRUE
    NoArgs = NoArgs
    ApLoopFunc = 7
    RelocatedMailBox = RelocatedMailBox
    SilentCalls = FALSE
    MaxCalls = 2
INVARIANTS
    MpTypeOK
    AcceptedOnSuccess
    OneOwner
PROPERTIES
    NothingBeyondRange
    MpCallsReturn
