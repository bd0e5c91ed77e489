\* A range with no part for the APs. All CPUs spin in the end, which TLC would
\* report as a deadlock first.
SPECIFICATION MpFairSpec
CONSTANTS
    NumOfCpus = 2
    Big = 3
    ChunkSize = 6
    AcceptPageSize = 3
    Starts = {1}
    Ends = {5}
    Faults = {}
    Larges = {}
    Ranges <- MCSilentRanges
    SeptStates <- MCSeptStates
    AcceptArgs <- MCSilentArgs
    AssertsEnabled = TRUE
    NoArgs = NoArgs
    ApLoopFunc = 7
    RelocatedMailBox = RelocatedMailBox
    SilentCalls = TRUE
    MaxCalls = 1
PROPERTIES
    MpCallsReturn
CHECK_DEADLOCK FALSE
