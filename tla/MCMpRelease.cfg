\* RELEASE build: ASSERT is compiled out.
SPECIFICATION MpSpec
CONSTANTS
    NumOfCpus = 2
    Big = 3
    ChunkSize = 6
    AcceptPageSize = 3
    Starts = {1}
    Ends = {13}
    Faults = {4}
    Larges = {}
    Ranges <- MCRanges
    SeptStates <- MCSeptStates
    AcceptArgs <- MCArgs
    AssertsEnabled = FALSE
    NoArgs = NoArgs
    ApLoopFunc = 7
    RelocatedMailBox = RelocatedMailBox
    SilentCalls = FALSE
    MaxCalls = 1
INVARIANTS
    AcceptedOnSuccess
