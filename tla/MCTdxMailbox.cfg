\* Four CPUs, up to two calls before the hand over.
SPECIFICATION FairSpec
CONSTANTS
    NumOfCpus = 4
    a1 = a1
    a2 = a2
    AcceptArgs <- MCAcceptArgs
    NoArgs = NoArgs
    ApLoopFunc = 7
    RelocatedMailBox = RelocatedMailBox
    SilentCalls = FALSE
    MaxCalls = 2
INVARIANTS
    TypeOK
    ArgsStableDuringAccept
    JumpsToRelocatedLoop
    BarrierCounts
    PhaseInv
PROPERTIES
    ImplementsForkJoin
    CallsReturn
    ApsRelocate
