CONSTANTS
    Laml <- MCLaml
    FinalLaml <- MCFinalLaml
    CallerMr = {1, 4}
    MaxCalls = 6
    MaxServed = 1
    MaxFaults = 1
SPECIFICATION Spec
INVARIANTS TypeOK LogAccounts LogOrder FinalIsTail
CHECK_DEADLOCK FALSE
