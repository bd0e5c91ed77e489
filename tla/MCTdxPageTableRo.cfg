CONSTANTS
    NumPages = 8
    Size2M = 2
    Per1G = 2
    Layouts <- MCLayoutsTwos
    Regions <- MCRegionsPool
    PoolBase <- MCPoolBase
    WpEnabled = TRUE
    AssertsEnabled = TRUE
    RefuseMany = FALSE
    Preemptive = FALSE
SPECIFICATION Spec
INVARIANTS PoolsReadOnly
CHECK_DEADLOCK FALSE
