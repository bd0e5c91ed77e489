CONSTANTS
    NumPages = 8
    Size2M = 2
    Per1G = 2
    Layouts <- MCLayouts
    Regions <- MCRegions
    PoolBase <- MCPoolBase
    WpEnabled = TRUE
    AssertsEnabled = TRUE
    RefuseMany = FALSE
    Preemptive = TRUE
SPECIFICATION Spec
INVARIANTS TypeOK Coherent SuccessMeansDone GpaAgrees
PROPERTIES OnlyTheRegion Returns
CHECK_DEADLOCK FALSE
