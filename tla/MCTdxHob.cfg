\* All lists of up to three HOBs, calls may fail.
SPECIFICATION Spec
CONSTANTS
    EfiPageSize = 2
    Megabyte = 4
    Base4GB = 16
    Unlimited = 1000
    HobLists <- MCHobLists
    PartialSizes = {0, 1, 2}
    LoaderSizes = {0, 1, 7}
INVARIANTS
    TypeOK
    ReportedIsAccepted
    MemoryIsPreserved
    CallsAreWholePages
    HobListInAcceptedMemory
