\* The call for one HOB fails and a later one succeeds.
SPECIFICATION Spec
CONSTANTS
    EfiPageSize = 2
    Megabyte = 4
    Base4GB = 16
    Unlimited = 1000
    HobLists <- MCHobLists
    PartialSizes = {0, 1, 2}
    LoaderSizes = {0, 1, 7}
INVARIANTS
    NoFailureIsMasked
