CONSTANTS
    NumPages = 6
    Top4G = 3
    Dac = {"timer"}
    HostPage <- MCHostPage
    Mapping = {m1, m2}
    ListHead = listHead
    Data = {zero, data}
    Zero = zero
    Junk = junk
    AfterRace = TRUE
SPECIFICATION Spec
INVARIANT MapInfosIsFull
CHECK_DEADLOCK FALSE
