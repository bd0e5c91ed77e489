CONSTANTS
    NumPages = 6
    Top4G = 3
    Dac = {"timer"}
    HostPage <- MCHostPage
    Mapping = {m1, m2}
    ListHead = listHead
    Data = {zero, data}
    Zero = zero
    Junk = junk
    AfterRace = FALSE
SPECIFICATION Spec
INVARIANTS TypeOK SharedIsMapped PagesAccounted DmaStaysValid ListIsMappings
PROPERTIES ImplementsDma TearsDown HaltedFirst MapKeyStaysValid
CHECK_DEADLOCK FALSE
