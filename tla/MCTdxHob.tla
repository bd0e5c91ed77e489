------------------------------- MODULE MCTdxHob -------------------------------
(***************************************************************************)
(* TdxHob with pages of two bytes, megabytes of two pages, and 4GB at 16:  *)
(* all lists of up to three different HOBs.                                *)
(***************************************************************************)
EXTENDS TdxHob

SystemMemory(s, n) ==
    [type |-> "Resource", resource |-> "SystemMemory", start |-> s, length |-> n, ok |-> TRUE]
Unaccepted(s, n) ==
    [type |-> "Resource", resource |-> "Unaccepted", start |-> s, length |-> n, ok |-> TRUE]
Io(s, n) ==
    [type |-> "Resource", resource |-> "Io", start |-> s, length |-> n, ok |-> TRUE]
Other(type, ok) ==
    [type |-> type, resource |-> "None", start |-> 0, length |-> 0, ok |-> ok]

(* Low memory, memory that ends at 4GB, across it and above it, memory the *)
(* VMM calls unaccepted, half a page and nothing.                          *)
Hobs == {SystemMemory(0, 4), SystemMemory(4, 12), SystemMemory(16, 6),
         SystemMemory(22, 10), Unaccepted(32, 4), SystemMemory(36, 3),
         SystemMemory(40, 0), Io(42, 2), Other("Guid", TRUE),
         Other("Handoff", FALSE), Other("MemoryAllocation", TRUE)}

MCHobLists ==
    {l \in UNION {[1 .. n -> Hobs] : n \in 0 .. 3} :
        \A i, j \in DOMAIN l : i # j => l[i] # l[j]}
=============================================================================
