------------------------------ MODULE MCMpAccept ------------------------------
(***************************************************************************)
(* MpAccept on a small machine: a 2MB page is three 4KB pages and a chunk  *)
(* is two 2MB pages; the ranges are those between Starts and Ends.         *)
(***************************************************************************)
EXTENDS MpAccept

CONSTANTS
    Starts,     \* first pages of the ranges
    Ends,       \* first pages after the ranges
    Faults,     \* pages that may fail to be accepted
    Larges      \* 2MB pages that may be mapped as such, all or none or one

AllRanges == {[start |-> s, end |-> e] : s \in Starts, e \in Ends}

(* Ranges with a part for the APs: with the others the call does not       *)
(* return when there are APs (see run mp_silent).                          *)
MCRanges ==
    {r \in AllRanges : r.end > r.start /\ Length2(r.start, r.end) > 0}
MCArgs == {ArgsOf(r) : r \in MCRanges}

(* The ranges with no part for the APs.                                    *)
MCSilentArgs == {}
MCSilentRanges ==
    {r \in AllRanges : r.end > r.start /\ Length2(r.start, r.end) = 0}

(* 2MB or 4KB mappings, or mixed ones; at most one failing page; possibly  *)
(* a page that had been accepted before.                                   *)
MCSeptStates ==
    {[large |-> l, bad |-> b, pre |-> p] :
        l \in {{}, Larges} \cup {{q} : q \in Larges},
        b \in {{}} \cup {{q} : q \in Faults},
        p \in {{}, Block(Big, Big)}}
=============================================================================
