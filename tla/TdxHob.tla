-------------------------------- MODULE TdxHob --------------------------------
(***************************************************************************)
(* The memory of a TD, from the HOB list the VMM hands to the firmware to  *)
(* the HOB list the firmware hands to DXE: ValidateHobList, ProcessHobList *)
(* and TransferHobList as TdxStartup calls them.                           *)
(*                                                                         *)
(* ProcessHobList accepts system memory until PcdTdxAcceptPartialMemorySize*)
(* is reached; TransferHobList, later and from scratch, tells DXE which    *)
(* memory is accepted.  The call of MpAcceptMemoryResourceRange is one     *)
(* step here that accepts the range or fails with some pages of it         *)
(* accepted (module MpAccept shows that it does one or the other).  For a  *)
(* range that is not a positive number of whole pages it does neither: its *)
(* loops end only when the pages exactly fill the length.  What becomes of *)
(* the TD then is not modelled; that state is "lost".                      *)
(*                                                                         *)
(* Addresses and lengths are bytes; EfiPageSize is the size of a page.     *)
(* Sums are assumed not to overflow 64 bits.  A HOB is a record with the   *)
(* result of the checks of its header, and for a resource descriptor its   *)
(* type, start and length.                                                 *)
(***************************************************************************)
EXTENDS Integers, Sequences, FiniteSets

CONSTANTS
    EfiPageSize,    \* EFI_PAGE_SIZE
    Megabyte,       \* 1 << MEGABYTE_SHIFT
    Base4GB,        \* BASE_4GB
    HobLists,       \* the HOB lists the VMM may pass
    PartialSizes,   \* values of PcdTdxAcceptPartialMemorySize (megabytes)
    LoaderSizes,    \* kernel, setup, command line and initrd, together
    Unlimited       \* ~0: the largest address and size

Hob == [type : STRING, resource : {"SystemMemory", "Unaccepted", "Io", "None"},
        start : Nat, length : Nat, ok : BOOLEAN]

IsSystemMemory(h) == h.type = "Resource" /\ h.resource = "SystemMemory"

(* A VMM may describe unaccepted memory as such: ValidateHobList lets the  *)
(* type pass, and TransferHobList hands it on.                             *)
IsMemory(h) == h.type = "Resource" /\ h.resource \in {"SystemMemory", "Unaccepted"}

(* ValidateHobList does not look at addresses.  That the ends fit into 64  *)
(* bits and that no memory is described twice is taken from the VMM on     *)
(* trust; that memory is described in whole pages is not.                  *)
ASSUME HobAssumption ==
    /\ HobLists \subseteq Seq(Hob)
    /\ \A l \in HobLists : \A i \in DOMAIN l :
          l[i].type = "Resource" =>
             /\ l[i].resource # "None"
             /\ l[i].start + l[i].length <= Unlimited
    /\ \A l \in HobLists : \A i, j \in DOMAIN l :
          i # j /\ IsMemory(l[i]) /\ IsMemory(l[j]) =>
             \/ l[i].start + l[i].length <= l[j].start
             \/ l[j].start + l[j].length <= l[i].start
    /\ EfiPageSize \in Nat \ {0}
    /\ Megabyte \in Nat \ {0}
    /\ Base4GB \in Nat
    /\ PartialSizes \subseteq Nat
    /\ LoaderSizes \subseteq Nat
    /\ Unlimited \in Nat

VARIABLES
    list,       \* VmmHobList
    config,     \* the PCD and the sizes in fw_cfg
    pc,         \* where TdxStartup is
    pos,        \* the HOB the current loop is at
    acceptSize, \* mTdxAcceptMemSize
    accumulated,\* AccumulateAccepted of the current loop
    low,        \* LowMemoryStart, LowMemoryLength
    status,     \* Status of ProcessHobList
    accepted,   \* the bytes that are accepted memory
    failed,     \* did a call of MpAcceptMemoryResourceRange fail? (history)
    ranges,     \* the ranges of these calls (history)
    final       \* the resource HOBs for DXE

vars == <<list, config, pc, pos, acceptSize, accumulated, low, status,
          accepted, failed, ranges, final>>

Init ==
    /\ list \in HobLists
    /\ config \in [partial : PartialSizes, loader : LoaderSizes]
    /\ pc = "validate"
    /\ pos = 1
    /\ acceptSize = 0
    /\ accumulated = 0
    /\ low = [start |-> 0, length |-> 0]
    /\ status = "Success"
    /\ accepted = {}
    /\ failed = FALSE
    /\ ranges = {}
    /\ final = <<>>

\* Mutant: the size is not rounded up to a page.
GetAcceptSizeNotRounded ==
    IF config.partial = 0 THEN Unlimited
    ELSE config.partial * Megabyte + config.loader

(* GetAcceptSize: everything, or a number of megabytes plus what the       *)
(* kernel needs, up to a page.                                             *)
GetAcceptSize ==
    IF config.partial = 0 THEN Unlimited
    ELSE LET s == config.partial * Megabyte + config.loader + EfiPageSize - 1
         IN  s - (s % EfiPageSize)

-----------------------------------------------------------------------------
(* ValidateHobList knows these HOB types, and checks the header of each.   *)
KnownTypes == {"Handoff", "Resource", "Guid", "Fv", "Fv2", "Fv3", "Cpu"}

ValidateHobList == \A i \in DOMAIN list : list[i].type \in KnownTypes /\ list[i].ok

Validate ==
    /\ pc = "validate"
    /\ pc' = IF ValidateHobList THEN "process" ELSE "dead"
    /\ acceptSize' = IF ValidateHobList THEN GetAcceptSize ELSE acceptSize
    /\ UNCHANGED <<list, config, pos, accumulated, low, status, accepted,
                   failed, ranges, final>>

-----------------------------------------------------------------------------
(* ProcessHobList, one HOB a step.                                         *)

ProcessHob == pc = "process" /\ pos <= Len(list) /\ accumulated < acceptSize

(* The part of a resource that is accepted: lines 334-344.                 *)
AcceptLength(h) ==
    IF accumulated + h.length > acceptSize THEN acceptSize - accumulated ELSE h.length

\* Mutant: the HOB list may be put above 4GB.
LowMemoryAnywhere(h) ==
    IF AcceptLength(h) > low.length
    THEN [start |-> h.start, length |-> AcceptLength(h)]
    ELSE low

(* Lines 345-350: the largest region below 4GB, chosen before it is known  *)
(* whether it can be accepted.                                             *)
LowMemory(h) ==
    IF h.start + AcceptLength(h) <= Base4GB /\ AcceptLength(h) > low.length
    THEN [start |-> h.start, length |-> AcceptLength(h)]
    ELSE low

Bytes(start, length) == start .. start + length - 1

ProcessOther ==
    /\ ProcessHob
    /\ ~ IsSystemMemory(list[pos])
    /\ pos' = pos + 1
    /\ UNCHANGED <<list, config, pc, acceptSize, accumulated, low, status,
                   accepted, failed, ranges, final>>

IsWholePages(start, length) ==
    length > 0 /\ start % EfiPageSize = 0 /\ length % EfiPageSize = 0

(* MpAcceptMemoryResourceRange of HOB h, as far as it returns.             *)
CallMpAccept(h) ==
    /\ IsWholePages(h.start, AcceptLength(h))
    /\ low' = LowMemory(h)
    /\ ranges' = ranges \cup {[start |-> h.start, length |-> AcceptLength(h)]}
    /\ pos' = pos + 1

AcceptMemory ==
    /\ ProcessHob
    /\ IsSystemMemory(list[pos])
    /\ CallMpAccept(list[pos])
    /\ status' = "Success"
    /\ accepted' = accepted \cup Bytes(list[pos].start, AcceptLength(list[pos]))
    /\ accumulated' = accumulated + AcceptLength(list[pos])
    /\ UNCHANGED <<list, config, pc, acceptSize, failed, final>>

(* Some pages may have been accepted when the call fails.  The break of    *)
(* line 357 leaves the switch, not the loop.                               *)
AcceptMemoryFails ==
    /\ ProcessHob
    /\ IsSystemMemory(list[pos])
    /\ CallMpAccept(list[pos])
    /\ status' = "DeviceError"
    /\ failed' = TRUE
    /\ \E n \in {0, AcceptLength(list[pos]) - EfiPageSize} :
           accepted' = accepted \cup Bytes(list[pos].start, n)
    /\ UNCHANGED <<list, config, pc, acceptSize, accumulated, final>>

(* The range is empty, so that the APs get no command and are waited for,  *)
(* or its end is inside a page, and an AP accepts beyond it.               *)
AcceptMemoryDerails ==
    /\ ProcessHob
    /\ IsSystemMemory(list[pos])
    /\ ~ IsWholePages(list[pos].start, AcceptLength(list[pos]))
    /\ pc' = "lost"
    /\ UNCHANGED <<list, config, pos, acceptSize, accumulated, low, status,
                   accepted, failed, ranges, final>>

\* Mutant: TransferHobList goes on with the AccumulateAccepted of
\* ProcessHobList.
ProcessReturnNoReset ==
    /\ pc = "process"
    /\ ~ ProcessHob
    /\ pc' = IF status = "Success" /\ low.length > 0 THEN "transfer" ELSE "dead"
    /\ pos' = 1
    /\ UNCHANGED <<list, config, acceptSize, accumulated, low, status, accepted,
                   failed, ranges, final>>

(* Lines 370-400: the status of the last call decides; the HOB list for    *)
(* DXE is constructed in the low region.                                   *)
ProcessReturn ==
    /\ pc = "process"
    /\ ~ ProcessHob
    /\ LET ok == status = "Success" /\ low.length > 0
       IN  /\ pc' = IF ok THEN "transfer" ELSE "dead"
           /\ status' = IF low.length = 0 THEN "NotFound" ELSE status
           /\ low' = IF ok /\ low.start = 0
                     THEN [start |-> EfiPageSize, length |-> low.length - EfiPageSize]
                     ELSE low
    /\ pos' = 1
    /\ accumulated' = 0
    /\ UNCHANGED <<list, config, acceptSize, accepted, failed, ranges, final>>

-----------------------------------------------------------------------------
(* TransferHobList, one HOB a step.                                        *)

Entry(type, start, length) == [resource |-> type, start |-> start, length |-> length]

\* Mutant: the part of a resource that is not accepted is forgotten.
TransferMemoryLosesRest(h) ==
    IF accumulated >= acceptSize
    THEN <<Entry("Unaccepted", h.start, h.length)>>
    ELSE <<Entry("SystemMemory", h.start, AcceptLength(h))>>

\* Mutant: a resource below the limit is split, too.
TransferMemoryAlwaysSplits(h) ==
    LET n == acceptSize - accumulated
    IN  IF n <= 0 THEN <<Entry("Unaccepted", h.start, h.length)>>
        ELSE <<Entry("SystemMemory", h.start, n),
               Entry("Unaccepted", h.start + n, h.length - n)>>

TransferMemory(h) ==
    IF accumulated >= acceptSize
    THEN <<Entry("Unaccepted", h.start, h.length)>>
    ELSE IF accumulated + h.length <= acceptSize
    THEN <<Entry("SystemMemory", h.start, h.length)>>
    ELSE LET n == acceptSize - accumulated
         IN  <<Entry("SystemMemory", h.start, n),
               Entry("Unaccepted", h.start + n, h.length - n)>>

TransferHob ==
    /\ pc = "transfer"
    /\ pos <= Len(list)
    /\ IF IsSystemMemory(list[pos])
       THEN /\ final' = final \o TransferMemory(list[pos])
            /\ accumulated' = IF accumulated >= acceptSize THEN accumulated
                              ELSE accumulated + AcceptLength(list[pos])
       ELSE /\ final' = IF list[pos].type = "Resource"
                        THEN Append(final, Entry(list[pos].resource, list[pos].start,
                                                 list[pos].length))
                        ELSE final
            /\ UNCHANGED accumulated
    /\ pos' = pos + 1
    /\ UNCHANGED <<list, config, pc, acceptSize, low, status, accepted, failed, ranges>>

TransferReturn ==
    /\ pc = "transfer"
    /\ pos > Len(list)
    /\ pc' = "done"
    /\ UNCHANGED <<list, config, pos, acceptSize, accumulated, low, status,
                   accepted, failed, ranges, final>>

(* TdxStartup goes on to the platform, or is in CpuDeadLoop.               *)
Ended == pc \in {"done", "dead", "lost"} /\ UNCHANGED vars

Next ==
    \/ Validate
    \/ ProcessOther
    \/ AcceptMemory
    \/ AcceptMemoryFails
    \/ AcceptMemoryDerails
    \/ ProcessReturn
    \/ TransferHob
    \/ TransferReturn
    \/ Ended

Spec == Init /\ [][Next]_vars

-----------------------------------------------------------------------------
(* Properties.                                                             *)

Reported(type) ==
    UNION {Bytes(final[i].start, final[i].length) :
              i \in {j \in DOMAIN final : final[j].resource = type}}

MemoryHobs == {i \in DOMAIN list : IsMemory(list[i])}

(* HobConstructor writes the handoff table at the start of the region,     *)
(* without a look at its length.                                           *)
HandoffTable == Bytes(low.start, EfiPageSize)

Below4GB == {r \in ranges : r.start + r.length <= Base4GB}

\* The types of the loop variables, the addresses and the two histories.
TypeOK ==
    /\ pc \in {"validate", "process", "transfer", "done", "dead", "lost"}
    /\ pos \in 1 .. Len(list) + 1
    /\ acceptSize \in Nat
    /\ accumulated \in Nat
    /\ low \in [start : Nat, length : Nat]
    /\ status \in {"Success", "DeviceError", "NotFound"}
    /\ failed \in BOOLEAN
    /\ final \in Seq([resource : {"SystemMemory", "Unaccepted", "Io"},
                      start : Nat, length : Nat])

\* What TransferHobList tells DXE is what ProcessHobList did: if no call
\* failed, the memory reported as system memory is exactly the memory that
\* was accepted, although the two loops count separately.
ReportedIsAccepted ==
    pc = "done" /\ ~ failed => Reported("SystemMemory") = accepted

\* No memory is lost or reported twice when a resource is split: together
\* the two kinds cover every memory HOB of the VMM, the ones that were
\* described as unaccepted included, and they are disjoint.
MemoryIsPreserved ==
    pc = "done" =>
        /\ Reported("SystemMemory") \cap Reported("Unaccepted") = {}
        /\ Reported("SystemMemory") \cup Reported("Unaccepted") =
             UNION {Bytes(list[i].start, list[i].length) : i \in MemoryHobs}

\* The cut at mTdxAcceptMemSize never makes whole pages into something else:
\* MpAcceptMemoryResourceRange gets a range that is not a positive number of
\* whole pages only if the VMM's list has such a HOB.
CallsAreWholePages ==
    pc = "lost" =>
        \E i \in MemoryHobs : ~ IsWholePages(list[i].start, list[i].length)

\* The HOB list for DXE is in accepted memory below 4GB, not at address 0: the
\* region given to HobConstructor is, it is as large as any range accepted
\* below 4GB but for the page at address 0, and so is the page to which
\* HobConstructor writes the handoff table.  Only if no accepted range below
\* 4GB has more than one page may the region be empty (Hob.c:384-387) and the
\* table be written behind the accepted memory.
HobListInAcceptedMemory ==
    pc \in {"transfer", "done"} /\ ~ failed =>
        /\ low.start > 0
        /\ low.start + low.length <= Base4GB
        /\ Bytes(low.start, low.length) \subseteq accepted
        /\ \A r \in Below4GB : low.length + EfiPageSize >= r.length
        /\ \/ HandoffTable \subseteq accepted
           \/ \A r \in Below4GB : r.length = EfiPageSize

\* TdxStartup leaves ProcessHobList with EFI_SUCCESS only if all memory it
\* will report as accepted could be accepted ("Firmware must parse list, and
\* accept the pages of memory before their can be use by the guest").
NoFailureIsMasked ==
    pc = "done" => Reported("SystemMemory") \subseteq accepted
=============================================================================
