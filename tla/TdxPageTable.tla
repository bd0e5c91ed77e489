----------------------------- MODULE TdxPageTable -----------------------------
(***************************************************************************)
(* SetMemorySharedOrPrivate of BaseMemEncryptTdxLib: the shared bit of a   *)
(* region of memory is set or cleared in the page table, entry by entry,   *)
(* large pages are split when the region does not cover them, and the VMM  *)
(* and the TDX module are told of every entry (MapGPA, TDACCEPTPAGE).  New *)
(* tables come from pools of 2MB, which are made read-only at the end.     *)
(*                                                                         *)
(* A page is 4KB.  The page table is seen through the leaf entry of each   *)
(* page: its size, its shared bit, its read-only bit.  Left out: the cache *)
(* flush, LA57, the PML4 level, the NX bit of a stack, since both splits   *)
(* are called with an empty stack, and the shared bit that an entry keeps  *)
(* when it becomes a pointer to a table, which every walk of this code     *)
(* masks out.                                                              *)
(*                                                                         *)
(* Nobody raises the TPL: an event notification at TPL_NOTIFY may convert  *)
(* another region inside the function, to its end (IoMmuMap in the timer   *)
(* of XhciDxe).  The splits are taken apart for that, since what a split   *)
(* has read is old when a notification changes the same entry; so are the  *)
(* takings of a table, which both do from mPageTablePool.  raced records   *)
(* that either has happened.  The stores of SetOrClearSharedBit and the    *)
(* calls that follow them are one step: they concern pages of the region   *)
(* only, and the region of the notification is another one.                *)
(***************************************************************************)
EXTENDS Integers, Sequences

CONSTANTS
    NumPages,       \* the pages are 0 .. NumPages - 1
    Size2M,         \* the pages of a 2MB entry
    Per1G,          \* the 2MB entries of a 1GB entry
    Layouts,        \* [Page -> size]: leaf sizes the page table may start with, 0: no entry
    Regions,        \* the regions [start, end] callers convert
    PoolBase,       \* what AllocateAlignedPages gives for a pool, in order
    WpEnabled,      \* CR0.WP is set
    AssertsEnabled, \* DEBUG build: a failing ASSERT stops the CPU
    RefuseMany,     \* bound: more than one entry may be refused at a time
    Preemptive      \* bound: notifications convert memory

Page == 0 .. NumPages - 1
Mode == {"SetSharedBit", "ClearSharedBit"}

Size1G == Per1G * Size2M

(* The pages p and q are mapped by one entry of the given size.            *)
SameEntry(p, q, size) == p \div size = q \div size

ASSUME PageTableAssumption ==
    /\ NumPages \in Nat
    /\ Size2M \in Nat \ {0, 1} /\ Per1G \in Nat \ {0, 1}
    /\ \A l \in Layouts :
          /\ l \in [Page -> {0, 1, Size2M, Size1G}]
          /\ \A p, q \in Page : l[p] > 1 /\ SameEntry(p, q, l[p]) => l[q] = l[p]
    /\ \A r \in Regions : r.start \in Page /\ r.end \in Nat /\ r.start < r.end
    /\ PoolBase \in Seq(Page)
    /\ WpEnabled \in BOOLEAN /\ AssertsEnabled \in BOOLEAN
    /\ RefuseMany \in BOOLEAN /\ Preemptive \in BOOLEAN

VARIABLES
    size,       \* the size of the entry that maps a page
    bit,        \* the shared bit of that entry
    ro,         \* the pages that are mapped read-only
    gpa,        \* the page in the TDX module: "private", "shared", "pending"
    refused,    \* pages the VMM did not convert as it was told
    pools,      \* the pools allocated so far
    tables,     \* FreePages of mPageTablePool
    stale,      \* pages whose entry changed since the TLB was flushed
    wp,         \* CR0.WP
    pc,         \* where the function is; "idle": it is not running
    call,       \* the region, the mode, IsWpEnabled and the cursor of the call
    pool,       \* the pool EnablePageTableProtection is at, and HeadPool
    split,      \* the entry that is being split: its pages, its bit, the new size
    outer,      \* the four of the call that a notification has interrupted
    raced,      \* history: a notification came into a split, see above
    status      \* what the last call returned

tableVars == <<size, bit, ro>>
tdxVars == <<gpa, refused>>
poolVars == <<pools, tables>>
callVars == <<pc, call, pool, split>>
vars == <<tableVars, tdxVars, poolVars, stale, wp, callVars, outer, raced, status>>

NoCall == [start |-> 0, end |-> 0, addr |-> 0, mode |-> "SetSharedBit", wp |-> FALSE]
NoPool == [at |-> 0, head |-> 0]
NoSplit == [pages |-> {}, bit |-> FALSE, size |-> 0]
NoFrame == [pc |-> "idle", call |-> NoCall, pool |-> NoPool, split |-> NoSplit]

Region(r) == r.start .. r.end - 1

Init ==
    /\ size \in Layouts
    /\ bit = [p \in Page |-> FALSE]
    /\ ro = {}
    /\ gpa = [p \in Page |-> "private"]
    /\ refused = {}
    /\ pools = 0
    /\ tables = 0
    /\ stale = {}
    /\ wp = WpEnabled
    /\ pc = "idle"
    /\ call = NoCall
    /\ pool = NoPool
    /\ split = NoSplit
    /\ outer = NoFrame
    /\ raced = FALSE
    /\ status = "Success"

-----------------------------------------------------------------------------
PoolPages(n) == {p \in Page : SameEntry(p, PoolBase[n], Size2M)}

(* AllocateAlignedPages: memory that is shared or being converted is       *)
(* somebody's buffer and not free.                                         *)
OutOfPages ==
    \/ pools = Len(PoolBase)
    \/ /\ pools < Len(PoolBase)
       /\ \E p \in PoolPages(pools + 1) :
             bit[p] \/ p \in Region(call) \/ p \in Region(outer.call)

(* AllocatePageTableMemory(1): a new pool has Size2M pages, one of them    *)
(* its header.  It fails when there is no 2MB of memory for a new pool.    *)
NoTable == tables = 0 /\ OutOfPages

(* Mutant: the pool is not refilled.                                       *)
NoRefill == tables' = tables - 1 /\ UNCHANGED pools

AllocatePageTableMemory ==
    /\ ~NoTable
    /\ IF tables > 0 THEN tables' = tables - 1 /\ UNCHANGED pools
                     ELSE tables' = Size2M - 2 /\ pools' = pools + 1

(* The pages of the entry that maps p.                                     *)
Entry(p) == {q \in Page : SameEntry(p, q, size[p])}

(* Mutant: only the entry of the address is written to the new table.      *)
SplitFirst(small) ==
    /\ size' = [q \in Page |-> IF SameEntry(call.addr, q, small) THEN small ELSE size[q]]
    /\ bit' = [q \in Page |-> IF q \in split.pages THEN split.bit ELSE bit[q]]
    /\ ro' = ro \ split.pages

(* The table of a split is in place: its entries have the shared bit of    *)
(* the old one and are writable.                                           *)
Split(small) ==
    /\ size' = [q \in Page |-> IF q \in split.pages THEN small ELSE size[q]]
    /\ bit' = [q \in Page |-> IF q \in split.pages THEN split.bit ELSE bit[q]]
    /\ ro' = ro \ split.pages

Smaller(s) == IF s = Size1G THEN Size2M ELSE 1

-----------------------------------------------------------------------------
(* MemEncryptTdxClearPageEncMask and MemEncryptTdxSetPageEncMask: checks,  *)
(* and the write protection is turned off.  The region is a buffer of the  *)
(* caller.                                                                 *)
Enter(r, mode) ==
    /\ \A n \in 1 .. pools : PoolPages(n) \cap Region(r) = {}
    /\ call' = [start |-> r.start, end |-> r.end, addr |-> r.start, mode |-> mode, wp |-> wp]
    /\ wp' = FALSE
    /\ pc' = "loop"
    /\ split' = NoSplit
    /\ status' = "Success"
    /\ UNCHANGED <<tableVars, tdxVars, poolVars, stale, pool>>

SetMemorySharedOrPrivate(r, mode) ==
    /\ pc = "idle" /\ outer = NoFrame
    /\ Enter(r, mode)
    /\ UNCHANGED <<outer, raced>>

(* A notification interrupts the function and converts its own buffer.     *)
Notify(r, mode) ==
    /\ Preemptive
    /\ pc \notin {"idle", "dead"} /\ outer = NoFrame
    /\ Region(r) \cap Region(call) = {}
    /\ Enter(r, mode)
    /\ outer' = [pc |-> pc, call |-> call, pool |-> pool, split |-> split]
    /\ raced' = (raced \/ Region(r) \cap split.pages # {})

(* The notification has returned.                                          *)
Resume ==
    /\ pc = "idle" /\ outer # NoFrame
    /\ pc' = outer.pc /\ call' = outer.call /\ pool' = outer.pool /\ split' = outer.split
    /\ outer' = NoFrame
    /\ status' = "Success"
    /\ UNCHANGED <<tableVars, tdxVars, poolVars, stale, wp, raced>>

InLoop == pc = "loop" /\ call.addr < call.end

(* An entry is missing: RETURN_NO_MAPPING, goto Done.                      *)
NoMapping ==
    /\ InLoop
    /\ call.addr \notin Page \/ size[call.addr] = 0
    /\ status' = "NoMapping"
    /\ wp' = (wp \/ call.wp)
    /\ pc' = "idle"
    /\ UNCHANGED <<tableVars, tdxVars, poolVars, stale, call, pool, split, outer, raced>>

Mapped == InLoop /\ call.addr \in Page /\ size[call.addr] # 0

(* Mutant: the length left is not compared with the size of the entry.     *)
AlignedOnly == call.addr % size[call.addr] = 0

(* The entry can be changed as it is.                                      *)
Covered ==
    /\ call.addr % size[call.addr] = 0
    /\ call.end - call.addr >= size[call.addr]

(* What the VMM and the TDX module make of MapGPA and, page by page, of    *)
(* TDACCEPTPAGE for the pages E; the code looks at neither status.         *)
Convert(E, mode) ==
    \/ /\ gpa' = [p \in Page |-> IF p \notin E THEN gpa[p]
                                 ELSE IF mode = "SetSharedBit" THEN "shared" ELSE "private"]
       /\ refused' = refused \ E
    \/ /\ RefuseMany \/ refused \subseteq E
       /\ refused' = refused \cup E
       /\ \/ UNCHANGED gpa
          \/ /\ mode = "ClearSharedBit"
             /\ \E failed \in E :
                   gpa' = [p \in Page |-> IF p \in E /\ p < failed THEN "private"
                                         ELSE IF p \in E /\ gpa[p] = "shared" THEN "pending"
                                         ELSE gpa[p]]

(* Mutant: the VMM is told only when a page becomes shared.                *)
SetBitOnly ==
    LET E == Entry(call.addr)
    IN  /\ Mapped
        /\ Covered
        /\ bit' = [p \in Page |-> IF p \in E THEN call.mode = "SetSharedBit" ELSE bit[p]]
        /\ IF call.mode = "SetSharedBit" THEN Convert(E, call.mode) ELSE UNCHANGED tdxVars
        /\ stale' = stale \cup E
        /\ call' = [call EXCEPT !.addr = @ + size[call.addr]]
        /\ UNCHANGED <<size, ro, poolVars, wp, pc, pool, split, outer, raced, status>>

(* Mutant: the cursor moves only when the page is shared.                  *)
SetBitStays ==
    LET E == Entry(call.addr)
    IN  /\ Mapped
        /\ Covered
        /\ bit' = [p \in Page |-> IF p \in E THEN call.mode = "SetSharedBit" ELSE bit[p]]
        /\ Convert(E, call.mode)
        /\ stale' = stale \cup E
        /\ call' = IF call.mode = "SetSharedBit" THEN [call EXCEPT !.addr = @ + size[call.addr]]
                   ELSE call
        /\ UNCHANGED <<size, ro, poolVars, wp, pc, pool, split, outer, raced, status>>

(* SetOrClearSharedBit.                                                    *)
SetOrClearSharedBit ==
    LET E == Entry(call.addr)
    IN  /\ Mapped
        /\ Covered
        /\ bit' = [p \in Page |-> IF p \in E THEN call.mode = "SetSharedBit" ELSE bit[p]]
        /\ Convert(E, call.mode)
        /\ stale' = stale \cup E
        /\ call' = [call EXCEPT !.addr = @ + size[call.addr]]
        /\ UNCHANGED <<size, ro, poolVars, wp, pc, pool, split, outer, raced, status>>

(* The pages of p's entry are to be mapped by entries of the given size.   *)
Divide(p, small) == split' = [pages |-> Entry(p), bit |-> bit[p], size |-> small]

(* The large page has to be split first.  From the look at the entry to    *)
(* the store that replaces it nothing protects either the entry or, at     *)
(* first, the pool.                                                        *)
SplitAllocate ==
    /\ Mapped
    /\ ~Covered
    /\ AllocatePageTableMemory
    /\ Divide(call.addr, Smaller(size[call.addr]))
    /\ pc' = "split"
    /\ raced' = (raced \/ outer.split # NoSplit)
    /\ UNCHANGED <<tableVars, tdxVars, stale, wp, call, pool, outer, status>>

(* Split2MPageTo4K fills its table before it puts it in place; the loop    *)
(* goes on (continue).                                                     *)
Split2MPageTo4K ==
    /\ pc = "split"
    /\ split.size = 1
    /\ Split(1)
    /\ stale' = stale \cup split.pages
    /\ pc' = "loop"
    /\ split' = NoSplit
    /\ UNCHANGED <<tdxVars, poolVars, wp, call, pool, outer, raced, status>>

(* Split1GPageTo2M does so before it fills it.                             *)
Split1GPageTo2M ==
    /\ pc = "split"
    /\ split.size = Size2M
    /\ size' = [q \in Page |-> IF q \in split.pages THEN 0 ELSE size[q]]
    /\ stale' = stale \cup split.pages
    /\ pc' = "fill"
    /\ UNCHANGED <<bit, ro, tdxVars, poolVars, wp, call, pool, split, outer, raced, status>>

FillDirectory ==
    /\ pc = "fill"
    /\ Split(Size2M)
    /\ pc' = "loop"
    /\ split' = NoSplit
    /\ UNCHANGED <<tdxVars, poolVars, stale, wp, call, pool, outer, raced, status>>

(* There is no memory for a table.  Split2MPageTo4K has an ASSERT; in all  *)
(* other cases the loop comes back to the same entry, for ever.            *)
Starved == Mapped /\ ~Covered /\ NoTable

SplitAsserts ==
    /\ Starved
    /\ AssertsEnabled
    /\ size[call.addr] = Size2M
    /\ pc' = "dead"
    /\ UNCHANGED <<tableVars, tdxVars, poolVars, stale, wp, call, pool, split, outer, raced,
                   status>>

LoopDone ==
    /\ pc = "loop"
    /\ call.addr >= call.end
    /\ IF call.wp /\ pools > 0
       THEN pc' = "protect" /\ pool' = [at |-> pools, head |-> pools]
       ELSE pc' = "flush" /\ UNCHANGED pool
    /\ UNCHANGED <<tableVars, tdxVars, poolVars, stale, wp, call, split, outer, raced, status>>

-----------------------------------------------------------------------------
(* EnablePageTableProtection walks the ring of the pools; a pool that is   *)
(* allocated on the way is behind the one that was the newest.             *)
NextPool ==
    LET next == IF pool.at = pools THEN 1 ELSE pool.at + 1
    IN  IF next = pool.head THEN pc' = "flush" /\ UNCHANGED pool
        ELSE pool' = [pool EXCEPT !.at = next] /\ UNCHANGED pc

(* SetPageTablePoolReadOnly splits a 1GB page and marks a 2MB page; it     *)
(* does nothing to 4KB pages, whose entries look like pointers to tables.  *)
SetPageTablePoolReadOnly ==
    LET base == PoolBase[pool.at]
    IN  /\ pc = "protect"
        /\ size[base] = Size1G => NoTable /\ ~AssertsEnabled
        /\ ro' = IF size[base] = Size2M THEN ro \cup PoolPages(pool.at) ELSE ro
        /\ NextPool
        /\ UNCHANGED <<size, bit, tdxVars, poolVars, stale, wp, call, split, outer, raced, status>>

ProtectAllocate ==
    LET base == PoolBase[pool.at]
    IN  /\ pc = "protect"
        /\ size[base] = Size1G
        /\ AllocatePageTableMemory
        /\ Divide(base, Size2M)
        /\ pc' = "protectSplit"
        /\ raced' = (raced \/ outer.split # NoSplit)
        /\ UNCHANGED <<tableVars, tdxVars, stale, wp, call, pool, outer, status>>

(* The table is full when it is put in place; its 2MB page is marked next. *)
ProtectSplit ==
    /\ pc = "protectSplit"
    /\ Split(Size2M)
    /\ pc' = "protect"
    /\ split' = NoSplit
    /\ UNCHANGED <<tdxVars, poolVars, stale, wp, call, pool, outer, raced, status>>

ProtectAsserts ==
    /\ pc = "protect"
    /\ AssertsEnabled
    /\ size[PoolBase[pool.at]] = Size1G
    /\ NoTable
    /\ pc' = "dead"
    /\ UNCHANGED <<tableVars, tdxVars, poolVars, stale, wp, call, pool, split, outer, raced,
                   status>>

(* Mutant: the TLB is not flushed.                                         *)
ReturnUnflushed ==
    /\ pc = "flush"
    /\ wp' = (wp \/ call.wp)
    /\ pc' = "idle"
    /\ UNCHANGED <<tableVars, tdxVars, poolVars, stale, call, pool, split, outer, raced, status>>

(* CpuFlushTlb, and the write protection is restored.                      *)
Return ==
    /\ pc = "flush"
    /\ stale' = {}
    /\ wp' = (wp \/ call.wp)
    /\ pc' = "idle"
    /\ UNCHANGED <<tableVars, tdxVars, poolVars, call, pool, split, outer, raced, status>>

Work ==
    \/ NoMapping
    \/ SetOrClearSharedBit
    \/ SplitAllocate
    \/ Split2MPageTo4K
    \/ Split1GPageTo2M
    \/ FillDirectory
    \/ SplitAsserts
    \/ LoopDone
    \/ SetPageTablePoolReadOnly
    \/ ProtectAllocate
    \/ ProtectSplit
    \/ ProtectAsserts
    \/ Return
    \/ Resume

Next ==
    \/ \E r \in Regions, m \in Mode : SetMemorySharedOrPrivate(r, m) \/ Notify(r, m)
    \/ Work

(* The CPU that runs the function goes on, and the notifications leave     *)
(* time for it between them.                                               *)
Spec == Init /\ [][Next]_vars /\ WF_vars(Work) /\ SF_vars(outer = NoFrame /\ Work)

-----------------------------------------------------------------------------
(* Properties.                                                             *)

Label == {"idle", "loop", "split", "fill", "protect", "protectSplit", "flush", "dead"}
Call == [start : Nat, end : Nat, addr : Nat, mode : Mode, wp : BOOLEAN]
Pool == [at : 0 .. Len(PoolBase), head : 0 .. Len(PoolBase)]
SplitRecord == [pages : SUBSET Page, bit : BOOLEAN, size : {0, 1, Size2M}]

TypeOK ==
    /\ size \in [Page -> {0, 1, Size2M, Size1G}]
    /\ bit \in [Page -> BOOLEAN]
    /\ ro \subseteq Page
    /\ gpa \in [Page -> {"private", "shared", "pending"}]
    /\ refused \subseteq Page /\ stale \subseteq Page
    /\ pools \in 0 .. Len(PoolBase) /\ tables \in 0 .. Size2M
    /\ wp \in BOOLEAN /\ raced \in BOOLEAN
    /\ pc \in Label /\ call \in Call /\ pool \in Pool /\ split \in SplitRecord
    /\ outer \in [pc : Label, call : Call, pool : Pool, split : SplitRecord]
    /\ status \in {"Success", "NoMapping"}

(* A conversion may only rely on the following as long as no notification  *)
(* has converted a page of an entry that is being split, or split one      *)
(* itself then: after that the table is what the older of the two made of  *)
(* it.  Anywhere else a notification does no harm.                         *)

(* The pages of one entry agree, whatever was split before.                *)
Coherent ==
    ~raced => \A p, q \in Page : size[p] > 1 /\ SameEntry(p, q, size[p]) =>
                                     size[q] = size[p] /\ bit[q] = bit[p]

(* No call changes the shared bit of a page outside its region, though it  *)
(* splits and rewrites entries that map pages outside of it, and though    *)
(* notifications change some of these meanwhile.                           *)
OnlyTheRegion ==
    [][~raced => \A p \in Page : bit'[p] # bit[p] => p \in Region(call)]_vars

(* RETURN_SUCCESS: the whole region has the bit, no CPU uses an old entry, *)
(* and the write protection is back, unless the call interrupts another    *)
(* one, which has turned it off.                                           *)
SuccessMeansDone ==
    pc = "idle" /\ status = "Success" /\ ~raced =>
        /\ \A p \in Page \cap Region(call) : bit[p] = (call.mode = "SetSharedBit")
        /\ stale = {}
        /\ wp = (WpEnabled /\ outer = NoFrame)

(* The page table and the TDX module agree on which pages are shared,      *)
(* but for the pages of a MapGPA or a TDACCEPTPAGE that failed.            *)
GpaAgrees ==
    ~raced => \A p \in Page \ refused : gpa[p] = IF bit[p] THEN "shared" ELSE "private"

(* A call returns, however often it is interrupted, unless it finds no     *)
(* memory to split a large page: then it never does, or the ASSERT stops   *)
(* it.                                                                     *)
Returns ==
    (pc # "idle") ~> ((pc = "idle" /\ outer = NoFrame) \/ pc = "dead" \/ Starved \/ raced)

(* EnablePageTableProtection:379: "Prevent the memory pages used for page  *)
(* table from been overwritten": after a call the pools are read-only.     *)
PoolsReadOnly ==
    pc = "idle" /\ outer = NoFrame /\ status = "Success" /\ WpEnabled =>
        \A n \in 1 .. pools : PoolPages(n) \subseteq ro
=============================================================================
