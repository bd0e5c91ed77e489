# TDVF: a TLA+ verification project

TDVF is the virtual firmware of an Intel TDX trust domain (TD), built on EDK II. Most of
the repository is upstream EDK II; this project is about the code that is TDVF's own, in
`edk2-staging-TDVF/OvmfPkg`, `MdePkg/Library/TdxLib`, `SecurityPkg/Library/*Tdx*` and
`UefiCpuPkg/Library/MpInitLib/*Tdx*`. Paths below are relative to `src/edk2-staging-TDVF`.

What makes this code hard: before DXE all virtual CPUs run at once and communicate
through one page of memory, with no lock and no message queue, in a C half
(`TdxMp.c`, on the boot processor) and an assembly half (`SecEntry.nasm`, on the others).
A lost increment is a TD that never boots; a stale argument is memory that is used and was
never accepted. In DXE there is one CPU, but event notifications of a higher TPL run between
any two steps of the others, memory runs out, calls of the VMM and the TDX module fail, and
at ExitBootServices the notifications of all drivers run in an order nobody chose.

## Inventory

| component | state | operations | interacts with |
|---|---|---|---|
| AP mailbox: `TdxMpLib/TdxMp.c`, `Sec/X64/SecEntry.nasm` | the fields of `MP_WAKEUP_MAILBOX`, the place of each CPU | `MpSerializeStart`, `MpSendWakeupCommand`, `MpSerializeEnd`; parking loop, `.ap_accept_page`, `.do_wakeup` | shared memory, polled |
| parallel acceptance: `TdxStartupLib/Mp.c`, `TdxLib/AcceptPages.c` | accepted pages, position of each CPU, `Errors[]`, `Status` | `MpAcceptMemoryResourceRange`, `BspAcceptMemoryResourceRange`, `TdAcceptPages` | mailbox; TDCALL |
| HOB list: `TdxStartupLib/Hob.c` | `mTdxAcceptMemSize`, low memory, HOBs for DXE | `ValidateHobList`, `GetAcceptSize`, `ProcessHobList`, `TransferHobList` | calls the acceptance |
| start-up sequence: `TdxStartupLib/TdxStartup.c` | none of its own | `TdxStartup` | calls all of the above |
| relocated AP loop: `TdxStartupLib/X64/ApRunLoop.nasm`; MADT: `TdxDxe/TdxAcpiTable.c` | relocated mailbox | the loop; `AlterAcpiTable` | the guest OS |
| reset vector: `ResetVector/Ia32` | `PGTBL_READY` flag | page table hand-shake | SEC |
| measurement: `Tcg.c`, `SecTpmMeasurementLibTdx`, `HashLibBaseCryptoRouterTdx`, `Rtmr.c`, `Tcg2Dxe/TdTcg2Dxe.c` | RTMRs, event log | extend, log | called by start-up and DXE |
| shared/private pages: `BaseMemEncryptTdxLib/MemoryEncryption.c` | page tables, page table pool | `SetMemorySharedOrPrivate` | VMM (MapGPA), TdAcceptPages |
| IOMMU: `IoMmuDxe/IoMmu.c` | mappings, bounce buffers | Map, Unmap, AllocateBuffer, FreeBuffer, ExitBootServices | the page mapping above |
| #VE handler, TDVMCALL, I/O library; MP services stubs; platform init, DXE load | (nearly) none | | |

Correctness, per component: the mailbox is a reusable barrier and a fork-join (nobody is
lost, nobody works twice, nobody reads arguments of another call, everybody comes back);
the acceptance accepts exactly the range or says that it failed; DXE is told exactly what
was accepted; the event log accounts for the registers, in order; a conversion changes the
region and nothing else, and the page table agrees with the TDX module; a page is shared
exactly while a mapping needs it, drivers and devices do not notice the conversions, and
nothing is shared, allocated or freed when the OS takes over.

`PROJECT.json` lists each component with its status, the hazards at their lines, and the
lines each definition models.

## Modules

* **ForkJoin** - the abstract specification of the mailbox: a job goes to all workers,
  each takes it once, the job does not change meanwhile, it ends when all are done.
* **TdxMailbox** - the protocol. Variables `arriving`, `exiting`, `command`, `apicId`,
  `vector`, `args` are the fields of the mailbox; `bsp` and `ap` are program counters, one
  step per store or load the other side can see. `req` is what the BSP is sending. The
  BSP's steps are those of `MpSerializeStart` (wait for the APs, set `NumCpusExiting`,
  release), `MpSendWakeupCommand` (withdraw, arguments, command) and `MpSerializeEnd` (wait,
  withdraw, reset `NumCpusArriving`, count out); an AP's are the labels of the parking loop.
  Stores to different fields between which no other CPU can tell a difference (the four
  arguments, the vector and the APIC id, which parked APs ignore) are one step. x86 stores
  become visible in program order, so memory is sequentially consistent.
* **TdxPartition** - the arithmetic of `Mp.c`: the three parts and a CPU's cursor (chunk,
  next page, rest, fall-back count). Unit: 4KB pages; `Big` is the number of them in 2MB.
* **MpAccept** - extends both: inside the protocol, one TDACCEPTPAGE a step, by the BSP part
  by part and by each AP through its stripe, with size mismatch and fall back, pages already
  accepted, failing pages, `Errors[]`, `Status`, and the caller, which calls again,
  hands the APs over, or stops. `TdAccept` is the TDX module (external), modelled from the
  four results the code distinguishes. `AssertsEnabled` is the build type: in DEBUG a
  failing `ASSERT` stops the BSP.
* **TdxHob** - `ValidateHobList`, `ProcessHobList`, `TransferHobList` as TdxStartup runs
  them, one HOB a step; a call of the acceptance succeeds or fails with part of the range
  accepted. `failed` and `ranges` are history variables. Validation does not look at
  addresses; `HobAssumption` says what is taken from the VMM on trust (ends that fit into 64
  bits, no memory described twice). Whole pages are not: a call for anything else ends in the
  state `lost` (`AcceptMemoryDerails`). `HandoffTable` is where HobConstructor writes.
* **Dma** - the abstract specification of the IOMMU protocol, as drivers and devices see it:
  buffers (`buf`) and the windows devices have on them (`win`). Nothing of shared memory.
* **IoMmu** - `IoMmu.c` and the list of `LinkedList.c`, in two contexts: `main` below
  TPL_NOTIFY and `timer`, a notification that may run between any two steps of main. Variables:
  the memory map (`use`), shared pages, contents, `stashOf` (COMMON_BUFFER_HEADER), the MAP_INFO
  pool, the links of `mMapInfos`, each context's place, and for ExitBootServices the queue of
  notifications and the halted devices. `Map` is MapInfo, MapBounce/MapCommon/MapFails,
  MapClear, MapCopy, MapLink, MapReturn; `Unmap` is UnmapStart, UnmapEncrypt, UnmapRestore,
  UnmapUnlink, UnmapForget, shared with the walk of IoMmuUnmapAllMappings, as the worker is in the
  code. Every store of InsertHeadList and RemoveEntryList to a link of another element is a step
  of its own. The history `raced` says that the notification called Map or Unmap between two of
  them in main, which may damage the list, and `lost` that a link to a freed or undone MAP_INFO was
  followed, where the model stops. ExitBootServices is the path on which the memory map key was
  right.
* **TdxPageTable** - `SetMemorySharedOrPrivate`, one page table entry a step. The table is
  seen through the leaf entry of each page (`size`, `bit`, `ro`); `gpa` is what the VMM and the
  TDX module made of the page, `refused` the pages where they did not do what they were told
  (the code looks at neither status), `stale` the entries the TLB may still have. Between any two
  steps a notification may convert a region of its own, to its end; `outer` keeps the
  interrupted call. A split is several steps for that: look at the entry and take a table
  (SplitAllocate), replace the entry (Split2MPageTo4K, which has filled its table by then;
  Split1GPageTo2M, which has not) and FillDirectory. The history `raced` says that a notification
  converted a page of an entry that is being split, or split an entry itself at that time. Pools of 2MB
  are allocated and made read-only as `AllocatePageTableMemory` and
  `EnablePageTableProtection` do; memory for pools can run out.
* **TdxMeasure** - measurement from SEC to the OS. A measurement is a number, which also
  stands for its digest; `Start` puts it into the extend buffer, `TdExtendRtmr` extends with
  whatever the buffer holds, `SecLog`/`DxeLog` log it. `log` and `final` are the two
  `TD_EVENT_LOG_AREA_STRUCT`s; `hobs` is what SEC leaves for `SyncTdTcgEvent`. Two contexts
  again: a notification may measure in the middle of another measurement. GetEventLog is two
  steps, TdGetEventLog (it tells where the last event is and dumps the log) and GetEventLogReturns
  (it sets `GetEventLogCalled`). `overlap`, `unlogged`, `seen` (the log the first caller of
  GetEventLog got) and `mark` (the log when the flag was set) are history variables. The uninitialised flags of `TdxStartup.c:219`
  are a free choice of how many settings are measured.
* **TdxMailboxProofs, MpAcceptProofs, MpWorkProofs, TdxPartitionProofs, TdxHobProofs,
  TdxPageTableProofs, IoMmuProofs, TdxMeasureProofs** - theorems, see below.
* **MCTdxMailbox, MCMpAccept, MCTdxHob, MCIoMmu, MCTdxPageTable, MCTdxMeasure** - instances
  for TLC.

The components compose where they interact: MpAccept runs inside TdxMailbox; TdxHob uses the
acceptance through its two results; IoMmu uses the conversion of TdxPageTable through its
success (the code stops the CPU on anything else); TdxMeasure begins with what TdxStartup
measures.

Operators commented "Mutant" are plausible bugs; with one in place of the definition that
follows it, the property named in `PROJECT.json` fails.

## Runs

| run | shows |
|---|---|
| `mailbox` | 4 CPUs, 2 calls, hand-over: barrier counts, stable arguments, jump target, phases, refinement of ForkJoin, every call returns, every AP relocates |
| `mp_accept` | 3 CPUs, 2 calls in a row: success means accepted, stripes disjoint, nothing outside the range, also in the second call, which finds errors and cursors of the first; calls return |
| `hob` | all lists of up to 3 HOBs and all limits: DXE is told what was accepted, nothing is lost, the cut of a HOB keeps whole pages whole, the HOB area and the handoff table are in accepted memory below 4GB |
| `iommu` | a driver and a preempting notification until memory runs out, then ExitBootServices in every order: shared exactly while mapped, no leak, DMA stays valid, Dma is implemented, devices are halted first, the map key stays valid; and, until the notification comes into a list operation, the list is complete, the tear-down ends and leaves nothing shared |
| `pagetable` | any sequence of conversions, interrupted by conversions of notifications, with refusals, holes and pools that run out: until a notification comes into a split of the entry it converts, only the region changes, success means all of it, the TDX module agrees, calls return unless starved |
| `measure` | SEC to OS with full logs and failures everywhere: the log accounts for the registers, in order, the final events table is its tail since `GetEventLogCalled` was set |
| `iommu_race` (violation) | a notification inside InsertHeadList or RemoveEntryList loses a mapping |
| `measure_gap` (violation) | an event of a notification inside GetEventLog is in neither view |
| `pagetable_ro` (violation) | a pool in 4KB-mapped memory stays writable |
| `mp_silent` (violation) | a range with no part for the APs hangs |
| `mp_release` (violation) | without ASSERT a failure of the BSP is lost |
| `hob_masked` (violation) | a failed HOB is masked by a later success |

Bounds. `mailbox`: the APs are identical and the protocol compares counters only with 0, 1,
`NumOfCpus - 1` and `NumOfCpus`; with three APs these are all different and an AP can be
ahead of one and behind another; two calls reach every reuse of the barrier, since a call
leaves nothing but the arguments behind. The theorems remove the bound.
`mp_accept`: `Big = 3` (not a power of two, and more than 2, so that a middle page of a
fall back exists), chunks of two large pages: the ends 3, 8 and 22 give an exact large page, a
part 3 and a range in which the BSP has a second, short chunk,
the starts 0 and 1 aligned and unaligned ranges. The first large page behind the start of memory is
mapped large or not; at most one page fails (a second failure ends in the same path). Two calls:
a call leaves `Errors[]` and cursors to the next, and no more. `hob`: pages
of 2 bytes so that a limit can fall inside one; regions ending at, across and above 4GB; memory
the VMM calls unaccepted, half a page, and an empty resource.
`iommu`: four pages can be allocated, the last one above 4GB, and each driver has a page of
its own; a common buffer needs three, so a bounce page and a buffer compete for the
last, and every failure path is taken. Two mappings, one of which the notification may have,
are the fewest with which a list can lose an element. Two values of data. The
notification comes into list operations too; with the bound `AfterRace = FALSE` drivers make no new
call after that, but what is under way and ExitBootServices run to their end with the damaged list.
The theorems have no such bound.
`pagetable`: 1GB is two 2MB entries of two pages, which gives every split; the regions, pages 0-3,
1-2, 1 and 0, cover an entry, part of one, and parts of two, and two of them are disjoint parts
of one 2MB entry, so that a notification can meet the split of its own entry; one entry at a time
is refused (`RefuseMany = FALSE`); layouts of 1GB, 2MB and mixed pages and one with a
hole. A pool gives one table, so that pools run out and a split in the protection of the pools
needs another pool. The theorems remove these bounds.
`measure`: event sizes 1 and 2, a log of 3 or 7 (full at the events of SEC, at those of a
handler, or at the 800-155 event) and a final log of 2; `MaxCalls = 6` measurements are enough
for SEC's two to four and a handler, `MaxServed = 1` protocol call of either context with register 1 or
the non-existing 4 that passes the parameter check, `MaxFaults = 1` failure.

Fairness: weak fairness of the BSP's steps and of each AP's. Every wait in this code is a
spin loop, no CPU sleeps or takes interrupts here, and the VMM that stops scheduling a
virtual CPU stops the boot; nothing forces a caller to make another call. `hob` needs no fairness. `iommu`: weak fairness of the firmware once ExitBootServices
runs (nothing else can be scheduled then: the timer is off). `pagetable`: weak fairness of the
CPU in the function, and strong fairness of the interrupted call, which goes on between two
notifications: a notification is a timer's, and the time until the next is longer than it runs.
`measure` has no liveness.

## Findings

1. `Mp.c:165`: an unaligned range of more than 2MB with less than 2MB after the first 2MB
   boundary gets `Length2 = 0`; `MpSerializeStart` releases the APs, no command follows, and
   `MpSerializeEnd` waits for ever (run `mp_silent`). An empty range does the same.
2. `Mp.c:194-217`: `Status` is overwritten by each part; only the ASSERTs keep a failure of
   the BSP from being returned as success (run `mp_release`).
3. `Hob.c:357`: `break` leaves the switch, not the loop (run `hob_masked`).
4. `IoMmu.c:297` and `:469`: Map links and Unmap unlinks a MAP_INFO at the caller's TPL; a
   notification at TPL_NOTIFY that maps or unmaps between two stores of InsertHeadList or
   RemoveEntryList, as XhciDxe's timer may, makes the list lose a mapping, which
   ExitBootServices then leaves shared (run `iommu_race`).
5. `MemoryEncryption.c:315`: the walk that makes a pool read-only takes a 4KB entry for a pointer
   and does nothing (run `pagetable_ro`).
6. `TdTcg2Dxe.c:784`: `GetEventLogCalled` is set after the log was looked at and dumped; an event
   that a notification logs in between is neither in front of the last entry the caller is told of
   nor in the final events table, against the comment at `:781-782` (run `measure_gap`).

Met on the way, without a run, since no line of the code says otherwise: a conversion that a
notification makes inside the split of the same 2MB entry is undone by the older call, so that the
page table and the TDX module disagree on that page, and two calls may take pools and tables
inside one another (`raced` names the case: without it TLC finds `GpaAgrees` and `OnlyTheRegion`
violated); when all accepted ranges below 4GB are single pages and one is at address 0, the HOB
area is empty and HobConstructor writes behind it (`HobListInAcceptedMemory` names the
exception); a resource that is empty or not whole pages passes ValidateHobList and the acceptance
does not return from it, or goes past its end (state `lost` of TdxHob); `MemoryEncryption.c:779` retries a split without memory for ever
(`Returns` names the exception); `:871` passes the address of the last PML4 entry as the table's
base; a measurement of a notification between the copy to the extend buffer and TD.RTMR.EXTEND
extends the wrong digest (`LogAccounts` excludes overlapping calls); `NumberOfEvents` of the final
events table also counts 800-155 events that are not in it (`FinalIsTail` says so); an MrIndex of 4
passes the check at `TdTcg2Dxe.c:1319`; the comment at `Hob.c:275-281` speaks of the largest region
and of the highest one below 4GB, the code uses the largest one below 4GB for both;
`TransferHobList` handles memory allocation HOBs that `ValidateHobList` never lets through.

## Proofs

`TdxMailboxProofs`, for every number of CPUs, any arguments and any number of calls, also
calls without a command, from `CpusAssumption`, `ArgsAssumption` and `CallsAssumption`:
`TypeCorrect`, `Phases`, `ArgsStable`, `Jumps`, `Barrier`, and `Refinement`
(`Spec => ImplementsForkJoin`). The invariants of the run are not inductive by themselves:
that the arguments are stable needs that no AP lags behind in an old round, which needs that
the counters count. `PhaseInv` says for each phase of the BSP what the counters and the command
are and where APs can be; with `TypeOK` it is inductive (checked by `mailbox` first). The
counting steps rest on four lemmas about cardinalities of sets of APs: a counter at
`NumOfCpus - 1` means all APs are there, and one AP that moves changes it by one.

The same invariant gives `DeadlockFree`. `BspSpins` and `ApSpins` are the conditions of the
protocol's loops, written out because `ENABLED` is out of the prover's reach: whenever the BSP spins
some AP does not, unless the call is `Silent` (it has released the APs and sends them nothing).
`SilentCallNeverReturns` is finding 1 for any number of CPUs above one: a silent call stays silent.

`MpAcceptProofs`: `UsesMailbox` shows that MpAccept implements TdxMailbox (every step is a
protocol step or leaves the protocol's variables alone), so `MpArgsStable`, `MpBarrier` and
`MpForkJoin` follow for any ranges, mappings and failures.

`MpWorkProofs`, for every range, mapping of the VMM, chunk size and number of CPUs, from
`RangesAssumption` and `PartitionAssumption`: `WorkInvariance`, `MpTypeCorrect` (`MpTypeOK`),
`OneOwnerAlways` (`OneOwner`), `StaysInRange` (`NothingBeyondRange`) and, assuming
`AssertsEnabled`, `SuccessIsAccepted` (`AcceptedOnSuccess`; without the ASSERTs it is false, run
`mp_release`). The inductive invariant adds to the mailbox's `Inv` that the request is that of the
range (`CallInv`) and where each cursor may be (`CursorOK`: inside a chunk of the CPU's own stripe,
the bytes left being the way to the chunk's end); `OneOwner` follows because stripes are disjoint.
`DoneInv` says what is accepted: `DoneBelow` the cursor, every page of the CPU's stripe, for
the BSP also all of the parts it has finished; and an AP that has finished has its error set or is
done up to the end. `OnlyShortRangesHang` says which calls are silent, and `MpDeadlockFree` that
nothing else blocks: an empty range, or one longer than 2MB without a 2MB page inside. `WorkGoesOn`
is the variant of the two acceptance loops: what a cursor has left (`WorkLeft`, a natural
number) decreases with every TDACCEPTPAGE that does not fail, also when a 2MB page falls back.

`TdxPartitionProofs`: `PartsOfRange` (the parts are the range, part 2 is aligned, the assertions on
`Length3` hold, parts 1 and 3 fit in a chunk, so that the stride applied to them skips nothing),
`StripesShareRange` (the CPUs' stripes are a partition) and `SilentRanges` (when part 2 is empty,
and that such a range is shorter than 4MB), from `PartitionAssumption`: a chunk is a multiple of,
and at least two, large pages.

`TdxPageTableProofs`, for any memory, page sizes, layouts, regions and pools, from
`PageTableAssumption`: `TypeCorrect`, `EntriesAgree` (`Coherent`), `ModuleAgrees` (`GpaAgrees`),
`Converted` (`SuccessMeansDone`) and `RegionOnly` (`OnlyTheRegion`), the last four until `raced`.
The inductive invariant `TableInv` is about two calls, the running and the interrupted one: the
type (`TypeInv`), where each cursor may be (`CursorInv`), that the regions and the write protection
belong to one call each (`FramesInv`), and, until `raced`, `Unraced`: each call has the bit on all
pages from the start of its region to its cursor, and what a split has read of its entry is
still true of it (`Fresh`). The last is the reason for the histories: it holds exactly because a
notification that leaves the entry of a split alone cannot make it false (`UnracedStep`), and
`raced` never goes back (`RacedStays`). `Coherent` is what makes one entry stand for its pages:
without it a step over an entry would convert pages the cursor has not come to. The arithmetic is
in lemmas about `\div`: two entries are nested or disjoint, and an entry that begins at the
cursor is the pages up to its size. Three more theorems are about the loops, raced or not, for the
steps of a call between two interruptions: `LoopGoesOn` (the cursor moves on, or the entry at it is
smaller, or fewer stores of a split are left), `ProtectGoesOn` (the ring of the pools has a number
of pools ahead that decreases, though the walk itself may put pools into it, or the 1GB entry
of the pool is split) and `StarvedForEver` (without memory for a table the conversion stays
where it is).

`TdxHobProofs`, for every HOB list, page size, limit and loader, from `HobAssumption`:
`HobInvariance`, `HobTypeCorrect` (`TypeOK`), `ReportIsExact` (`ReportedIsAccepted`),
`NoMemoryIsLost` (`MemoryIsPreserved`), `CallsAreAligned` (`CallsAreWholePages`) and
`HobListIsUsable` (`HobListInAcceptedMemory`). ProcessHobList and TransferHobList count the accepted
bytes independently; what ties them together is a function from positions of the list to
counts (`Counts`), the same for both. The first loop builds it step by step, so the
invariant says that some such function exists (`PassInv`), and that what is accepted, then what is
reported, is what it gives up to the loop's position (`Taken`). With it no induction over
the list is needed. TLC cannot enumerate the function; it checks the consequences.
`CallsAreAligned` assumes nothing of the VMM's addresses: the limit is whole pages, and so is every
sum of whole pages counted so far, so the cut keeps a whole HOB whole. `HobListIsUsable` also says
that the region is the largest of the ranges, for which the invariant keeps what `low` is the
maximum of, so that it is empty only if there is nothing larger than a page.

`IoMmuProofs`, for any memory and any finite number of mappings, from `IoMmuAssumption`:
`MapKeyValid` (`MapKeyStaysValid`) and `HaltedBeforeTearDown` (`HaltedFirst`). The inductive
invariant `ExitInv` says that once ExitBootServices has begun only the tear-down is in the protocol
(`PcInv`), and that the late event is the last in the queue, behind the notification of every device
not halted yet (`QueueInv`): when it comes to the head, the queue is nothing else, so all devices
are halted.

The other theorems of `IoMmuProofs` are about all interleavings, those inside the list operations
included: `MapInvariance`, `IoMmuTypeCorrect` (`TypeOK`), `OnlyMappedIsShared` (`SharedIsMapped`),
`NoPageIsLost` (`PagesAccounted`), `MappingsStayValid` (`DmaStaysValid`), `ListIsComplete`
(`ListIsMappings`) and the refinement `DmaRefinement` (`ImplementsDma`). What they say of the list,
and that nothing is shared at the OS, is under `~raced`; the rest holds with a damaged list, too,
because it does not depend on the links. None is inductive alone: that a page is shared only while mapped
needs that no two mappings have it, which needs that the allocator's map and the MAP_INFOs agree
at every step of Map and Unmap. `MapInv` is the type, `ExitInv`, `MemInv` (who owns each mapping,
what each page is used for, what a MAP_INFO's fields mean at each step, that bounce pages and
buffers are distinct, which pages are shared), `ListInv` (the links form a ring, for which
the invariant gives the sequence of elements, and inside InsertHeadList or RemoveEntryList a ring
with one half-linked element; until `raced`) and `WalkInv` (where the tear-down is in it). TLC checked `MapInv` on the instance of
`iommu` first. `Listed` is a recursive function over the links; that it visits exactly the
elements of the ring is proved by taking the first position where it would not. The refinement
needs `CopyInv` too, what stash, bounce page and buffer contain at each step; then every step maps
to a step of Dma or changes nothing it can see. `TearDownGoesOn` is the variant of the tear-down: of
the notification of IoMmuDxe, the length of the queue, the mappings in effect and the stage of the
one being undone, in this order, every step of ExitBootServices decreases one and keeps those before
it; device writes change none. The exception is the walk that follows a stale link, which is
possible only after `raced`.

`TdxMeasureProofs`, for any lengths of the two areas, any callers, failures and number of
measurements, from `MeasureAssumption`: `MeasureInvariance`, `MeasureTypeCorrect` (`TypeOK`),
`LogIsAccounted` (`LogAccounts`), `LogIsOrdered` (`LogOrder`) and `FinalTableIsTail`
(`FinalIsTail`). The argument: the buffer always has the digest of the call that began last
(`BufferInv`), so a call either extends its own digest or a notification came into it, and then both
are in `overlap`; of two calls in flight both are. So an undisturbed call is alone and is later than
everything in registers, HOBs and log (`RegInv`, `OrderInv`), which keeps the orders; what is
not logged is recorded (`AccountInv`), and a truncated log gets nothing more, which keeps the losses
behind the rest. HOBs are later than the log as long as the copy runs (`OrderInv`), and `PhaseInv`
says that nothing else measures then. `TailInv` compares the final events table with the log
position by position, and `GapInv` says that between the two steps of the first GetEventLog the log
grows only by what a notification measures. TLC checked all parts on the instance of
`measure` first.

Only model-checked: liveness (out of the prover's reach: `CallsReturn`, `ApsRelocate`,
`MpCallsReturn`, `Returns`, `TearsDown`). What is proved of them is the safety half: who can be
waiting for whom (`DeadlockFree`, `StarvedForEver`) and what decreases (`WorkGoesOn`, `LoopGoesOn`,
`ProtectGoesOn`, `TearDownGoesOn`); that a fair system then comes to the end is TLC's part. The
properties of the runs that expect a violation are refuted there; `AcceptedOnSuccess` is proved with
the hypothesis `mp_release` drops, and `ListIsMappings` is what is left of `MapInfosIsFull`.

## Not modelled

Upstream EDK II is nearly all of the 1.9 million lines of the tree and is not the program of this
repository; of it only the pieces TDVF's own code runs through are modelled (`LinkedList.c`,
the order of events in `CoreExitBootServices`).

Of TDVF's own code: resource attributes, GUID HOB payloads and the byte layout that
ValidateHobList checks; tallies and debug output; 64-bit overflow of addresses; more than 256
CPUs against the 256 entries of `Errors[]`; what becomes of a TD after an acceptance of something
else than whole pages; what the CPU's own page walk meets while Split1GPageTo2M fills a directory
that is in place already; events measured with PE_COFF_IMAGE, for which also EV_NO_ACTION is
extended (`TdTcg2Dxe.c:1326-1337`); how images, variables and tables are hashed and laid
out in an event; the PML4 level, LA57 and cache flushes; SEV. The reset vector's hand-shake is one
flag that is set once. The relocated AP loop waits for the guest OS, which is not here. The
MADT update is a sequence of edits of a table; the MP services are stubs; the #VE handler and
TDVMCALL translate registers and keep no state; platform init and DXE load are sequential.

## Plan

Done: ForkJoin, TdxMailbox, TdxPartition, MpAccept, TdxHob, TdxPageTable, Dma, IoMmu, TdxMeasure
and the proofs above.

Every safety property and both refinements of the passing runs are theorems, and the loops behind
the liveness properties have variants. Left to do: review of the assumptions against callers that
are added later (`HobAssumption`, `PartitionAssumption`), and shorter proofs for `IoMmuProofs`, the
longest module.
