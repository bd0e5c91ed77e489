-------------------------------- MODULE IoMmu --------------------------------
(***************************************************************************)
(* The IOMMU protocol of a TD (IoMmuDxe): devices only reach shared pages, *)
(* so Map gives a device a shared bounce page, or turns a common buffer    *)
(* shared in place with the help of a stash page, and Unmap undoes it.     *)
(* At ExitBootServices the mappings that are left are undone.              *)
(*                                                                         *)
(* The protocol runs in two contexts: "main", the code at TPL_APPLICATION  *)
(* or TPL_CALLBACK, and "timer", an event notification at TPL_NOTIFY that  *)
(* may run, to its end, between any two steps of main (XhciDxe unmaps and  *)
(* maps its buffers in one).  Each context drives one device.              *)
(*                                                                         *)
(* Nobody raises the TPL around mMapInfos, so the list operations are      *)
(* taken apart into their stores: a notification that calls Map or Unmap   *)
(* between two of them may lose a mapping or leave a link to a MAP_INFO    *)
(* that is freed later.  raced records that this has happened, lost that   *)
(* such a link was followed.  The conversion of a page, in which a         *)
(* notification may convert another one, is one step here; TdxPageTable    *)
(* takes it apart.                                                         *)
(*                                                                         *)
(* Buffers are one page long; a common buffer has its header on the page   *)
(* before it.  SEV (MEM_ENCRYPT_SEV_ENABLED) is left out, and so are the   *)
(* parameter checks that change nothing, SetAttribute, which returns       *)
(* EFI_UNSUPPORTED, and a conversion that fails, after which the CPU stops *)
(* (CpuDeadLoop).                                                          *)
(***************************************************************************)
EXTENDS Integers, Sequences, FiniteSets

CONSTANTS
    NumPages,       \* the pages are 0 .. NumPages - 1
    Top4G,          \* the first page above 4GB
    Dac,            \* the contexts that use the 64-bit operations
    HostPage,       \* [Context -> Page]: the page each driver does Read and Write from
    Mapping,        \* MAP_INFO structures in the pool
    ListHead,       \* mMapInfos, the list head
    Data,           \* what drivers and devices write
    Zero,           \* what ZeroMem writes
    Junk,           \* what a page holds after it was converted
    AfterRace       \* bound: drivers go on calling once they raced

Context == {"main", "timer"}
Page == 0 .. NumPages - 1
Node == Mapping \cup {ListHead}
Kind == {"Read", "Write", "Common"}
NoPage == -1

ASSUME IoMmuAssumption ==
    /\ NumPages \in Nat
    /\ Top4G \in Nat
    /\ Dac \subseteq Context
    /\ HostPage \in [Context -> Page]
    /\ HostPage["main"] # HostPage["timer"]
    /\ IsFiniteSet(Mapping) /\ ListHead \notin Mapping
    /\ Zero \in Data /\ Junk \notin Data /\ "none" \notin Data \cup {Junk}
    /\ AfterRace \in BOOLEAN

VARIABLES
    use,        \* the UEFI memory map: what each page is allocated for
    shared,     \* the pages whose shared bit is set
    content,    \* what each page holds
    stashOf,    \* COMMON_BUFFER_HEADER.StashBuffer, by the page of the buffer
    buffers,    \* the common buffers the driver in main has
    info,       \* the MAP_INFO structures: kind, CryptedAddress, PlainTextAddress
    inPool,     \* the MAP_INFO structures that are free
    held,       \* the mappings each driver has in effect
    list,       \* the links of mMapInfos
    pc,         \* where each context is in the protocol's functions
    arg,        \* the mapping or the page the function works on
    node,       \* NextNode of IoMmuUnmapAllMappings
    raced,      \* history: the timer called Map or Unmap inside a list operation of main
    lost,       \* a link led to a MAP_INFO that is not in use any more
    phase,      \* "boot", "exit": ExitBootServices runs, "os"
    queue,      \* the event notifications queued by ExitBootServices
    halted      \* the devices whose driver has stopped them

memVars == <<use, shared, content, stashOf, buffers>>
mapVars == <<info, inPool, held, list>>
ctlVars == <<pc, arg, node, raced, lost>>
exitVars == <<phase, queue, halted>>
vars == <<memVars, mapVars, ctlVars, exitVars>>

(* Memory nobody has: what it holds means nothing.                         *)
NoInfo == [kind |-> "Read", crypted |-> NoPage, plain |-> NoPage]

Free == {p \in Page : use[p] = "free"}

Init ==
    /\ use = [p \in Page |-> IF \E c \in Context : p = HostPage[c] THEN "host" ELSE "free"]
    /\ shared = {}
    /\ content = [p \in Page |-> IF use[p] = "host" THEN Zero ELSE Junk]
    /\ stashOf = [p \in Page |-> NoPage]
    /\ buffers = {}
    /\ info = [m \in Mapping |-> NoInfo]
    /\ inPool = Mapping
    /\ held = [c \in Context |-> {}]
    /\ list = [fwd |-> [n \in Node |-> ListHead], back |-> [n \in Node |-> ListHead]]
    /\ pc = [c \in Context |-> "idle"]
    /\ arg = [c \in Context |-> NoPage]
    /\ node = ListHead
    /\ raced = FALSE
    /\ lost = FALSE
    /\ phase = "boot"
    /\ queue = <<>>
    /\ halted = {}

(* A notification at TPL_NOTIFY preempts main and runs to its end.         *)
Runs(c) == ~lost /\ IF c = "main" THEN pc["timer"] = "idle" ELSE phase = "boot"

(* A driver calls the protocol before ExitBootServices.                    *)
Calls(c) == Runs(c) /\ pc[c] = "idle" /\ phase = "boot" /\ (raced => AfterRace)

At(c, label) == Runs(c) /\ pc[c] = label

Goto(c, label) == pc' = [pc EXCEPT ![c] = label]

Return(c) == Goto(c, "idle") /\ arg' = [arg EXCEPT ![c] = NoPage]

-----------------------------------------------------------------------------
(* The linked list of BaseLib, store by store: InsertHeadList fills in the *)
(* entry from the head and hooks it in from behind and from before;        *)
(* RemoveEntryList undoes the two hooks.  The links of an entry that is    *)
(* not in the list, which nobody reads, are ListHead.                      *)
InsertPrepare(e) ==
    list' = [fwd  |-> [list.fwd EXCEPT ![e] = list.fwd[ListHead]],
             back |-> [list.back EXCEPT ![e] = ListHead]]

InsertBack(e) == list' = [list EXCEPT !.back = [@ EXCEPT ![list.fwd[e]] = e]]

InsertForward(e) == list' = [list EXCEPT !.fwd = [@ EXCEPT ![ListHead] = e]]

RemoveBack(e) == list' = [list EXCEPT !.back = [@ EXCEPT ![list.fwd[e]] = list.back[e]]]

(* Mutant: the link of the entry before e is not changed.                  *)
RemoveHalf(e) ==
    list' = [fwd  |-> list.fwd,
             back |-> [list.back EXCEPT ![e] = ListHead]]

RemoveForward(e) ==
    list' = [fwd  |-> [list.fwd EXCEPT ![list.back[e]] = list.fwd[e], ![e] = ListHead],
             back |-> [list.back EXCEPT ![e] = ListHead]]

Held == held["main"] \cup held["timer"]

(* Where main has made some of the stores of a list operation.             *)
Window == {"link", "hook", "unhook"}

(* The link that c is about to follow leads to a MAP_INFO that was freed   *)
(* or, in the walk of IoMmuUnmapAllMappings, undone already.               *)
Dangling(c) ==
    CASE pc[c] \in {"link", "unlink"} -> list.fwd[arg[c]] \in inPool
      [] pc[c] = "unhook" -> list.back[arg[c]] \in inPool
      [] pc[c] = "walk" -> node \notin Held \cup {ListHead}
      [] OTHER -> FALSE

(* Context c calls Map or Unmap, both of which change the list.            *)
Touches(c) == raced' = (raced \/ (c = "timer" /\ pc["main"] \in Window))

(* The nodes a walk from the head meets.                                   *)
Walk[n \in Nat] ==
    IF n = 0 THEN {list.fwd[ListHead]}
    ELSE Walk[n - 1] \cup {list.fwd[x] : x \in Walk[n - 1] \ {ListHead}}

Listed == Walk[Cardinality(Mapping)] \ {ListHead}

-----------------------------------------------------------------------------
(* AllocateBuffer and FreeBuffer, which the driver in main calls.          *)

(* The stash comes first; without it nothing else happens.                 *)
AllocateBufferStash ==
    /\ Calls("main")
    /\ \E p \in Free :
          /\ use' = [use EXCEPT ![p] = "stash"]
          /\ arg' = [arg EXCEPT !["main"] = p]
    /\ Goto("main", "allocate")
    /\ UNCHANGED <<shared, content, stashOf, buffers, mapVars, node, raced, lost, exitVars>>

(* The page of a header and the buffer behind it, below 4GB unless the     *)
(* caller passes EDKII_IOMMU_ATTRIBUTE_DUAL_ADDRESS_CYCLE.                 *)
AllocateBufferPages ==
    /\ At("main", "allocate")
    /\ \E p \in Free, dac \in BOOLEAN :
          /\ p + 1 \in Free
          /\ dac \/ p + 1 < Top4G
          /\ use' = [use EXCEPT ![p] = "header", ![p + 1] = "common"]
          /\ stashOf' = [stashOf EXCEPT ![p + 1] = arg["main"]]
          /\ buffers' = buffers \cup {p + 1}
    /\ Return("main")
    /\ UNCHANGED <<shared, content, mapVars, node, raced, lost, exitVars>>

(* Mutant: the failure path returns without FreePages(StashBuffer).        *)
LeakStash ==
    /\ At("main", "allocate")
    /\ \E dac \in BOOLEAN : ~ \E p \in Free : p + 1 \in Free /\ (dac \/ p + 1 < Top4G)
    /\ Return("main")
    /\ UNCHANGED <<memVars, mapVars, node, raced, lost, exitVars>>

(* There are no such pages: FreeStashBuffer.                               *)
AllocateBufferFails ==
    /\ At("main", "allocate")
    /\ \E dac \in BOOLEAN : ~ \E p \in Free : p + 1 \in Free /\ (dac \/ p + 1 < Top4G)
    /\ use' = [use EXCEPT ![arg["main"]] = "free"]
    /\ Return("main")
    /\ UNCHANGED <<shared, content, stashOf, buffers, mapVars, node, raced, lost, exitVars>>

InUse(h) == \E c \in Context : \E m \in held[c] : info[m].crypted = h

FreeBuffer(b) ==
    /\ Calls("main")
    /\ b \in buffers
    /\ ~InUse(b)
    /\ use' = [use EXCEPT ![stashOf[b]] = "free", ![b - 1] = "free", ![b] = "free"]
    /\ content' = [content EXCEPT ![stashOf[b]] = Junk, ![b] = Junk]
    /\ stashOf' = [stashOf EXCEPT ![b] = NoPage]
    /\ buffers' = buffers \ {b}
    /\ UNCHANGED <<shared, mapVars, ctlVars, exitVars>>

-----------------------------------------------------------------------------
(* IoMmuMap.                                                               *)

(* AllocatePool(MAP_INFO).  The driver maps its own page, or a common      *)
(* buffer, that is not mapped already.                                     *)
MapInfo(c, kind, h) ==
    /\ Calls(c)
    /\ IF kind = "Common" THEN c = "main" /\ h \in buffers ELSE h = HostPage[c]
    /\ ~InUse(h)
    /\ \E m \in inPool :
          /\ info' = [info EXCEPT ![m] = [kind |-> kind, crypted |-> h, plain |-> NoPage]]
          /\ inPool' = inPool \ {m}
          /\ arg' = [arg EXCEPT ![c] = m]
    /\ Goto(c, "map")
    /\ Touches(c)
    /\ UNCHANGED <<memVars, held, list, node, lost, exitVars>>

Bounce(c) == {p \in Free : c \in Dac \/ p < Top4G}

(* Mutant: the address AllocatePages returns is not kept.                  *)
ForgetBounce(c) ==
    /\ At(c, "map")
    /\ info[arg[c]].kind # "Common"
    /\ \E p \in Bounce(c) : use' = [use EXCEPT ![p] = "bounce"]
    /\ Goto(c, "clear")
    /\ UNCHANGED <<shared, content, stashOf, buffers, mapVars, arg, node, raced, lost, exitVars>>

(* The bounce page of a Read or a Write.                                   *)
MapBounce(c) ==
    /\ At(c, "map")
    /\ info[arg[c]].kind # "Common"
    /\ \E p \in Bounce(c) :
          /\ use' = [use EXCEPT ![p] = "bounce"]
          /\ info' = [info EXCEPT ![arg[c]].plain = p]
    /\ Goto(c, "clear")
    /\ UNCHANGED <<shared, content, stashOf, buffers, inPool, held, list, arg, node, raced, lost,
                   exitVars>>

(* Mutant: only the start of the buffer is compared.                       *)
StartTooHigh(c, m) == c \notin Dac /\ info[m].crypted > Top4G

(* The buffer must end at or below 4GB.                                    *)
TooHigh(c, m) == c \notin Dac /\ info[m].crypted + 1 > Top4G

(* Mutant: the conversion destroys the data before it is stashed.          *)
NoStash(c) ==
    LET m == arg[c]
    IN  /\ At(c, "map")
        /\ info[m].kind = "Common"
        /\ ~TooHigh(c, m)
        /\ info' = [info EXCEPT ![m].plain = info[m].crypted]
        /\ Goto(c, "clear")
        /\ UNCHANGED <<memVars, inPool, held, list, arg, node, raced, lost, exitVars>>

(* A common buffer is converted in place: its data go to the stash.        *)
MapCommon(c) ==
    LET m == arg[c]
        h == info[m].crypted
    IN  /\ At(c, "map")
        /\ info[m].kind = "Common"
        /\ ~TooHigh(c, m)
        /\ info' = [info EXCEPT ![m].plain = h]
        /\ content' = [content EXCEPT ![stashOf[h]] = content[h]]
        /\ Goto(c, "clear")
        /\ UNCHANGED <<use, shared, stashOf, buffers, inPool, held, list, arg, node, raced, lost,
                       exitVars>>

(* No page is left, or the common buffer is too high: FreePool(MapInfo).   *)
MapFails(c) ==
    LET m == arg[c]
    IN  /\ At(c, "map")
        /\ IF info[m].kind = "Common" THEN TooHigh(c, m) ELSE Bounce(c) = {}
        /\ inPool' = inPool \cup {m}
        /\ info' = [info EXCEPT ![m] = NoInfo]
        /\ Return(c)
        /\ UNCHANGED <<memVars, held, list, node, raced, lost, exitVars>>

(* MemEncryptTdxClearPageEncMask: the page is shared from now on.          *)
MapClear(c) ==
    LET p == info[arg[c]].plain
    IN  /\ At(c, "clear")
        /\ shared' = shared \cup {p}
        /\ content' = [content EXCEPT ![p] = Junk]
        /\ Goto(c, "copy")
        /\ UNCHANGED <<use, stashOf, buffers, mapVars, arg, node, raced, lost, exitVars>>

(* The device gets the data, from the buffer or from the stash; then       *)
(* InsertHeadList begins.                                                  *)
MapCopy(c) ==
    LET i == info[arg[c]]
    IN  /\ At(c, "copy")
        /\ content' = CASE i.kind = "Read"   -> [content EXCEPT ![i.plain] = content[i.crypted]]
                        [] i.kind = "Common" -> [content EXCEPT ![i.plain] =
                                                   content[stashOf[i.crypted]]]
                        [] i.kind = "Write"  -> content
        /\ InsertPrepare(arg[c])
        /\ Goto(c, "link")
        /\ UNCHANGED <<use, shared, stashOf, buffers, info, inPool, held, arg, node, raced, lost,
                       exitVars>>

(* The second store of InsertHeadList follows the link of the first one.   *)
MapLink(c) ==
    /\ At(c, "link")
    /\ ~Dangling(c)
    /\ InsertBack(arg[c])
    /\ Goto(c, "hook")
    /\ UNCHANGED <<memVars, info, inPool, held, arg, node, raced, lost, exitVars>>

(* The last store; then the driver has its mapping.                        *)
MapReturn(c) ==
    /\ At(c, "hook")
    /\ InsertForward(arg[c])
    /\ held' = [held EXCEPT ![c] = @ \cup {arg[c]}]
    /\ Return(c)
    /\ UNCHANGED <<memVars, info, inPool, node, raced, lost, exitVars>>

-----------------------------------------------------------------------------
(* IoMmuUnmapWorker.                                                       *)

(* Mutant: IoMmuUnmapAllMappings calls IoMmuUnmap.                         *)
NeverLocked == FALSE

(* MemoryMapLocked is TRUE in the calls of IoMmuUnmapAllMappings.          *)
MemoryMapLocked == phase # "boot"

(* Context c starts to undo m: what the device wrote goes to the buffer,   *)
(* or to the stash of a common buffer.                                     *)
UnmapStart(c, m) ==
    LET i == info[m]
    IN  /\ content' = CASE i.kind = "Read"   -> content
                        [] i.kind = "Write"  -> [content EXCEPT ![i.crypted] = content[i.plain]]
                        [] i.kind = "Common" -> [content EXCEPT ![stashOf[i.plain]] =
                                                   content[i.plain]]
        /\ arg' = [arg EXCEPT ![c] = m]
        /\ held' = [d \in Context |-> held[d] \ {m}]
        /\ Goto(c, "encrypt")
        /\ UNCHANGED <<use, shared, stashOf, buffers, info, inPool, list, exitVars>>

Unmap(c) ==
    /\ Calls(c)
    /\ \E m \in held[c] : UnmapStart(c, m)
    /\ Touches(c)
    /\ UNCHANGED <<node, lost>>

(* Mutant: a common buffer is left as it is.                               *)
EncryptBounceOnly(c) ==
    LET i == info[arg[c]]
    IN  /\ At(c, "encrypt")
        /\ shared' = IF i.kind = "Common" THEN shared ELSE shared \ {i.plain}
        /\ content' = [content EXCEPT ![i.plain] = Junk]
        /\ Goto(c, "restore")
        /\ UNCHANGED <<use, stashOf, buffers, mapVars, arg, node, raced, lost, exitVars>>

(* MemEncryptTdxSetPageEncMask.                                            *)
UnmapEncrypt(c) ==
    LET p == info[arg[c]].plain
    IN  /\ At(c, "encrypt")
        /\ shared' = shared \ {p}
        /\ content' = [content EXCEPT ![p] = Junk]
        /\ Goto(c, "restore")
        /\ UNCHANGED <<use, stashOf, buffers, mapVars, arg, node, raced, lost, exitVars>>

(* The common buffer gets its data back, or the bounce page is cleared and *)
(* freed.                                                                  *)
UnmapRestore(c) ==
    LET i == info[arg[c]]
    IN  /\ At(c, "restore")
        /\ content' = CASE i.kind = "Common" -> [content EXCEPT ![i.crypted] =
                                                   content[stashOf[i.crypted]]]
                        [] OTHER -> [content EXCEPT ![i.plain] =
                                       IF MemoryMapLocked THEN Zero ELSE Junk]
        /\ use' = IF i.kind = "Common" \/ MemoryMapLocked THEN use
                  ELSE [use EXCEPT ![i.plain] = "free"]
        /\ Goto(c, "unlink")
        /\ UNCHANGED <<shared, stashOf, buffers, mapVars, arg, node, raced, lost, exitVars>>

(* RemoveEntryList: the back link of the entry behind.                     *)
UnmapUnlink(c) ==
    /\ At(c, "unlink")
    /\ ~Dangling(c)
    /\ RemoveBack(arg[c])
    /\ Goto(c, "unhook")
    /\ UNCHANGED <<memVars, info, inPool, held, arg, node, raced, lost, exitVars>>

(* The forward link of the entry before; then FreePool(MapInfo), unless    *)
(* the memory map is locked.                                               *)
UnmapForget(c) ==
    /\ At(c, "unhook")
    /\ ~Dangling(c)
    /\ RemoveForward(arg[c])
    /\ IF MemoryMapLocked
       THEN /\ Goto(c, "walk")
            /\ UNCHANGED <<info, inPool, arg>>
       ELSE /\ Return(c)
            /\ inPool' = inPool \cup {arg[c]}
            /\ info' = [info EXCEPT ![arg[c]] = NoInfo]
    /\ UNCHANGED <<memVars, held, node, raced, lost, exitVars>>

-----------------------------------------------------------------------------
(* ExitBootServices: it queues the notifications of its event group, that  *)
(* of IoMmuDxe among those of the drivers, in an order nobody knows.       *)

Notifications == Context \cup {"IoMmuExitBoot"}

ExitBootServices ==
    /\ At("main", "idle")
    /\ phase = "boot"
    /\ phase' = "exit"
    /\ \E q \in [1 .. 3 -> Notifications] :
          /\ \A i, j \in 1 .. 3 : q[i] = q[j] => i = j
          /\ queue' = q
    /\ UNCHANGED <<memVars, mapVars, ctlVars, halted>>

(* The next notification is called.                                        *)
Dispatch(event) ==
    /\ phase = "exit"
    /\ pc["main"] = "idle"
    /\ queue # <<>>
    /\ Head(queue) = event

(* The driver of device c halts its controller (XhcExitBootService); it    *)
(* leaves its mappings to IoMmuUnmapAllMappings.                           *)
HaltDevice(c) ==
    /\ Dispatch(c)
    /\ queue' = Tail(queue)
    /\ halted' = halted \cup {c}
    /\ UNCHANGED <<memVars, mapVars, ctlVars, phase>>

(* Mutant: IoMmuExitBoot undoes the mappings itself.                       *)
UnmapAtOnce ==
    /\ Dispatch("IoMmuExitBoot")
    /\ queue' = Tail(queue)
    /\ Goto("main", "walk")
    /\ node' = list.fwd[ListHead]
    /\ UNCHANGED <<memVars, mapVars, arg, raced, lost, phase, halted>>

(* Mutant: nobody signals the late event.                                  *)
NoSignal ==
    /\ Dispatch("IoMmuExitBoot")
    /\ queue' = Tail(queue)
    /\ UNCHANGED <<memVars, mapVars, ctlVars, phase, halted>>

(* SignalEvent(UnmapAllMappingsEvent) queues behind what is queued.        *)
IoMmuExitBoot ==
    /\ Dispatch("IoMmuExitBoot")
    /\ queue' = Append(Tail(queue), "IoMmuUnmapAllMappings")
    /\ UNCHANGED <<memVars, mapVars, ctlVars, phase, halted>>

IoMmuUnmapAllMappings ==
    /\ Dispatch("IoMmuUnmapAllMappings")
    /\ queue' = Tail(queue)
    /\ Goto("main", "walk")
    /\ node' = list.fwd[ListHead]
    /\ UNCHANGED <<memVars, mapVars, arg, raced, lost, phase, halted>>

(* One round of the loop: NextNode is read before Node is unmapped.        *)
UnmapAllNode ==
    /\ At("main", "walk")
    /\ node # ListHead /\ ~Dangling("main")
    /\ node' = list.fwd[node]
    /\ UnmapStart("main", node)
    /\ UNCHANGED <<raced, lost>>

UnmapAllDone ==
    /\ At("main", "walk")
    /\ node = ListHead
    /\ Return("main")
    /\ UNCHANGED <<memVars, mapVars, node, raced, lost, exitVars>>

(* Whatever the code reads or writes at a link that dangles, nothing is    *)
(* known of what follows.                                                  *)
Dangles(c) ==
    /\ Runs(c)
    /\ Dangling(c)
    /\ lost' = TRUE
    /\ UNCHANGED <<memVars, mapVars, pc, arg, node, raced, exitVars>>

(* ExitBootServices returns to the OS loader.                              *)
ExitReturns ==
    /\ phase = "exit"
    /\ pc["main"] = "idle"
    /\ queue = <<>>
    /\ phase' = "os"
    /\ UNCHANGED <<memVars, mapVars, ctlVars, queue, halted>>

-----------------------------------------------------------------------------
(* The driver of device c fills a buffer; its device writes to an address  *)
(* Map gave it, which reaches the page only when it is shared.             *)
DriverWrite(c, h, d) ==
    /\ Calls(c)
    /\ (h = HostPage[c] /\ ~InUse(h)) \/ (c = "main" /\ h \in buffers)
    /\ content' = [content EXCEPT ![h] = d]
    /\ UNCHANGED <<use, shared, stashOf, buffers, mapVars, ctlVars, exitVars>>

DeviceWrite(c, m, d) ==
    /\ c \notin halted
    /\ m \in held[c]
    /\ info[m].kind # "Read"
    /\ info[m].plain \in shared
    /\ content' = [content EXCEPT ![info[m].plain] = d]
    /\ UNCHANGED <<use, shared, stashOf, buffers, mapVars, ctlVars, exitVars>>

Protocol(c) ==
    \/ \E kind \in Kind, h \in Page : MapInfo(c, kind, h)
    \/ MapBounce(c)
    \/ MapCommon(c)
    \/ MapFails(c)
    \/ MapClear(c)
    \/ MapCopy(c)
    \/ MapLink(c)
    \/ MapReturn(c)
    \/ Unmap(c)
    \/ UnmapEncrypt(c)
    \/ UnmapRestore(c)
    \/ UnmapUnlink(c)
    \/ UnmapForget(c)
    \/ Dangles(c)

Exit ==
    \/ \E c \in Context : HaltDevice(c)
    \/ IoMmuExitBoot
    \/ IoMmuUnmapAllMappings
    \/ UnmapAllNode
    \/ UnmapAllDone
    \/ ExitReturns

Next ==
    \/ AllocateBufferStash
    \/ AllocateBufferPages
    \/ AllocateBufferFails
    \/ \E b \in Page : FreeBuffer(b)
    \/ \E c \in Context : Protocol(c)
    \/ ExitBootServices
    \/ Exit
    \/ \E c \in Context, h \in Page, d \in Data : DriverWrite(c, h, d)
    \/ \E c \in Context, m \in Mapping, d \in Data : DeviceWrite(c, m, d)

(* Once ExitBootServices is called the firmware runs it to its end.        *)
Fairness == WF_vars(phase = "exit" /\ (Protocol("main") \/ Exit))

Spec == Init /\ [][Next]_vars /\ Fairness

-----------------------------------------------------------------------------
(* Properties.                                                             *)

TypeOK ==
    /\ use \in [Page -> {"free", "host", "bounce", "stash", "header", "common"}]
    /\ shared \subseteq Page
    /\ content \in [Page -> Data \cup {Junk}]
    /\ stashOf \in [Page -> Page \cup {NoPage}]
    /\ buffers \subseteq Page
    /\ info \in [Mapping -> [kind : Kind, crypted : Page \cup {NoPage},
                             plain : Page \cup {NoPage}]]
    /\ inPool \subseteq Mapping
    /\ held \in [Context -> SUBSET Mapping]
    /\ list \in [fwd : [Node -> Node], back : [Node -> Node]]
    /\ pc \in [Context -> {"idle", "allocate", "map", "clear", "copy", "link", "hook",
                           "encrypt", "restore", "unlink", "unhook", "walk"}]
    /\ arg \in [Context -> Page \cup Mapping \cup {NoPage}]
    /\ node \in Node
    /\ raced \in BOOLEAN /\ lost \in BOOLEAN
    /\ phase \in {"boot", "exit", "os"}
    /\ queue \in Seq(Notifications \cup {"IoMmuUnmapAllMappings"})
    /\ halted \subseteq Context

(* The mappings a function is establishing or undoing.                     *)
AtWork(labels) == {arg[c] : c \in {d \in Context : pc[d] \in labels}}

(* A page is shared exactly while a mapping needs it: from the             *)
(* ClearPageEncMask of its Map to the SetPageEncMask of its Unmap, and it  *)
(* is a bounce page or a common buffer, never a free page, a stash, a      *)
(* header or a driver's own page.  After ExitBootServices none is, unless  *)
(* a notification ran inside a list operation.                             *)
SharedIsMapped ==
    /\ shared = {info[m].plain : m \in Held \cup AtWork({"copy", "link", "hook", "encrypt"})}
    /\ \A p \in shared : use[p] \in {"bounce", "common"}
    /\ phase = "os" /\ ~raced => shared = {}

(* Every allocated page belongs to something that will free it: a stash to *)
(* a common buffer (or to the AllocateBuffer that has just got it), a      *)
(* bounce page to a mapping.  No failure path forgets one.                 *)
PagesAccounted ==
    LET Bouncing == {m \in Held \cup AtWork({"clear", "copy", "link", "hook", "encrypt",
                                             "restore"}) : info[m].kind # "Common"}
    IN  /\ {p \in Page : use[p] = "stash"} =
               {stashOf[b] : b \in buffers} \cup AtWork({"allocate"})
        /\ {p \in Page : use[p] = "common"} = buffers
        /\ {p \in Page : use[p] = "header"} = {b - 1 : b \in buffers}
        /\ phase = "boot" => {p \in Page : use[p] = "bounce"} = {info[m].plain : m \in Bouncing}

(* A device that was not halted finds every page it was given shared,      *)
(* below 4GB when it cannot address more, and in no other mapping.         *)
DmaStaysValid ==
    \A c \in Context : \A m \in held[c] :
        /\ info[m].plain \in shared
        /\ c \in Dac \/ info[m].plain < Top4G
        /\ \A n \in Held \ {m} : info[n].plain # info[m].plain

(* IoMmu.c:31-34: the list is the full set of mappings in effect, those    *)
(* that an Unmap has not removed yet among them.  Two contexts change it   *)
(* and nobody raises the TPL, so this fails once a notification has        *)
(* changed the list inside a list operation of main.                       *)
MapInfosIsFull ==
    Listed = Held \cup AtWork({"encrypt", "restore", "unlink", "unhook"})

(* It fails for no other reason: a notification anywhere else in Map or    *)
(* Unmap leaves the list full, and no link ever leads to a MAP_INFO that   *)
(* was freed or undone.                                                    *)
ListIsMappings ==
    /\ ~raced => MapInfosIsFull
    /\ lost => raced

(* IoMmuUnmapAllMappings:854: no mapping is undone under a device that     *)
(* runs, except by the driver of the device itself before the exit.        *)
HaltedFirst ==
    [][\A c \in Context : phase = "exit" /\ held'[c] # held[c] => c \in halted]_vars

(* Once ExitBootServices has taken the memory map nothing is allocated or  *)
(* freed, pages or pool.                                                   *)
MapKeyStaysValid == [][phase # "boot" => UNCHANGED <<use, inPool>>]_vars

(* Every ExitBootServices comes to its end, with no page left shared,      *)
(* unless a notification ran inside a list operation before.               *)
TearsDown == (phase = "exit") ~> ((phase = "os" /\ shared = {}) \/ raced)

-----------------------------------------------------------------------------
(* The driver's view.  A common buffer that is being converted has its     *)
(* data in the stash.                                                      *)
Converting(h) ==
    \E c \in Context :
        /\ pc[c] \in {"clear", "copy", "encrypt", "restore"}
        /\ info[arg[c]].kind = "Common"
        /\ info[arg[c]].crypted = h

NoWindow == [kind |-> "none", host |-> NoPage, data |-> Junk]

DmaView ==
    INSTANCE Dma WITH
        NoWindow <- NoWindow,
        NoData <- "none",
        buf <- [p \in Page |->
                  IF use[p] \notin {"host", "common"} THEN "none"
                  ELSE IF Converting(p) THEN content[stashOf[p]] ELSE content[p]],
        win <- [m \in Mapping |->
                  IF m \in Held THEN [kind |-> info[m].kind, host |-> info[m].crypted,
                                      data |-> content[info[m].plain]]
                  ELSE NoWindow]

(* Conversions, stash and bounce pages are invisible to the driver and the *)
(* device: they see the buffer they agreed on, at every step.              *)
ImplementsDma == DmaView!Spec
=============================================================================
