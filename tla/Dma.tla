--------------------------------- MODULE Dma ---------------------------------
(***************************************************************************)
(* What a driver of a TD expects of the IOMMU protocol: a buffer it maps   *)
(* is seen by the device, what the device writes is in the buffer after    *)
(* Unmap, and a common buffer is one store the driver and the device       *)
(* share.  Nothing is said of private and shared memory, of bounce buffers *)
(* or of the stash.                                                        *)
(***************************************************************************)
CONSTANTS
    Mapping,    \* the mappings that can be in effect
    Page,       \* where buffers can be
    Data,       \* what drivers and devices write
    Junk,       \* what a page holds that nobody has written
    NoWindow,   \* the mapping is not in effect
    NoData      \* the driver has no buffer there

VARIABLES
    buf,        \* [Page -> Contents or NoData]: what the driver finds in its buffers
    win         \* [Mapping -> NoWindow or [kind, host, data]]: what the device finds

dmavars == <<buf, win>>

Contents == Data \cup {Junk}

Init ==
    /\ buf \in [Page -> Contents \cup {NoData}]
    /\ win = [m \in Mapping |-> NoWindow]

Windows(h) == {m \in Mapping : win[m] # NoWindow /\ win[m].host = h}

Alloc(h) ==
    /\ buf[h] = NoData
    /\ \E d \in Contents : buf' = [buf EXCEPT ![h] = d]
    /\ UNCHANGED win

Free(h) ==
    /\ buf[h] # NoData
    /\ Windows(h) = {}
    /\ buf' = [buf EXCEPT ![h] = NoData]
    /\ UNCHANGED win

(* The buffer of a Read or Write mapping is the device's until Unmap.      *)
DriverWrite(h, d) ==
    /\ buf[h] # NoData
    /\ \A m \in Windows(h) : win[m].kind = "Common"
    /\ buf' = [buf EXCEPT ![h] = d]
    /\ win' = [m \in Mapping |->
                 IF m \in Windows(h) THEN [win[m] EXCEPT !.data = d] ELSE win[m]]

(* A device that writes sees the buffer in a Common window; in a Write     *)
(* window it may find anything until it has written.                       *)
Map(m, kind, h) ==
    /\ win[m] = NoWindow
    /\ buf[h] # NoData
    /\ \E d \in Contents :
          /\ kind # "Write" => d = buf[h]
          /\ win' = [win EXCEPT ![m] = [kind |-> kind, host |-> h, data |-> d]]
    /\ UNCHANGED buf

DeviceWrite(m, d) ==
    /\ win[m] # NoWindow
    /\ win[m].kind # "Read"
    /\ win' = [win EXCEPT ![m].data = d]
    /\ buf' = IF win[m].kind = "Common" THEN [buf EXCEPT ![win[m].host] = d] ELSE buf

Unmap(m) ==
    /\ win[m] # NoWindow
    /\ win' = [win EXCEPT ![m] = NoWindow]
    /\ buf' = IF win[m].kind = "Read" THEN buf
              ELSE [buf EXCEPT ![win[m].host] = win[m].data]

(* What the driver can do to its buffers, and what the device can do.      *)
BufferStep == \E h \in Page : Alloc(h) \/ Free(h) \/ \E d \in Data : DriverWrite(h, d)

WindowStep ==
    \E m \in Mapping :
        \/ Unmap(m)
        \/ \E d \in Data : DeviceWrite(m, d)
        \/ \E kind \in {"Read", "Write", "Common"}, h \in Page : Map(m, kind, h)

Next == dmavars' # dmavars /\ (BufferStep \/ WindowStep)

Spec == Init /\ [][Next]_dmavars
=============================================================================
