------------------------------ MODULE IoMmuProofs ------------------------------
(***************************************************************************)
(* For any memory, any number of mappings and any order of the             *)
(* notifications: what ExitBootServices may rely on; the mappings, their   *)
(* pages and the list mMapInfos at every step of the protocol; and that    *)
(* the driver and the device see no more than Dma.                         *)
(***************************************************************************)
EXTENDS IoMmu, SequenceTheorems, FiniteSetTheorems, WellFoundedInduction, TLAPS

Labels == {"idle", "allocate", "map", "clear", "copy", "link", "hook",
           "encrypt", "restore", "unlink", "unhook", "walk"}

UnmapAll == "IoMmuUnmapAllMappings"

(* Once ExitBootServices has begun nobody but IoMmuUnmapAllMappings is in  *)
(* the protocol.                                                           *)
PcInv ==
    /\ pc \in [Context -> Labels]
    /\ phase # "boot" => pc["timer"] = "idle"
                         /\ pc["main"] \in {"idle", "walk", "encrypt", "restore", "unlink",
                                            "unhook"}
    /\ pc["main"] = "walk" => phase # "boot"

(* The late event is queued behind every notification of the event group,  *)
(* and a device that was not halted has its notification still to come.    *)
QueueInv ==
    phase = "exit" =>
        /\ queue \in Seq(Notifications \cup {UnmapAll})
        /\ \A i \in 1 .. Len(queue) : queue[i] = UnmapAll => i = Len(queue)
        /\ \A i, j \in 1 .. Len(queue) : queue[i] = "IoMmuExitBoot" =>
              queue[j] # UnmapAll /\ (queue[j] = "IoMmuExitBoot" => i = j)
        /\ \A c \in Context : c \in halted \/ \E i \in 1 .. Len(queue) : queue[i] = c
        /\ pc["main"] # "idle" => Context \subseteq halted

ExitInv == PcInv /\ QueueInv

(* What is left to do of an unmapping, whoever asked for it.               *)
UnmapGoesOn(c) == UnmapEncrypt(c) \/ UnmapRestore(c) \/ UnmapUnlink(c) \/ UnmapForget(c)

LEMMA InitExit == Init => ExitInv
  BY DEF Init, ExitInv, PcInv, QueueInv, Context, Labels

(* What a call of the protocol by c does to the places of the contexts.    *)
LEMMA GotoType ==
    ASSUME PcInv, NEW c \in Context, NEW l \in Labels, Goto(c, l)
    PROVE  /\ pc' \in [Context -> Labels]
           /\ pc'[c] = l
           /\ \A d \in Context : d # c => pc'[d] = pc[d]
  BY DEF PcInv, Goto

(* The steps of Map, and of the callers of Unmap: before ExitBootServices. *)
LEMMA BootSteps ==
    ASSUME PcInv, NEW c \in Context,
           \/ \E kind \in Kind, h \in Page : MapInfo(c, kind, h)
           \/ MapBounce(c)
           \/ MapCommon(c)
           \/ MapFails(c)
           \/ MapClear(c)
           \/ MapCopy(c)
           \/ MapLink(c)
           \/ MapReturn(c)
           \/ Unmap(c)
    PROVE  phase = "boot" /\ phase' = "boot" /\ \E l \in Labels \ {"walk"} : Goto(c, l)
<1>0. c = "main" \/ c = "timer"
  BY DEF Context
<1>1. ASSUME At(c, "map") \/ At(c, "clear") \/ At(c, "copy") \/ At(c, "link") \/ At(c, "hook")
      PROVE  phase = "boot"
  BY <1>0, <1>1 DEF PcInv, At, Runs
<1>2. ASSUME NEW kind \in Kind, NEW h \in Page, MapInfo(c, kind, h)
      PROVE  phase = "boot" /\ phase' = "boot" /\ Goto(c, "map")
  BY <1>2 DEF MapInfo, Calls, exitVars
<1>3. CASE MapBounce(c)
  BY <1>1, <1>3 DEF MapBounce, exitVars, Labels
<1>4. CASE MapCommon(c)
  BY <1>1, <1>4 DEF MapCommon, exitVars, Labels
<1>5. CASE MapFails(c)
  BY <1>1, <1>5 DEF MapFails, Return, exitVars, Labels
<1>6. CASE MapClear(c)
  BY <1>1, <1>6 DEF MapClear, exitVars, Labels
<1>7. CASE MapCopy(c)
  <2>1. At(c, "copy") /\ Goto(c, "link") /\ UNCHANGED exitVars
    BY <1>7, Zenon DEF MapCopy
  <2>2. QED
    BY <1>1, <2>1 DEF exitVars, Labels
<1>11. CASE MapLink(c)
  BY <1>1, <1>11 DEF MapLink, exitVars, Labels
<1>8. CASE MapReturn(c)
  BY <1>1, <1>8 DEF MapReturn, Return, exitVars, Labels
<1>9. CASE Unmap(c)
  <2>1. Calls(c) /\ Goto(c, "encrypt") /\ UNCHANGED exitVars
    BY <1>9, Zenon DEF Unmap, UnmapStart
  <2>2. QED
    BY <2>1 DEF Calls, exitVars, Labels
<1>10. QED
  BY <1>2, <1>3, <1>4, <1>5, <1>6, <1>7, <1>8, <1>9, <1>11 DEF Labels

(* The three calls of main that AllocateBuffer is made of: before          *)
(* ExitBootServices too.                                                   *)
LEMMA AllocateSteps ==
    ASSUME PcInv, AllocateBufferStash \/ AllocateBufferPages \/ AllocateBufferFails
    PROVE  phase = "boot" /\ phase' = "boot" /\ \E l \in Labels \ {"walk"} : Goto("main", l)
<1>1. CASE AllocateBufferStash
  BY <1>1 DEF AllocateBufferStash, Calls, exitVars, Labels
<1>2. CASE AllocateBufferPages
  BY <1>2 DEF AllocateBufferPages, At, Return, PcInv, exitVars, Labels
<1>3. CASE AllocateBufferFails
  BY <1>3 DEF AllocateBufferFails, At, Return, PcInv, exitVars, Labels
<1>4. QED
  BY <1>1, <1>2, <1>3

(* The rest of an unmapping.                                               *)
LEMMA UnmapSteps ==
    ASSUME PcInv, NEW c \in Context, UnmapGoesOn(c)
    PROVE  /\ UNCHANGED <<held, exitVars>>
           /\ \E l \in Labels : /\ Goto(c, l)
                                /\ phase # "boot" => l \in {"restore", "unlink", "unhook", "walk"}
                                /\ phase = "boot" => l # "walk"
           /\ phase # "boot" => c = "main" /\ pc["main"] # "idle" /\ UNCHANGED <<use, inPool>>
<1>0. c = "main" \/ c = "timer"
  BY DEF Context
<1>1. CASE UnmapEncrypt(c)
  BY <1>0, <1>1 DEF UnmapEncrypt, At, Runs, PcInv, mapVars, exitVars, Labels
<1>2. CASE UnmapRestore(c)
  <2>1. /\ At(c, "restore")
        /\ use' = IF info[arg[c]].kind = "Common" \/ MemoryMapLocked THEN use
                  ELSE [use EXCEPT ![info[arg[c]].plain] = "free"]
        /\ Goto(c, "unlink")
        /\ UNCHANGED <<mapVars, exitVars>>
    BY <1>2, Zenon DEF UnmapRestore
  <2>2. QED
    BY <1>0, <2>1 DEF MemoryMapLocked, At, Runs, PcInv, mapVars, Labels
<1>3. CASE UnmapUnlink(c)
  BY <1>0, <1>3 DEF UnmapUnlink, At, Runs, PcInv, memVars, exitVars, Labels
<1>4. CASE UnmapForget(c)
  <2>1. CASE phase = "boot"
    BY <1>4, <2>1 DEF UnmapForget, MemoryMapLocked, Return, exitVars, Labels
  <2>2. CASE phase # "boot"
    BY <1>0, <1>4, <2>2 DEF UnmapForget, MemoryMapLocked, At, Runs, PcInv, memVars, exitVars,
                            Labels
  <2>3. QED
    BY <2>1, <2>2
<1>5. QED
  BY <1>1, <1>2, <1>3, <1>4 DEF UnmapGoesOn

(* A round of IoMmuUnmapAllMappings.                                       *)
LEMMA WalkStep ==
    ASSUME UnmapAllNode
    PROVE  pc["main"] = "walk" /\ Goto("main", "encrypt") /\ UNCHANGED <<use, inPool, exitVars>>
<1>1. At("main", "walk") /\ Goto("main", "encrypt") /\ UNCHANGED <<use, inPool, exitVars>>
  BY Zenon DEF UnmapAllNode, UnmapStart
<1>2. QED
  BY <1>1 DEF At

(* The steps of drivers and devices, of FreeBuffer, and stuttering.        *)
LEMMA DataSteps ==
    ASSUME \/ \E b \in Page : FreeBuffer(b)
           \/ \E c \in Context, h \in Page, d \in Data : DriverWrite(c, h, d)
           \/ \E c \in Context, m \in Mapping, d \in Data : DeviceWrite(c, m, d)
           \/ \E c \in Context : Dangles(c)
           \/ UNCHANGED vars
    PROVE  /\ UNCHANGED <<pc, held, inPool, exitVars>>
           /\ phase # "boot" => UNCHANGED use
<1>1. CASE \E b \in Page : FreeBuffer(b)
  BY <1>1 DEF FreeBuffer, Calls, ctlVars, mapVars, exitVars
<1>2. CASE \E c \in Context, h \in Page, d \in Data : DriverWrite(c, h, d)
  BY <1>2 DEF DriverWrite, ctlVars, mapVars, exitVars
<1>3. CASE \E c \in Context, m \in Mapping, d \in Data : DeviceWrite(c, m, d)
  BY <1>3 DEF DeviceWrite, ctlVars, mapVars, exitVars
<1>4. CASE UNCHANGED vars
  BY <1>4 DEF vars, memVars, ctlVars, mapVars, exitVars
<1>5. CASE \E c \in Context : Dangles(c)
  BY <1>5 DEF Dangles, memVars, mapVars, exitVars
<1>6. QED
  BY <1>1, <1>2, <1>3, <1>4, <1>5

(* The kinds of steps, as far as ExitBootServices is concerned.            *)
LEMMA Steps ==
    ASSUME PcInv, [Next]_vars
    PROVE  \/ /\ phase = "boot" /\ phase' = "boot"
              /\ \E c \in Context, l \in Labels \ {"walk"} : Goto(c, l)
           \/ \E c \in Context : UnmapGoesOn(c)
           \/ UnmapAllNode
           \/ UNCHANGED <<pc, held, inPool, exitVars>> /\ (phase # "boot" => UNCHANGED use)
           \/ ExitBootServices
           \/ \E c \in Context : HaltDevice(c)
           \/ IoMmuExitBoot
           \/ IoMmuUnmapAllMappings
           \/ UnmapAllDone
           \/ ExitReturns
<1>0. "main" \in Context
  BY DEF Context
<1>1. CASE AllocateBufferStash \/ AllocateBufferPages \/ AllocateBufferFails
  BY <1>0, <1>1, AllocateSteps
<1>2. CASE \E c \in Context : Protocol(c)
  <2>1. PICK c \in Context : Protocol(c)
    BY <1>2
  <2>2. CASE UnmapGoesOn(c)
    BY <2>2
  <2>3. CASE ~UnmapGoesOn(c)
    BY <2>1, <2>3, BootSteps, DataSteps DEF Protocol, UnmapGoesOn
  <2>4. QED
    BY <2>2, <2>3
<1>3. CASE \/ \E b \in Page : FreeBuffer(b)
           \/ \E c \in Context, h \in Page, d \in Data : DriverWrite(c, h, d)
           \/ \E c \in Context, m \in Mapping, d \in Data : DeviceWrite(c, m, d)
           \/ UNCHANGED vars
  BY <1>3, DataSteps
<1>4. CASE ExitBootServices \/ Exit
  BY <1>4 DEF Exit
<1>5. QED
  BY <1>1, <1>2, <1>3, <1>4 DEF Next

LEMMA PcPreserved ==
    ASSUME PcInv, [Next]_vars
    PROVE  PcInv'
<1>0. "main" \in Context /\ "timer" \in Context
      /\ \A c \in Context : c = "main" \/ c = "timer"
  BY DEF Context
<1>1. CASE /\ phase = "boot" /\ phase' = "boot"
           /\ \E c \in Context, l \in Labels \ {"walk"} : Goto(c, l)
  BY <1>0, <1>1, GotoType DEF PcInv
<1>2. CASE \E c \in Context : UnmapGoesOn(c)
  <2>1. PICK c \in Context : UnmapGoesOn(c)
    BY <1>2
  <2>2. PICK l \in Labels : /\ Goto(c, l)
                            /\ phase # "boot" => l \in {"restore", "unlink", "unhook", "walk"}
                            /\ phase = "boot" => l # "walk"
    BY <2>1, UnmapSteps
  <2>3. phase' = phase /\ (phase # "boot" => c = "main")
    BY <2>1, UnmapSteps DEF exitVars
  <2>4. pc' \in [Context -> Labels] /\ pc'[c] = l /\ \A d \in Context : d # c => pc'[d] = pc[d]
    BY <2>2, GotoType
  <2>5. QED
    BY <1>0, <2>2, <2>3, <2>4 DEF PcInv
<1>3. CASE UnmapAllNode
  BY <1>0, <1>3, WalkStep DEF PcInv, Goto, exitVars, Labels
<1>4. CASE UNCHANGED <<pc, held, inPool, exitVars>>
  BY <1>4 DEF PcInv, exitVars
<1>5. CASE ExitBootServices
  BY <1>5 DEF ExitBootServices, At, Runs, ctlVars, PcInv
<1>6. CASE \E c \in Context : HaltDevice(c)
  BY <1>6 DEF HaltDevice, ctlVars, PcInv
<1>7. CASE IoMmuExitBoot
  BY <1>7 DEF IoMmuExitBoot, ctlVars, PcInv
<1>8. CASE IoMmuUnmapAllMappings
  BY <1>0, <1>8 DEF IoMmuUnmapAllMappings, Dispatch, Goto, PcInv, Labels
<1>9. CASE UnmapAllDone
  BY <1>0, <1>9 DEF UnmapAllDone, Return, Goto, PcInv, exitVars, Labels
<1>10. CASE ExitReturns
  BY <1>10 DEF ExitReturns, ctlVars, PcInv
<1>11. QED
  BY <1>1, <1>2, <1>3, <1>4, <1>5, <1>6, <1>7, <1>8, <1>9, <1>10, Steps

LEMMA QueuePreserved ==
    ASSUME PcInv, QueueInv, [Next]_vars
    PROVE  QueueInv'
<1>0. "main" \in Context /\ (\A c \in Context : c = "main" \/ c = "timer")
      /\ Context \subseteq Notifications /\ UnmapAll \notin Notifications
      /\ "IoMmuExitBoot" \notin Context
  BY DEF Context, Notifications, UnmapAll
<1>1. CASE phase' # "exit"
  BY <1>1 DEF QueueInv
<1>2. CASE phase' = "exit" /\ \E c \in Context : UnmapGoesOn(c)
  <2>1. UNCHANGED exitVars /\ pc["main"] # "idle"
    BY <1>2, UnmapSteps DEF exitVars
  <2>2. QED
    BY <2>1, <1>2 DEF QueueInv, exitVars
<1>3. CASE phase' = "exit" /\ UnmapAllNode
  BY <1>0, <1>3, WalkStep DEF QueueInv, exitVars
<1>4. CASE UNCHANGED <<pc, held, inPool, exitVars>>
  BY <1>4 DEF QueueInv, exitVars
<1>5. CASE ExitBootServices
  <2>1. PICK q \in [1 .. 3 -> Notifications] :
            (\A i, j \in 1 .. 3 : q[i] = q[j] => i = j) /\ queue' = q
    BY <1>5 DEF ExitBootServices
  <2>2. queue' \in Seq(Notifications \cup {UnmapAll}) /\ Len(queue') = 3
    <3>1. q \in [1 .. 3 -> Notifications \cup {UnmapAll}]
      OBVIOUS
    <3>2. q \in Seq(Notifications \cup {UnmapAll})
      <4>1. 3 \in Nat
        OBVIOUS
      <4>2. QED
        BY <3>1, <4>1, SeqDef, Zenon
    <3>3. QED
      BY <2>1, <3>1, <3>2, LenProperties
  <2>3. pc'["main"] = "idle" /\ halted' = halted
    BY <1>5 DEF ExitBootServices, At, ctlVars
  <2>4. \A i \in 1 .. 3 : queue'[i] \in {"main", "timer", "IoMmuExitBoot"} 
    BY <2>1 DEF Notifications, Context
  <2>5. \A n \in {"main", "timer", "IoMmuExitBoot"} : \E i \in 1 .. 3 : queue'[i] = n
    <3>1. queue'[1] # queue'[2] /\ queue'[1] # queue'[3] /\ queue'[2] # queue'[3]
      BY <2>1
    <3>2. QED
      BY <3>1, <2>4
  <2>6. \A c \in Context : \E i \in 1 .. 3 : queue'[i] = c
    BY <2>5 DEF Context
  <2>7. \A i \in 1 .. 3 : queue'[i] # UnmapAll
    BY <2>4 DEF UnmapAll
  <2>8. QED
    BY <2>1, <2>2, <2>3, <2>6, <2>7 DEF QueueInv
<1>6. ASSUME NEW e, Dispatch(e), QueueInv
      PROVE  /\ phase = "exit" /\ pc["main"] = "idle"
             /\ queue \in Seq(Notifications \cup {UnmapAll})
             /\ queue # <<>> /\ queue[1] = e /\ Len(queue) >= 1
             /\ Tail(queue) \in Seq(Notifications \cup {UnmapAll})
             /\ Len(Tail(queue)) = Len(queue) - 1
             /\ \A i \in 1 .. Len(queue) - 1 : Tail(queue)[i] = queue[i + 1]
             /\ \A c \in Context : c \in halted \/ c = e
                                   \/ \E i \in 1 .. Len(queue) - 1 : Tail(queue)[i] = c
  <2>1. phase = "exit" /\ pc["main"] = "idle" /\ queue # <<>> /\ Head(queue) = e
    BY <1>6 DEF Dispatch
  <2>2. queue \in Seq(Notifications \cup {UnmapAll})
    BY <2>1 DEF QueueInv
  <2>3. /\ queue[1] = e /\ Len(queue) >= 1
        /\ Tail(queue) \in Seq(Notifications \cup {UnmapAll})
        /\ Len(Tail(queue)) = Len(queue) - 1
        /\ \A i \in 1 .. Len(queue) - 1 : Tail(queue)[i] = queue[i + 1]
    BY <2>1, <2>2
  <2>4. ASSUME NEW c \in Context, c \notin halted, c # e
        PROVE  \E i \in 1 .. Len(queue) - 1 : Tail(queue)[i] = c
    <3>1. PICK i \in 1 .. Len(queue) : queue[i] = c
      BY <2>1, <2>4 DEF QueueInv
    <3>2. i # 1 /\ i - 1 \in 1 .. Len(queue) - 1
      BY <2>2, <2>3, <2>4, <3>1
    <3>3. Tail(queue)[i - 1] = c
      BY <2>3, <3>1, <3>2
    <3>4. QED
      BY <3>2, <3>3
  <2>5. QED
    BY <2>1, <2>2, <2>3, <2>4
<1>7. CASE \E c \in Context : HaltDevice(c)
  <2>1. PICK c \in Context : HaltDevice(c)
    BY <1>7
  <2>2. Dispatch(c) /\ queue' = Tail(queue) /\ halted' = halted \cup {c}
        /\ phase' = phase /\ pc' = pc
    BY <2>1 DEF HaltDevice, ctlVars
  <2>3. \A i \in 1 .. Len(queue') : queue'[i] = UnmapAll => i = Len(queue')
    BY <1>6, <2>2 DEF QueueInv
  <2>4. \A i, j \in 1 .. Len(queue') : queue'[i] = "IoMmuExitBoot" =>
              queue'[j] # UnmapAll /\ (queue'[j] = "IoMmuExitBoot" => i = j)
    <3>1. ASSUME NEW i \in 1 .. Len(queue'), NEW j \in 1 .. Len(queue'),
                 queue'[i] = "IoMmuExitBoot"
          PROVE  queue'[j] # UnmapAll /\ (queue'[j] = "IoMmuExitBoot" => i = j)
      <4>1. i + 1 \in 1 .. Len(queue) /\ j + 1 \in 1 .. Len(queue)
            /\ queue[i + 1] = queue'[i] /\ queue[j + 1] = queue'[j]
        BY <1>6, <2>2
      <4>2. QED
        BY SMTT(60), <1>6, <2>2, <3>1, <4>1 DEF QueueInv
    <3>2. QED
      BY <3>1
  <2>5. QED
    BY <1>6, <2>2, <2>3, <2>4 DEF QueueInv
<1>8. CASE IoMmuExitBoot
  <2>1. Dispatch("IoMmuExitBoot") /\ queue' = Append(Tail(queue), UnmapAll)
        /\ halted' = halted /\ phase' = phase /\ pc' = pc
    BY <1>8 DEF IoMmuExitBoot, ctlVars, UnmapAll
  <2>2. \A j \in 1 .. Len(queue) : queue[j] # UnmapAll /\ (queue[j] = "IoMmuExitBoot" => j = 1)
    BY <1>6, <2>1 DEF QueueInv
  <2>3. /\ queue' \in Seq(Notifications \cup {UnmapAll})
        /\ Len(queue') = Len(queue)
        /\ queue'[Len(queue)] = UnmapAll
        /\ \A i \in 1 .. Len(queue) - 1 : queue'[i] = queue[i + 1] /\ queue'[i] = Tail(queue)[i]
    BY <1>6, <2>1
  <2>4. \A i \in 1 .. Len(queue) - 1 : queue'[i] # UnmapAll /\ queue'[i] # "IoMmuExitBoot"
    BY <1>6, <2>1, <2>2, <2>3
  <2>5. UnmapAll # "IoMmuExitBoot"
    BY DEF UnmapAll
  <2>6. ASSUME NEW c \in Context, c \notin halted
        PROVE  \E i \in 1 .. Len(queue') : queue'[i] = c
    <3>1. PICK i \in 1 .. Len(queue) - 1 : Tail(queue)[i] = c
      BY <1>0, <1>6, <2>1, <2>6
    <3>2. queue'[i] = c /\ i \in 1 .. Len(queue')
      BY <2>3, <3>1
    <3>3. QED
      BY <3>2
  <2>7. \A i \in 1 .. Len(queue') : i = Len(queue') \/ i \in 1 .. Len(queue) - 1
    BY <2>3
  <2>8. \A i \in 1 .. Len(queue') : queue'[i] # "IoMmuExitBoot"
                                  /\ (queue'[i] = UnmapAll => i = Len(queue'))
    BY <2>3, <2>4, <2>5, <2>7
  <2>9. pc'["main"] = "idle" /\ phase' = "exit"
    BY <1>6, <2>1
  <2>10. QED
    BY <2>1, <2>3, <2>6, <2>8, <2>9 DEF QueueInv
<1>9. CASE IoMmuUnmapAllMappings
  <2>1. Dispatch(UnmapAll) /\ queue' = Tail(queue) /\ halted' = halted /\ phase' = phase
    BY <1>9 DEF IoMmuUnmapAllMappings, UnmapAll
  <2>2. Len(queue) = 1
    <3>1. phase = "exit" /\ queue[1] = UnmapAll /\ 1 \in 1 .. Len(queue)
      BY <1>6, <2>1
    <3>2. QED
      BY <3>1 DEF QueueInv
  <2>3. Context \subseteq halted
    BY <1>0, <1>6, <2>1, <2>2
  <2>4. queue' \in Seq(Notifications \cup {UnmapAll}) /\ Len(queue') = 0
    BY <1>6, <2>1, <2>2
  <2>5. QED
    BY <2>1, <2>3, <2>4 DEF QueueInv
<1>10. CASE phase' = "exit" /\ UnmapAllDone
  BY <1>0, <1>10 DEF UnmapAllDone, At, Return, Goto, PcInv, QueueInv, exitVars
<1>11. CASE ExitReturns
  BY <1>11 DEF ExitReturns, QueueInv
<1>12. QED
  BY <1>1, <1>2, <1>3, <1>4, <1>5, <1>7, <1>8, <1>9, <1>10, <1>11, Steps

LEMMA ExitAlways == Spec => []ExitInv
<1>1. ExitInv /\ [Next]_vars => ExitInv'
  BY PcPreserved, QueuePreserved DEF ExitInv
<1>2. QED
  BY <1>1, InitExit, PTL DEF Spec

\* Once ExitBootServices has taken the memory map nothing is allocated or freed:
\* IoMmuUnmapWorker clears the bounce pages and leaves them and the MAP_INFOs allocated.
THEOREM MapKeyValid == Spec => MapKeyStaysValid
<1>1. ASSUME ExitInv, [Next]_vars, phase # "boot"
      PROVE  UNCHANGED <<use, inPool>>
  <2>1. PcInv
    BY <1>1 DEF ExitInv
  <2>2. CASE \E c \in Context : UnmapGoesOn(c)
    BY <1>1, <2>1, <2>2, UnmapSteps
  <2>3. CASE UnmapAllNode
    BY <2>3, WalkStep
  <2>4. CASE ExitBootServices
    BY <1>1, <2>4 DEF ExitBootServices, At
  <2>5. CASE \/ \E c \in Context : HaltDevice(c)
             \/ IoMmuExitBoot \/ IoMmuUnmapAllMappings \/ UnmapAllDone \/ ExitReturns
    BY <2>5 DEF HaltDevice, IoMmuExitBoot, IoMmuUnmapAllMappings, UnmapAllDone, ExitReturns,
                memVars, mapVars
  <2>6. QED
    BY <1>1, <2>1, <2>2, <2>3, <2>4, <2>5, Steps
<1>2. ExitInv /\ [Next]_vars => [phase # "boot" => UNCHANGED <<use, inPool>>]_vars
  BY <1>1
<1>3. QED
  BY <1>2, ExitAlways, PTL DEF Spec, MapKeyStaysValid

\* IoMmuExitBoot signals the event that undoes the mappings instead of undoing them, so the
\* drivers halt their devices first, in whatever order the notifications were queued.
THEOREM HaltedBeforeTearDown == Spec => HaltedFirst
<1>1. ASSUME ExitInv, [Next]_vars, phase = "exit", NEW c \in Context, held'[c] # held[c]
      PROVE  c \in halted
  <2>1. PcInv /\ QueueInv
    BY <1>1 DEF ExitInv
  <2>2. CASE \E d \in Context : UnmapGoesOn(d)
    BY <1>1, <2>1, <2>2, UnmapSteps
  <2>3. CASE UnmapAllNode
    BY <1>1, <2>1, <2>3, WalkStep DEF QueueInv
  <2>4. CASE ExitBootServices
    BY <1>1, <2>4 DEF ExitBootServices, At
  <2>5. CASE \/ \E d \in Context : HaltDevice(d)
             \/ IoMmuExitBoot \/ IoMmuUnmapAllMappings \/ UnmapAllDone \/ ExitReturns
    BY <1>1, <2>5 DEF HaltDevice, IoMmuExitBoot, IoMmuUnmapAllMappings, UnmapAllDone,
                      ExitReturns, mapVars
  <2>6. QED
    BY <1>1, <2>1, <2>2, <2>3, <2>4, <2>5, Steps
<1>2. ExitInv /\ [Next]_vars =>
         [\A c \in Context : phase = "exit" /\ held'[c] # held[c] => c \in halted]_vars
  BY <1>1
<1>3. QED
  BY <1>2, ExitAlways, PTL DEF Spec, HaltedFirst

-----------------------------------------------------------------------------
(* The mappings and their pages.  A mapping is in the pool, in effect, or  *)
(* what a context works on; in effect or worked on it is live.             *)
Working  == {"map", "clear", "copy", "link", "hook", "encrypt", "restore", "unlink", "unhook"}
Given    == {"clear", "copy", "link", "hook", "encrypt", "restore"}
Offered  == {"clear", "copy", "link", "hook"}
Opened   == {"copy", "link", "hook", "encrypt"}
Undone   == {"encrypt", "restore", "unlink", "unhook"}

(* The mappings context c has in effect or works on at one of the labels.  *)
Has(c, labels) == held[c] \cup {m \in {arg[c]} : pc[c] \in labels}

Live(c)   == Has(c, Working)
Plain(c)  == Has(c, Given)
Usable(c) == Has(c, Offered)
Open(c)   == Has(c, Opened)
InList(c) == Has(c, Undone)

(* Nobody else has the mapping that a context works on.                    *)
OwnInv ==
    /\ \A c \in Context : Live(c) \subseteq Mapping
    /\ \A c \in Context : Live(c) \cap inPool = {}
    /\ \A c \in Context : pc[c] \in Working => arg[c] \notin held[c]
    /\ \A m \in Mapping : ~ (m \in Live("main") /\ m \in Live("timer"))
    /\ pc["timer"] \notin {"allocate", "walk"}

(* What the pages that are not free are for.                               *)
PageInv ==
    /\ \A c \in Context : use[HostPage[c]] = "host"
    /\ \A p \in Page : use[p] = "common" <=> p \in buffers
    /\ \A p \in Page : use[p] = "header" <=> p + 1 \in buffers
    /\ \A b \in buffers : b - 1 \in Page
    /\ \A b \in buffers : stashOf[b] \in Page /\ use[stashOf[b]] = "stash"
    /\ \A p \in Page : use[p] = "stash" =>
          (\E b \in buffers : stashOf[b] = p) \/ (pc["main"] = "allocate" /\ arg["main"] = p)
    /\ \A a, b \in buffers : stashOf[a] = stashOf[b] => a = b
    /\ pc["main"] = "allocate" =>
          /\ arg["main"] \in Page /\ use[arg["main"]] = "stash"
          /\ \A b \in buffers : stashOf[b] # arg["main"]

(* What a live mapping is about, and the page it gives the device.         *)
InfoInv ==
    /\ \A c \in Context : \A m \in Live(c) :
          \/ /\ info[m].kind = "Common"
             /\ info[m].crypted \in buffers
             /\ phase = "boot" => c = "main"
          \/ /\ info[m].kind # "Common"
             /\ \E d \in Context : info[m].crypted = HostPage[d]
             /\ phase = "boot" => info[m].crypted = HostPage[c]
    /\ \A c \in Context : \A m \in Plain(c) :
          \/ info[m].kind = "Common" /\ info[m].plain = info[m].crypted
          \/ /\ info[m].kind # "Common"
             /\ info[m].plain \in Page
             /\ use[info[m].plain] = "bounce"
    /\ \A c \in Context : \A m \in Usable(c) : c \in Dac \/ info[m].plain < Top4G

(* A bounce page is some mapping's.                                        *)
BounceInv ==
    phase = "boot" => \A p \in Page : use[p] = "bounce" =>
        \E c \in Context : \E m \in Plain(c) : info[m].kind # "Common" /\ info[m].plain = p

(* No two live mappings are of one buffer or have one page.                *)
DistinctInv ==
    \A c, d \in Context :
        /\ \A m \in Live(c), n \in Live(d) : info[m].crypted = info[n].crypted => m = n
        /\ \A m \in Plain(c), n \in Plain(d) : info[m].plain = info[n].plain => m = n

SharedInv ==
    \A p : p \in shared <=> \E c \in Context : \E m \in Open(c) : info[m].plain = p

(* A doubly linked list: g[1] .. g[n] are its entries.                     *)
Ring(fwd, back, n, g) ==
    /\ g[0] = ListHead /\ g[n + 1] = ListHead
    /\ \A i \in 1 .. n : g[i] \in Mapping
    /\ \A i, j \in 1 .. n : g[i] = g[j] => i = j
    /\ \A i \in 0 .. n : fwd[g[i]] = g[i + 1] /\ back[g[i + 1]] = g[i]

(* Where a context has made one of the two stores of a list operation.     *)
Half == {"hook", "unhook"}

(* The entries of mMapInfos are the mappings in effect and those that an   *)
(* Unmap has not taken off yet.  One back link, that of the entry behind   *)
(* the one a context adds or takes off, may differ from those of the list  *)
(* before, b.                                                              *)
Chain(n, g, b) ==
    /\ Ring(list.fwd, b, n, g)
    /\ \A m \in Mapping : (\E i \in 1 .. n : g[i] = m) <=> \E c \in Context : m \in InList(c)
    /\ \A x \in Node : \/ b[x] = list.back[x]
                       \/ \E c \in Context : pc[c] \in Half /\ x = list.fwd[arg[c]]

IsChain == \E n \in Nat : \E g \in [0 .. n + 1 -> Node], b \in [Node -> Node] : Chain(n, g, b)

ListInv ==
    /\ IsChain
    /\ \A c \in Context : pc[c] \in {"link", "hook"} =>
          list.fwd[arg[c]] = list.fwd[ListHead] /\ list.back[arg[c]] = ListHead
    /\ \A c \in Context : pc[c] = "hook" => list.back[list.fwd[arg[c]]] = arg[c]
    /\ \A c \in Context : pc[c] = "unhook" => list.back[list.fwd[arg[c]]] = list.back[arg[c]]

(* No notification is in the protocol while main is in a list operation.   *)
AloneInv == pc["main"] \in Window => pc["timer"] = "idle"

(* IoMmuUnmapAllMappings takes the entries off in the order of the list.   *)
WalkInv ==
    /\ pc["main"] = "walk" => phase = "exit" /\ node = list.fwd[ListHead]
    /\ phase # "boot" /\ pc["main"] \in Undone =>
          /\ phase = "exit" /\ arg["main"] = list.fwd[ListHead]
          /\ node = list.fwd[arg["main"]]
    /\ phase = "exit" /\ pc["main"] = "idle" =>
          \/ \A c \in Context : held[c] = {}
          \/ \E i \in 1 .. Len(queue) : queue[i] \in {"IoMmuExitBoot", UnmapAll}
    /\ phase = "os" => pc["main"] = "idle" /\ \A c \in Context : held[c] = {}

MemInv ==
    /\ OwnInv
    /\ PageInv
    /\ InfoInv
    /\ BounceInv
    /\ DistinctInv
    /\ SharedInv

(* The list is what it should be as long as no notification has called the *)
(* protocol inside a list operation of main.                               *)
MapInv ==
    /\ TypeOK
    /\ ExitInv
    /\ MemInv
    /\ ~raced => ListInv /\ AloneInv /\ WalkInv
    /\ lost => raced

LEMMA NowHas ==
    ASSUME NEW c, NEW L
    PROVE  /\ pc[c] \in L => Has(c, L) = held[c] \cup {arg[c]}
           /\ pc[c] \notin L => Has(c, L) = held[c]
  BY DEF Has

LEMMA ThenHas ==
    ASSUME NEW c, NEW L
    PROVE  /\ pc'[c] \in L => Has(c, L)' = held'[c] \cup {arg'[c]}
           /\ pc'[c] \notin L => Has(c, L)' = held'[c]
  BY DEF Has

LEMMA SameHas ==
    ASSUME NEW c, NEW L, held'[c] = held[c], pc'[c] = pc[c], arg'[c] = arg[c]
    PROVE  Has(c, L)' = Has(c, L)
  BY Zenon DEF Has

(* What the contexts have, before and after a step of context c that       *)
(* changes nothing of the mappings in effect.                              *)
LEMMA Moves ==
    ASSUME TypeOK, NEW c \in Context, NEW l, NEW a,
           pc' = [pc EXCEPT ![c] = l], arg' = [arg EXCEPT ![c] = a], held' = held
    PROVE  /\ pc'[c] = l /\ arg'[c] = a
           /\ \A d \in Context : d # c =>
                 /\ pc'[d] = pc[d] /\ arg'[d] = arg[d]
                 /\ \A L : Has(d, L)' = Has(d, L)
           /\ \A L : l \in L => Has(c, L)' = held[c] \cup {a}
           /\ \A L : l \notin L => Has(c, L)' = held[c]
<1>1. pc'[c] = l /\ arg'[c] = a /\ \A d \in Context : d # c => pc'[d] = pc[d] /\ arg'[d] = arg[d]
  BY DEF TypeOK
<1>2. ASSUME NEW d \in Context, d # c, NEW L PROVE Has(d, L)' = Has(d, L)
  BY <1>1, <1>2, SameHas, Zenon
<1>3. ASSUME NEW L, l \in L PROVE Has(c, L)' = held[c] \cup {a}
  <2>1. Has(c, L)' = held'[c] \cup {arg'[c]}
    BY <1>1, <1>3, ThenHas
  <2>2. QED
    BY <1>1, <2>1
<1>4. ASSUME NEW L, l \notin L PROVE Has(c, L)' = held[c]
  <2>1. Has(c, L)' = held'[c]
    BY <1>1, <1>4, ThenHas
  <2>2. QED
    BY <2>1
<1>5. QED
  BY <1>1, <1>2, <1>3, <1>4

LEMMA Stays ==
    ASSUME TypeOK, NEW c \in Context, NEW l,
           pc' = [pc EXCEPT ![c] = l], arg' = arg, held' = held
    PROVE  /\ pc'[c] = l
           /\ \A d \in Context : d # c => pc'[d] = pc[d] /\ \A L : Has(d, L)' = Has(d, L)
           /\ \A L : l \in L => Has(c, L)' = held[c] \cup {arg[c]}
           /\ \A L : l \notin L => Has(c, L)' = held[c]
<1>1. pc'[c] = l /\ \A d \in Context : d # c => pc'[d] = pc[d] /\ arg'[d] = arg[d]
  BY DEF TypeOK
<1>2. ASSUME NEW d \in Context, d # c, NEW L PROVE Has(d, L)' = Has(d, L)
  BY <1>1, <1>2, SameHas, Zenon
<1>3. ASSUME NEW L, l \in L PROVE Has(c, L)' = held[c] \cup {arg[c]}
  <2>1. Has(c, L)' = held'[c] \cup {arg'[c]}
    BY <1>1, <1>3, ThenHas
  <2>2. QED
    BY <1>1, <2>1
<1>4. ASSUME NEW L, l \notin L PROVE Has(c, L)' = held[c]
  <2>1. Has(c, L)' = held'[c]
    BY <1>1, <1>4, ThenHas
  <2>2. QED
    BY <2>1
<1>5. QED
  BY <1>1, <1>2, <1>3, <1>4

(* What c has while it works on a mapping.                                 *)
LEMMA AtWorkFacts ==
    ASSUME TypeOK, OwnInv, NEW c \in Context, pc[c] \in Working
    PROVE  /\ arg[c] \in Mapping /\ arg[c] \in Live(c)
           /\ arg[c] \notin inPool /\ \A d \in Context : arg[c] \notin held[d]
           /\ \A d \in Context : d # c => arg[c] \notin Live(d)
           /\ held[c] \subseteq Live(c)
<1>1. Live(c) = held[c] \cup {arg[c]}
  BY NowHas DEF Live
<1>2. arg[c] \in Live(c) /\ arg[c] \in Mapping /\ arg[c] \notin inPool
  BY <1>1 DEF OwnInv
<1>3. ASSUME NEW d \in Context, d # c PROVE arg[c] \notin Live(d) /\ arg[c] \notin held[d]
  <2>1. arg[c] \notin Live(d)
    BY <1>2, <1>3 DEF OwnInv, Context
  <2>2. QED
    BY <2>1 DEF Live, Has
<1>4. arg[c] \notin held[c]
  BY DEF OwnInv
<1>5. QED
  BY <1>1, <1>2, <1>3, <1>4

LEMMA SetFacts ==
    ASSUME OwnInv, NEW d \in Context
    PROVE  /\ Live(d) \subseteq Mapping /\ Plain(d) \subseteq Live(d)
           /\ Usable(d) \subseteq Plain(d) /\ Open(d) \subseteq Plain(d)
           /\ InList(d) \subseteq Live(d) /\ held[d] \subseteq InList(d)
           /\ held[d] \subseteq Open(d) /\ held[d] \subseteq Usable(d)
  BY DEF OwnInv, Live, Plain, Usable, Open, InList, Has, Working, Given, Offered, Opened, Undone

LEMMA PageFacts ==
    ASSUME TypeOK
    PROVE  /\ \A c \in Context : HostPage[c] \in Page
           /\ buffers \subseteq Page
           /\ \A b \in buffers : b \in Int
  BY IoMmuAssumption DEF TypeOK, Page

(* The page that a live mapping gives the device is a bounce page or a     *)
(* common buffer.                                                          *)
LEMMA PlainUse ==
    ASSUME TypeOK, MemInv, NEW c \in Context, NEW m \in Plain(c)
    PROVE  info[m].plain \in Page /\ use[info[m].plain] \in {"bounce", "common"}
<1>1. Plain(c) \subseteq Live(c)
  BY SetFacts DEF MemInv
<1>2. CASE info[m].kind = "Common"
  BY <1>1, <1>2, PageFacts DEF MemInv, InfoInv, PageInv
<1>3. CASE info[m].kind # "Common"
  BY <1>3 DEF MemInv, InfoInv
<1>4. QED
  BY <1>2, <1>3

LEMMA InfoType ==
    ASSUME TypeOK, NEW m \in Mapping
    PROVE  /\ info[m] \in [kind : Kind, crypted : Page \cup {NoPage}, plain : Page \cup {NoPage}]
           /\ info[m].kind \in Kind
           /\ info[m].crypted \in Page \cup {NoPage}
           /\ info[m].plain \in Page \cup {NoPage}
  BY DEF TypeOK

-----------------------------------------------------------------------------
(* MapBounce.                                                              *)
LEMMA MapBounceMem ==
    ASSUME TypeOK, PcInv, MemInv, NEW c \in Context, MapBounce(c)
    PROVE  MemInv'
<1> DEFINE m == arg[c]
<1>1. PICK p \in Bounce(c) : use' = [use EXCEPT ![p] = "bounce"]
                             /\ info' = [info EXCEPT ![m].plain = p]
  BY DEF MapBounce
<1>2. /\ pc[c] = "map" /\ pc' = [pc EXCEPT ![c] = "clear"] /\ arg' = arg
      /\ info[m].kind # "Common"
      /\ shared' = shared /\ stashOf' = stashOf /\ buffers' = buffers /\ inPool' = inPool
      /\ held' = held /\ phase' = phase
  BY DEF MapBounce, At, Goto, exitVars
<1>3. p \in Page /\ use[p] = "free" /\ (c \in Dac \/ p < Top4G)
  BY <1>1 DEF Bounce, Free
<1>4. /\ m \in Mapping /\ m \in Live(c) /\ m \notin held[c]
      /\ \A d \in Context : d # c => m \notin Live(d)
  BY <1>2, AtWorkFacts DEF MemInv, Working
<1>5. /\ \A d \in Context : d # c =>
            /\ Live(d)' = Live(d) /\ Plain(d)' = Plain(d) /\ Usable(d)' = Usable(d)
            /\ Open(d)' = Open(d) /\ pc'[d] = pc[d]
      /\ Live(c)' = Live(c) /\ Plain(c)' = Plain(c) \cup {m} /\ pc'[c] = "clear"
      /\ Usable(c)' = Usable(c) \cup {m} /\ Open(c)' = Open(c)
      /\ Plain(c) = held[c] /\ Open(c) = held[c]
  <2>1. /\ pc'[c] = "clear"
        /\ \A d \in Context : d # c => pc'[d] = pc[d] /\ \A L : Has(d, L)' = Has(d, L)
        /\ \A L : "clear" \in L => Has(c, L)' = held[c] \cup {m}
        /\ \A L : "clear" \notin L => Has(c, L)' = held[c]
    BY <1>2, Stays, Zenon
  <2>2. \A L : /\ "map" \in L => Has(c, L) = held[c] \cup {m}
               /\ "map" \notin L => Has(c, L) = held[c]
    BY <1>2, NowHas, Zenon
  <2>3. QED
    BY <2>1, <2>2 DEF Live, Plain, Usable, Open, Working, Given, Offered, Opened
<1>6. /\ \A x \in Mapping : x # m => info'[x] = info[x]
      /\ info'[m].kind = info[m].kind /\ info'[m].crypted = info[m].crypted /\ info'[m].plain = p
  BY <1>1, <1>4 DEF TypeOK
<1>7. use'[p] = "bounce" /\ \A q \in Page : q # p => use'[q] = use[q]
  BY <1>1, <1>3 DEF TypeOK
<1>8. \A d \in Context : /\ Live(d) \subseteq Mapping /\ Plain(d) \subseteq Live(d)
                         /\ Usable(d) \subseteq Plain(d) /\ Open(d) \subseteq Plain(d)
  BY SetFacts DEF MemInv
<1>9. OwnInv'
  BY <1>2, <1>4, <1>5 DEF MemInv, OwnInv, Working, Context
<1> HIDE DEF m
<1>10. PageInv'
  BY <1>2, <1>3, <1>5, <1>7, PageFacts DEF MemInv, PageInv, Context
<1>11. InfoInv'
  BY <1>2, <1>3, <1>4, <1>5, <1>6, <1>7, <1>8 DEF MemInv, InfoInv
<1>12. BounceInv'
  BY <1>2, <1>3, <1>4, <1>5, <1>6, <1>7, <1>8 DEF MemInv, BounceInv
<1>13. DistinctInv'
  BY <1>2, <1>3, <1>4, <1>5, <1>6, <1>7, <1>8, PlainUse DEF MemInv, DistinctInv
<1>14. SharedInv'
  BY <1>2, <1>4, <1>5, <1>6, <1>8 DEF MemInv, SharedInv
<1>15. QED
  BY <1>9, <1>10, <1>11, <1>12, <1>13, <1>14 DEF MemInv

(* MapCommon.                                                              *)
LEMMA MapCommonMem ==
    ASSUME TypeOK, PcInv, MemInv, NEW c \in Context, MapCommon(c)
    PROVE  MemInv'
<1> DEFINE m == arg[c]
<1>1. /\ pc[c] = "map" /\ pc' = [pc EXCEPT ![c] = "clear"] /\ arg' = arg
      /\ info[m].kind = "Common" /\ ~ TooHigh(c, m)
      /\ info' = [info EXCEPT ![m].plain = info[m].crypted] /\ use' = use
      /\ shared' = shared /\ stashOf' = stashOf /\ buffers' = buffers /\ inPool' = inPool
      /\ held' = held /\ phase' = phase
  BY DEF MapCommon, At, Goto, exitVars
<1>2. /\ m \in Mapping /\ m \in Live(c) /\ m \notin held[c]
      /\ \A d \in Context : d # c => m \notin Live(d)
  BY <1>1, AtWorkFacts DEF MemInv, Working
<1>3. /\ \A d \in Context : d # c =>
            /\ Live(d)' = Live(d) /\ Plain(d)' = Plain(d) /\ Usable(d)' = Usable(d)
            /\ Open(d)' = Open(d) /\ pc'[d] = pc[d]
      /\ Live(c)' = Live(c) /\ Plain(c)' = Plain(c) \cup {m} /\ pc'[c] = "clear"
      /\ Usable(c)' = Usable(c) \cup {m} /\ Open(c)' = Open(c)
      /\ Plain(c) = held[c] /\ Open(c) = held[c]
  <2>1. /\ pc'[c] = "clear"
        /\ \A d \in Context : d # c => pc'[d] = pc[d] /\ \A L : Has(d, L)' = Has(d, L)
        /\ \A L : "clear" \in L => Has(c, L)' = held[c] \cup {m}
        /\ \A L : "clear" \notin L => Has(c, L)' = held[c]
    BY <1>1, Stays, Zenon
  <2>2. \A L : /\ "map" \in L => Has(c, L) = held[c] \cup {m}
               /\ "map" \notin L => Has(c, L) = held[c]
    BY <1>1, NowHas, Zenon
  <2>3. QED
    BY SMTT(40), <2>1, <2>2 DEF Live, Plain, Usable, Open, Working, Given, Offered, Opened
<1>4. /\ \A x \in Mapping : x # m => info'[x] = info[x]
      /\ info'[m].kind = info[m].kind /\ info'[m].crypted = info[m].crypted
      /\ info'[m].plain = info[m].crypted
  BY <1>1, <1>2 DEF TypeOK
<1>5. \A d \in Context : /\ Live(d) \subseteq Mapping /\ Plain(d) \subseteq Live(d)
                         /\ Usable(d) \subseteq Plain(d) /\ Open(d) \subseteq Plain(d)
  BY SetFacts DEF MemInv
<1>6. OwnInv'
  BY <1>1, <1>2, <1>3 DEF MemInv, OwnInv, Working, Context
<1>7. c \in Dac \/ info[m].crypted < Top4G
  <2>1. info[m].crypted \in Int
    BY <1>2, InfoType DEF Page, NoPage
  <2>2. QED
    BY <1>1, <2>1, IoMmuAssumption DEF TooHigh
<1>8. info[m].crypted \in buffers
  BY <1>1, <1>2 DEF MemInv, InfoInv
<1> HIDE DEF m
<1>9. PageInv'
  BY <1>1, <1>3, PageFacts DEF MemInv, PageInv, Context
<1>10. InfoInv'
  BY <1>1, <1>2, <1>3, <1>4, <1>5, <1>7 DEF MemInv, InfoInv
<1>11. BounceInv'
  BY <1>1, <1>2, <1>3, <1>4, <1>5 DEF MemInv, BounceInv
<1>12. DistinctInv'
  <2>1. ASSUME NEW d \in Context, NEW x \in Plain(d) PROVE info[x].plain # info[m].crypted
    <3>1. x # m /\ x \in Live(d)
      BY <1>2, <1>3, <1>5
    <3>2. info[x].crypted # info[m].crypted
      BY <1>2, <3>1 DEF MemInv, DistinctInv
    <3>3. use[info[m].crypted] = "common"
      BY <1>8, PageFacts DEF MemInv, PageInv
    <3>4. QED
      BY <3>2, <3>3 DEF MemInv, InfoInv
  <2>2. QED
    BY <1>1, <1>2, <1>3, <1>4, <1>5, <2>1 DEF MemInv, DistinctInv
<1>13. SharedInv'
  BY <1>1, <1>2, <1>3, <1>4, <1>5 DEF MemInv, SharedInv
<1>14. QED
  BY <1>6, <1>9, <1>10, <1>11, <1>12, <1>13 DEF MemInv

(* MapInfo: a new mapping of a buffer that no live mapping is of.          *)
LEMMA MapInfoMem ==
    ASSUME TypeOK, PcInv, MemInv, NEW c \in Context, NEW kind \in Kind, NEW h \in Page,
           MapInfo(c, kind, h)
    PROVE  MemInv'
<1>1. PICK m \in inPool :
         /\ info' = [info EXCEPT ![m] = [kind |-> kind, crypted |-> h, plain |-> NoPage]]
         /\ inPool' = inPool \ {m}
         /\ arg' = [arg EXCEPT ![c] = m]
  BY DEF MapInfo
<1>2. /\ pc[c] = "idle" /\ pc' = [pc EXCEPT ![c] = "map"] /\ Runs(c) /\ phase = "boot"
      /\ IF kind = "Common" THEN c = "main" /\ h \in buffers ELSE h = HostPage[c]
      /\ ~ InUse(h) /\ use' = use
      /\ shared' = shared /\ stashOf' = stashOf /\ buffers' = buffers
      /\ held' = held /\ phase' = phase
  BY DEF MapInfo, Calls, Goto, exitVars, memVars
<1>3. m \in Mapping /\ \A d \in Context : m \notin Live(d) /\ m \notin held[d]
  <2>1. m \in Mapping
    BY DEF TypeOK
  <2>2. \A d \in Context : m \notin Live(d) /\ held[d] \subseteq Live(d)
    BY NowHas DEF MemInv, OwnInv, Live, Has
  <2>3. QED
    BY <2>1, <2>2
<1>4. /\ \A d \in Context : d # c =>
            /\ Live(d)' = Live(d) /\ Plain(d)' = Plain(d) /\ Usable(d)' = Usable(d)
            /\ Open(d)' = Open(d) /\ pc'[d] = pc[d] /\ arg'[d] = arg[d]
      /\ Live(c)' = Live(c) \cup {m} /\ Plain(c)' = Plain(c) /\ pc'[c] = "map" /\ arg'[c] = m
      /\ Usable(c)' = Usable(c) /\ Open(c)' = Open(c)
      /\ Live(c) = held[c] /\ Plain(c) = held[c] /\ Open(c) = held[c]
  <2>1. /\ pc'[c] = "map" /\ arg'[c] = m
        /\ \A d \in Context : d # c => /\ pc'[d] = pc[d] /\ arg'[d] = arg[d]
                                       /\ \A L : Has(d, L)' = Has(d, L)
        /\ \A L : "map" \in L => Has(c, L)' = held[c] \cup {m}
        /\ \A L : "map" \notin L => Has(c, L)' = held[c]
    BY <1>1, <1>2, Moves, Zenon
  <2>2. \A L : "idle" \notin L => Has(c, L) = held[c]
    BY <1>2, NowHas, Zenon
  <2>3. QED
    BY <2>1, <2>2 DEF Live, Plain, Usable, Open, Working, Given, Offered, Opened
<1>5. /\ \A x \in Mapping : x # m => info'[x] = info[x]
      /\ info'[m].kind = kind /\ info'[m].crypted = h
  BY <1>1, <1>3 DEF TypeOK
<1>6. \A d \in Context : /\ Live(d) \subseteq Mapping /\ Plain(d) \subseteq Live(d)
                         /\ Usable(d) \subseteq Plain(d) /\ Open(d) \subseteq Plain(d)
  BY SetFacts DEF MemInv
<1>7. ASSUME NEW d \in Context, NEW x \in Live(d) PROVE info[x].crypted # h
  <2>1. CASE x \in held[d]
    BY <1>2, <2>1 DEF InUse
  <2>2. CASE x \notin held[d]
    <3>1. pc[d] \in Working
      BY <2>2, NowHas DEF Live
    <3>2. c = "timer" /\ d = "main"
      BY <1>2, <3>1 DEF Runs, Context, Working
    <3>3. h = HostPage["timer"]
      BY <1>2, <3>2
    <3>4. info[x].crypted \in buffers \/ info[x].crypted = HostPage["main"]
      BY <1>2, <3>2 DEF MemInv, InfoInv
    <3>5. use[h] = "host" /\ \A b \in buffers : use[b] = "common"
      BY <3>2, <3>3, PageFacts DEF MemInv, PageInv
    <3>6. QED
      BY <3>3, <3>4, <3>5, IoMmuAssumption
  <2>3. QED
    BY <2>1, <2>2
<1>8. OwnInv'
  BY <1>1, <1>2, <1>3, <1>4 DEF MemInv, OwnInv, Working, Context
<1>9. PageInv'
  BY <1>2, <1>4, PageFacts DEF MemInv, PageInv, Context
<1>10. InfoInv'
  BY <1>2, <1>3, <1>4, <1>5, <1>6 DEF MemInv, InfoInv
<1>11. BounceInv'
  BY <1>2, <1>3, <1>4, <1>5, <1>6 DEF MemInv, BounceInv
<1>12. DistinctInv'
  BY <1>2, <1>3, <1>4, <1>5, <1>6, <1>7 DEF MemInv, DistinctInv
<1>13. SharedInv'
  BY <1>2, <1>3, <1>4, <1>5, <1>6 DEF MemInv, SharedInv
<1>14. QED
  BY <1>8, <1>9, <1>10, <1>11, <1>12, <1>13 DEF MemInv

-----------------------------------------------------------------------------
(* Steps that begin no mapping and give no page.                           *)
LEMMA LiveFrame ==
    ASSUME TypeOK, MemInv, phase' = "boot" => phase = "boot",
           \A d \in Context : \A x \in Live(d)' :
               /\ info'[x] = info[x]
               /\ info[x].crypted \in buffers => info[x].crypted \in buffers'
               /\ \E e \in Context : x \in Live(e) /\ (phase' = "boot" => e = d),
           \A d \in Context : \A x \in Plain(d)' :
               /\ x \in Live(d)'
               /\ use[info[x].plain] = "bounce" => use'[info[x].plain] = "bounce"
               /\ \E e \in Context : x \in Plain(e),
           \A d \in Context : \A x \in Usable(d)' : x \in Usable(d) /\ x \in Live(d)'
    PROVE  InfoInv' /\ DistinctInv'
<1>1. ASSUME NEW d \in Context, NEW x \in Live(d)'
      PROVE  \/ /\ info'[x].kind = "Common"
                /\ info'[x].crypted \in buffers'
                /\ phase' = "boot" => d = "main"
             \/ /\ info'[x].kind # "Common"
                /\ \E e \in Context : info'[x].crypted = HostPage[e]
                /\ phase' = "boot" => info'[x].crypted = HostPage[d]
  <2>1. PICK e \in Context : x \in Live(e) /\ (phase' = "boot" => e = d)
    OBVIOUS
  <2>2. QED
    BY <2>1 DEF MemInv, InfoInv
<1>2. ASSUME NEW d \in Context, NEW x \in Plain(d)'
      PROVE  \/ info'[x].kind = "Common" /\ info'[x].plain = info'[x].crypted
             \/ /\ info'[x].kind # "Common"
                /\ info'[x].plain \in Page
                /\ use'[info'[x].plain] = "bounce"
  <2>1. PICK e \in Context : x \in Plain(e)
    OBVIOUS
  <2>2. info'[x] = info[x]
    OBVIOUS
  <2>3. QED
    BY <2>1, <2>2 DEF MemInv, InfoInv
<1>3. ASSUME NEW d \in Context, NEW x \in Usable(d)' PROVE d \in Dac \/ info'[x].plain < Top4G
  BY DEF MemInv, InfoInv
<1>4. InfoInv'
  BY <1>1, <1>2, <1>3 DEF InfoInv
<1>5. DistinctInv'
  BY DEF MemInv, DistinctInv
<1>6. QED
  BY <1>4, <1>5

LEMMA PageFrame ==
    ASSUME TypeOK, MemInv, use' = use, stashOf' = stashOf, buffers' = buffers,
           pc'["main"] = "allocate" <=> pc["main"] = "allocate",
           pc["main"] = "allocate" => arg'["main"] = arg["main"]
    PROVE  PageInv'
  BY DEF MemInv, PageInv

LEMMA BounceFrame ==
    ASSUME MemInv, use' = use, phase' = "boot" => phase = "boot",
           \A d \in Context : \A x \in Plain(d) :
               phase' = "boot" => x \in Plain(d)' /\ info'[x] = info[x]
    PROVE  BounceInv'
  BY DEF MemInv, BounceInv

LEMMA SharedFrame ==
    ASSUME MemInv, shared' = shared,
           \A x \in Mapping : (\E d \in Context : x \in Open(d)')
                               <=> (\E d \in Context : x \in Open(d)),
           \A d \in Context : \A x \in Open(d)' : x \in Mapping /\ info'[x] = info[x]
    PROVE  SharedInv'
<1>1. \A d \in Context : Open(d) \subseteq Mapping
  BY SetFacts DEF MemInv
<1>2. QED
  BY <1>1 DEF MemInv, SharedInv

(* Nothing changes that the invariants of the memory speak of.             *)
LEMMA QuietMem ==
    ASSUME TypeOK, MemInv, phase' = "boot" => phase = "boot",
           use' = use, stashOf' = stashOf, buffers' = buffers, info' = info, inPool' = inPool,
           held' = held, shared' = shared,
           \A c \in Context : \/ pc'[c] = pc[c] /\ arg'[c] = arg[c]
                              \/ pc[c] \in {"idle", "walk"} /\ pc'[c] \in {"idle", "walk"}
                                    /\ c = "main"
                              \/ pc[c] = "link" /\ pc'[c] = "hook" /\ arg'[c] = arg[c]
                              \/ pc[c] = "unlink" /\ pc'[c] = "unhook" /\ arg'[c] = arg[c]
    PROVE  MemInv'
<1>1. ASSUME NEW d \in Context, NEW L, "idle" \notin L, "walk" \notin L,
             "link" \in L <=> "hook" \in L, "unlink" \in L <=> "unhook" \in L
      PROVE  Has(d, L)' = Has(d, L)
  <2>1. CASE pc'[d] = pc[d] /\ arg'[d] = arg[d]
    BY <2>1, SameHas, Zenon
  <2>2. CASE pc[d] \in {"idle", "walk"} /\ pc'[d] \in {"idle", "walk"}
    BY <1>1, <2>2, NowHas, ThenHas
  <2>3. CASE /\ arg'[d] = arg[d]
             /\ \/ pc[d] = "link" /\ pc'[d] = "hook"
                \/ pc[d] = "unlink" /\ pc'[d] = "unhook"
    BY <1>1, <2>3, NowHas, ThenHas, ZenonT(60)
  <2>4. QED
    BY <2>1, <2>2, <2>3
<1>2. \A d \in Context : /\ Live(d)' = Live(d) /\ Plain(d)' = Plain(d)
                         /\ Usable(d)' = Usable(d) /\ Open(d)' = Open(d)
  BY <1>1 DEF Live, Plain, Usable, Open, Working, Given, Offered, Opened
<1>3. \A d \in Context : /\ Live(d) \subseteq Mapping /\ Plain(d) \subseteq Live(d)
                         /\ Usable(d) \subseteq Plain(d) /\ Open(d) \subseteq Plain(d)
  BY SetFacts DEF MemInv
<1>4. OwnInv'
  BY <1>2 DEF MemInv, OwnInv, Context, Working
<1>5. PageInv'
  BY PageFrame DEF Context
<1>6. InfoInv' /\ DistinctInv'
  BY <1>2, <1>3, LiveFrame
<1>7. BounceInv'
  BY <1>2, BounceFrame
<1>8. SharedInv'
  BY <1>2, <1>3, SharedFrame
<1>9. QED
  BY <1>4, <1>5, <1>6, <1>7, <1>8 DEF MemInv

-----------------------------------------------------------------------------
(* MapClear: the page becomes shared.                                      *)
LEMMA MapClearMem ==
    ASSUME TypeOK, MemInv, NEW c \in Context, MapClear(c)
    PROVE  MemInv'
<1> DEFINE m == arg[c]
<1>1. /\ pc[c] = "clear" /\ pc' = [pc EXCEPT ![c] = "copy"] /\ arg' = arg
      /\ shared' = shared \cup {info[m].plain}
      /\ use' = use /\ stashOf' = stashOf /\ buffers' = buffers /\ info' = info
      /\ inPool' = inPool /\ held' = held /\ phase' = phase
  BY DEF MapClear, At, Goto, mapVars, exitVars
<1>2. /\ m \in Mapping /\ m \in Live(c) /\ m \notin held[c]
      /\ \A d \in Context : d # c => m \notin Live(d)
  BY <1>1, AtWorkFacts DEF MemInv, Working
<1>3. /\ \A d \in Context : d # c =>
            /\ Live(d)' = Live(d) /\ Plain(d)' = Plain(d) /\ Usable(d)' = Usable(d)
            /\ Open(d)' = Open(d) /\ pc'[d] = pc[d]
      /\ Live(c)' = Live(c) /\ Plain(c)' = Plain(c) /\ Usable(c)' = Usable(c)
      /\ Open(c)' = Open(c) \cup {m} /\ pc'[c] = "copy"
  <2>1. /\ pc'[c] = "copy"
        /\ \A d \in Context : d # c => pc'[d] = pc[d] /\ \A L : Has(d, L)' = Has(d, L)
        /\ \A L : "copy" \in L => Has(c, L)' = held[c] \cup {m}
        /\ \A L : "copy" \notin L => Has(c, L)' = held[c]
    BY <1>1, Stays, Zenon
  <2>2. \A L : /\ "clear" \in L => Has(c, L) = held[c] \cup {m}
               /\ "clear" \notin L => Has(c, L) = held[c]
    BY <1>1, NowHas, Zenon
  <2>3. QED
    BY <2>1, <2>2 DEF Live, Plain, Usable, Open, Working, Given, Offered, Opened
<1>4. \A d \in Context : /\ Live(d) \subseteq Mapping /\ Plain(d) \subseteq Live(d)
                         /\ Usable(d) \subseteq Plain(d) /\ Open(d) \subseteq Plain(d)
  BY SetFacts DEF MemInv
<1>5. OwnInv'
  BY <1>1, <1>2, <1>3 DEF MemInv, OwnInv, Working, Context
<1> HIDE DEF m
<1>6. PageInv'
  BY <1>1, <1>3, PageFrame DEF Context
<1>7. InfoInv' /\ DistinctInv'
  BY <1>1, <1>3, <1>4, LiveFrame
<1>8. BounceInv'
  BY <1>1, <1>3, BounceFrame
<1>9. SharedInv'
  BY <1>1, <1>3 DEF MemInv, SharedInv
<1>10. QED
  BY <1>5, <1>6, <1>7, <1>8, <1>9 DEF MemInv

LEMMA MapCopyMem ==
    ASSUME TypeOK, MemInv, NEW c \in Context, MapCopy(c)
    PROVE  MemInv'
<1> DEFINE m == arg[c]
<1>1. /\ pc[c] = "copy" /\ pc' = [pc EXCEPT ![c] = "link"] /\ arg' = arg
      /\ shared' = shared
      /\ use' = use /\ stashOf' = stashOf /\ buffers' = buffers /\ info' = info
      /\ inPool' = inPool /\ held' = held /\ phase' = phase
  <2>1. /\ At(c, "copy") /\ Goto(c, "link")
        /\ UNCHANGED <<use, shared, stashOf, buffers, info, inPool, held, arg, node, raced, lost,
                       exitVars>>
    BY Zenon DEF MapCopy
  <2>2. QED
    BY <2>1 DEF At, Goto, exitVars
<1>2. /\ m \in Mapping /\ m \in Live(c) /\ m \notin held[c]
      /\ \A d \in Context : d # c => m \notin Live(d)
  BY <1>1, AtWorkFacts DEF MemInv, Working
<1>3. /\ \A d \in Context : d # c =>
            /\ Live(d)' = Live(d) /\ Plain(d)' = Plain(d) /\ Usable(d)' = Usable(d)
            /\ Open(d)' = Open(d) /\ pc'[d] = pc[d]
      /\ Live(c)' = Live(c) /\ Plain(c)' = Plain(c) /\ Usable(c)' = Usable(c)
      /\ Open(c)' = Open(c) /\ pc'[c] = "link"
  <2>1. /\ pc'[c] = "link"
        /\ \A d \in Context : d # c => pc'[d] = pc[d] /\ \A L : Has(d, L)' = Has(d, L)
        /\ \A L : "link" \in L => Has(c, L)' = held[c] \cup {m}
        /\ \A L : "link" \notin L => Has(c, L)' = held[c]
    BY <1>1, Stays, Zenon
  <2>2. \A L : /\ "copy" \in L => Has(c, L) = held[c] \cup {m}
               /\ "copy" \notin L => Has(c, L) = held[c]
    BY <1>1, NowHas, Zenon
  <2>3. QED
    BY <2>1, <2>2 DEF Live, Plain, Usable, Open, Working, Given, Offered, Opened
<1>4. \A d \in Context : /\ Live(d) \subseteq Mapping /\ Plain(d) \subseteq Live(d)
                         /\ Usable(d) \subseteq Plain(d) /\ Open(d) \subseteq Plain(d)
  BY SetFacts DEF MemInv
<1>5. OwnInv'
  BY <1>1, <1>2, <1>3 DEF MemInv, OwnInv, Working, Context
<1> HIDE DEF m
<1>6. PageInv'
  BY <1>1, <1>3, PageFrame DEF Context
<1>7. InfoInv' /\ DistinctInv'
  BY <1>1, <1>3, <1>4, LiveFrame
<1>8. BounceInv'
  BY <1>1, <1>3, BounceFrame
<1>9. SharedInv'
  BY <1>1, <1>3 DEF MemInv, SharedInv
<1>10. QED
  BY <1>5, <1>6, <1>7, <1>8, <1>9 DEF MemInv

(* UnmapEncrypt: the page becomes private, and is no other mapping's.      *)
LEMMA UnmapEncryptMem ==
    ASSUME TypeOK, MemInv, NEW c \in Context, UnmapEncrypt(c)
    PROVE  MemInv'
<1> DEFINE m == arg[c]
<1>1. /\ pc[c] = "encrypt" /\ pc' = [pc EXCEPT ![c] = "restore"] /\ arg' = arg
      /\ shared' = shared \ {info[m].plain}
      /\ use' = use /\ stashOf' = stashOf /\ buffers' = buffers /\ info' = info
      /\ inPool' = inPool /\ held' = held /\ phase' = phase
  BY DEF UnmapEncrypt, At, Goto, mapVars, exitVars
<1>2. /\ m \in Mapping /\ m \in Live(c) /\ m \notin held[c]
      /\ \A d \in Context : d # c => m \notin Live(d)
  BY <1>1, AtWorkFacts DEF MemInv, Working
<1>3. /\ \A d \in Context : d # c =>
            /\ Live(d)' = Live(d) /\ Plain(d)' = Plain(d) /\ Usable(d)' = Usable(d)
            /\ Open(d)' = Open(d) /\ pc'[d] = pc[d]
      /\ Live(c)' = Live(c) /\ Plain(c)' = Plain(c) /\ Usable(c)' = Usable(c)
      /\ Open(c) = Open(c)' \cup {m} /\ Open(c)' = held[c] /\ pc'[c] = "restore"
  <2>1. /\ pc'[c] = "restore"
        /\ \A d \in Context : d # c => pc'[d] = pc[d] /\ \A L : Has(d, L)' = Has(d, L)
        /\ \A L : "restore" \in L => Has(c, L)' = held[c] \cup {m}
        /\ \A L : "restore" \notin L => Has(c, L)' = held[c]
    BY <1>1, Stays, Zenon
  <2>2. \A L : /\ "encrypt" \in L => Has(c, L) = held[c] \cup {m}
               /\ "encrypt" \notin L => Has(c, L) = held[c]
    BY <1>1, NowHas, Zenon
  <2>3. QED
    BY <2>1, <2>2 DEF Live, Plain, Usable, Open, Working, Given, Offered, Opened
<1>4. \A d \in Context : /\ Live(d) \subseteq Mapping /\ Plain(d) \subseteq Live(d)
                         /\ Usable(d) \subseteq Plain(d) /\ Open(d) \subseteq Plain(d)
  BY SetFacts DEF MemInv
<1>5. OwnInv'
  BY <1>1, <1>2, <1>3 DEF MemInv, OwnInv, Working, Context
<1> HIDE DEF m
<1>6. PageInv'
  BY <1>1, <1>3, PageFrame DEF Context
<1>7. InfoInv' /\ DistinctInv'
  BY <1>1, <1>3, <1>4, LiveFrame
<1>8. BounceInv'
  BY <1>1, <1>3, BounceFrame
<1>9. SharedInv'
  <2>1. m \in Plain(c)
    BY <1>3, <1>4
  <2>2. \A d \in Context : \A x \in Open(d)' : x # m /\ x \in Plain(d) /\ x \in Open(d)
    BY <1>2, <1>3, <1>4
  <2>3. \A d \in Context : \A x \in Open(d)' : info[x].plain # info[m].plain
    BY <2>1, <2>2 DEF MemInv, DistinctInv
  <2>4. \A d \in Context : \A x \in Open(d) : x \in Open(d)' \/ x = m
    BY <1>3
  <2>5. QED
    BY <1>1, <2>2, <2>3, <2>4 DEF MemInv, SharedInv
<1>10. QED
  BY <1>5, <1>6, <1>7, <1>8, <1>9 DEF MemInv

(* The first store of a hook, or of its removal.                           *)
LEMMA LinkMem ==
    ASSUME TypeOK, MemInv, NEW c \in Context, MapLink(c) \/ UnmapUnlink(c)
    PROVE  MemInv'
<1>1. /\ use' = use /\ stashOf' = stashOf /\ buffers' = buffers /\ info' = info
      /\ inPool' = inPool /\ held' = held /\ shared' = shared /\ phase' = phase /\ arg' = arg
      /\ \/ pc[c] = "link" /\ pc' = [pc EXCEPT ![c] = "hook"]
         \/ pc[c] = "unlink" /\ pc' = [pc EXCEPT ![c] = "unhook"]
  BY DEF MapLink, UnmapUnlink, At, Goto, memVars, exitVars
<1>2. \A d \in Context : d # c => pc'[d] = pc[d]
  BY <1>1 DEF TypeOK
<1>3. \/ pc[c] = "link" /\ pc'[c] = "hook"
      \/ pc[c] = "unlink" /\ pc'[c] = "unhook"
  BY <1>1 DEF TypeOK
<1>4. QED
  BY <1>1, <1>2, <1>3, QuietMem

(* MapReturn: the mapping is in effect.                                    *)
LEMMA MapReturnMem ==
    ASSUME TypeOK, MemInv, NEW c \in Context, MapReturn(c)
    PROVE  MemInv'
<1> DEFINE m == arg[c]
<1>1. /\ pc[c] = "hook" /\ pc' = [pc EXCEPT ![c] = "idle"] /\ arg' = [arg EXCEPT ![c] = NoPage]
      /\ held' = [held EXCEPT ![c] = @ \cup {m}]
      /\ use' = use /\ stashOf' = stashOf /\ buffers' = buffers /\ info' = info
      /\ inPool' = inPool /\ shared' = shared /\ phase' = phase
  BY DEF MapReturn, At, Return, Goto, memVars, exitVars
<1>2. /\ m \in Mapping /\ m \in Live(c) /\ m \notin held[c]
      /\ \A d \in Context : d # c => m \notin Live(d)
  BY <1>1, AtWorkFacts DEF MemInv, Working
<1>3. /\ pc'[c] = "idle" /\ held'[c] = held[c] \cup {m}
      /\ \A d \in Context : d # c => pc'[d] = pc[d] /\ arg'[d] = arg[d] /\ held'[d] = held[d]
  BY <1>1 DEF TypeOK
<1>4. /\ \A d \in Context : d # c =>
            /\ Live(d)' = Live(d) /\ Plain(d)' = Plain(d) /\ Usable(d)' = Usable(d)
            /\ Open(d)' = Open(d)
      /\ Live(c)' = Live(c) /\ Plain(c)' = Plain(c) /\ Usable(c)' = Usable(c)
      /\ Open(c)' = Open(c)
  <2>1. \A d \in Context : d # c => \A L : Has(d, L)' = Has(d, L)
    BY <1>3, SameHas, Zenon
  <2>2. \A L : "idle" \notin L => Has(c, L)' = held[c] \cup {m}
    BY <1>3, ThenHas, ZenonT(60)
  <2>3. \A L : "hook" \in L => Has(c, L) = held[c] \cup {m}
    BY <1>1, NowHas, Zenon
  <2>4. QED
    BY <2>1, <2>2, <2>3 DEF Live, Plain, Usable, Open, Working, Given, Offered, Opened
<1>5. \A d \in Context : /\ Live(d) \subseteq Mapping /\ Plain(d) \subseteq Live(d)
                         /\ Usable(d) \subseteq Plain(d) /\ Open(d) \subseteq Plain(d)
  BY SetFacts DEF MemInv
<1>6. OwnInv'
  BY <1>1, <1>2, <1>3, <1>4 DEF MemInv, OwnInv, Working, Context
<1> HIDE DEF m
<1>7. PageInv'
  BY <1>1, <1>3, PageFrame DEF Context
<1>8. InfoInv' /\ DistinctInv'
  BY <1>1, <1>4, <1>5, LiveFrame
<1>9. BounceInv'
  BY <1>1, <1>4, BounceFrame
<1>10. SharedInv'
  BY <1>1, <1>4 DEF MemInv, SharedInv
<1>11. QED
  BY <1>6, <1>7, <1>8, <1>9, <1>10 DEF MemInv

(* MapFails: the MAP_INFO goes back to the pool.                           *)
LEMMA MapFailsMem ==
    ASSUME TypeOK, MemInv, NEW c \in Context, MapFails(c)
    PROVE  MemInv'
<1> DEFINE m == arg[c]
<1>1. /\ pc[c] = "map" /\ pc' = [pc EXCEPT ![c] = "idle"] /\ arg' = [arg EXCEPT ![c] = NoPage]
      /\ held' = held /\ inPool' = inPool \cup {m} /\ info' = [info EXCEPT ![m] = NoInfo]
      /\ use' = use /\ stashOf' = stashOf /\ buffers' = buffers
      /\ shared' = shared /\ phase' = phase
  BY DEF MapFails, At, Return, Goto, memVars, exitVars
<1>2. /\ m \in Mapping /\ m \in Live(c) /\ m \notin held[c]
      /\ \A d \in Context : d # c => m \notin Live(d)
  BY <1>1, AtWorkFacts DEF MemInv, Working
<1>3. /\ \A d \in Context : d # c =>
            /\ Live(d)' = Live(d) /\ Plain(d)' = Plain(d) /\ Usable(d)' = Usable(d)
            /\ Open(d)' = Open(d) /\ pc'[d] = pc[d] /\ arg'[d] = arg[d]
      /\ Live(c) = Live(c)' \cup {m} /\ Live(c)' = held[c] /\ Plain(c)' = Plain(c)
      /\ Usable(c)' = Usable(c) /\ Open(c)' = Open(c) /\ pc'[c] = "idle"
      /\ Plain(c) = held[c] /\ Open(c) = held[c] /\ Usable(c) = held[c]
  <2>1. /\ pc'[c] = "idle"
        /\ \A d \in Context : d # c => /\ pc'[d] = pc[d] /\ arg'[d] = arg[d]
                                       /\ \A L : Has(d, L)' = Has(d, L)
        /\ \A L : "idle" \notin L => Has(c, L)' = held[c]
    BY <1>1, Moves, Zenon
  <2>2. \A L : /\ "map" \in L => Has(c, L) = held[c] \cup {m}
               /\ "map" \notin L => Has(c, L) = held[c]
    BY <1>1, NowHas, Zenon
  <2>3. QED
    BY <2>1, <2>2 DEF Live, Plain, Usable, Open, Working, Given, Offered, Opened
<1>4. \A d \in Context : /\ Live(d) \subseteq Mapping /\ Plain(d) \subseteq Live(d)
                         /\ Usable(d) \subseteq Plain(d) /\ Open(d) \subseteq Plain(d)
  BY SetFacts DEF MemInv
<1>5. \A d \in Context : \A x \in Live(d)' : x \in Live(d) /\ x # m /\ info'[x] = info[x]
  <2>1. \A d \in Context : \A x \in Live(d)' : x \in Live(d) /\ x # m
    BY <1>2, <1>3
  <2>2. \A x \in Mapping : x # m => info'[x] = info[x]
    BY <1>1 DEF TypeOK
  <2>3. QED
    BY <1>4, <2>1, <2>2
<1>6. OwnInv'
  BY <1>1, <1>2, <1>3, <1>5 DEF MemInv, OwnInv, Working, Context
<1> HIDE DEF m
<1>7. \A d \in Context : Plain(d)' = Plain(d) /\ Usable(d)' = Usable(d) /\ Open(d)' = Open(d)
                         /\ Plain(d)' \subseteq Live(d)' /\ Usable(d)' \subseteq Live(d)'
                         /\ Open(d)' \subseteq Live(d)'
  BY <1>3, <1>4
<1>8. PageInv'
  BY <1>1, <1>3, PageFrame DEF Context
<1>9. InfoInv' /\ DistinctInv'
  BY <1>1, <1>5, <1>7, LiveFrame
<1>10. BounceInv'
  BY <1>1, <1>5, <1>7, BounceFrame
<1>11. SharedInv'
  BY <1>1, <1>5, <1>7 DEF MemInv, SharedInv
<1>12. QED
  BY <1>6, <1>8, <1>9, <1>10, <1>11 DEF MemInv

(* Unmap, and a round of IoMmuUnmapAllMappings, which may undo a mapping   *)
(* of the other driver: m is in effect no more, and c works on it.         *)
LEMMA UnmapStartMem ==
    ASSUME TypeOK, PcInv, MemInv, NEW c \in Context, NEW e \in Context, NEW m \in held[e],
           UnmapStart(c, m), pc[c] \in {"idle", "walk"}, phase = "boot" => e = c
    PROVE  MemInv'
<1>1. /\ pc' = [pc EXCEPT ![c] = "encrypt"] /\ arg' = [arg EXCEPT ![c] = m]
      /\ held' = [d \in Context |-> held[d] \ {m}]
      /\ use' = use /\ stashOf' = stashOf /\ buffers' = buffers /\ info' = info
      /\ inPool' = inPool /\ shared' = shared /\ phase' = phase
  <2>1. /\ arg' = [arg EXCEPT ![c] = m]
        /\ held' = [d \in Context |-> held[d] \ {m}]
        /\ Goto(c, "encrypt")
        /\ UNCHANGED <<use, shared, stashOf, buffers, info, inPool, list, exitVars>>
    BY Zenon DEF UnmapStart
  <2>2. QED
    BY <2>1 DEF Goto, exitVars
<1>2. /\ pc'[c] = "encrypt" /\ arg'[c] = m
      /\ \A d \in Context : d # c => pc'[d] = pc[d] /\ arg'[d] = arg[d]
      /\ \A d \in Context : held'[d] = held[d] \ {m}
  BY <1>1 DEF TypeOK
<1>3. \A d \in Context : /\ Live(d) \subseteq Mapping /\ Plain(d) \subseteq Live(d)
                         /\ Usable(d) \subseteq Plain(d) /\ Open(d) \subseteq Plain(d)
                         /\ held[d] \subseteq Open(d) /\ held[d] \subseteq Usable(d)
  BY SetFacts DEF MemInv
<1>4. /\ m \in Mapping /\ m \in Live(e) /\ m \notin inPool
      /\ \A d \in Context : d # e => m \notin Live(d)
      /\ \A d \in Context : pc[d] \in Working => arg[d] # m
  <2>1. m \in Mapping /\ m \in Live(e) /\ m \notin inPool
    BY <1>3 DEF MemInv, OwnInv
  <2>2. \A d \in Context : d # e => m \notin Live(d)
    BY <2>1 DEF MemInv, OwnInv, Context
  <2>3. \A d \in Context : pc[d] \in Working => arg[d] # m
    BY AtWorkFacts DEF MemInv
  <2>4. QED
    BY <2>1, <2>2, <2>3
<1>5. ASSUME NEW L, L \subseteq Working, NEW d \in Context
      PROVE  /\ d # c => Has(d, L)' = Has(d, L) \ {m}
             /\ "encrypt" \in L => Has(c, L)' = Has(c, L) \cup {m}
             /\ "encrypt" \notin L => Has(c, L)' = Has(c, L) \ {m}
  <2>1. ASSUME d # c PROVE Has(d, L)' = Has(d, L) \ {m}
    <3>1. CASE pc[d] \in L
      BY <1>2, <1>4, <1>5, <2>1, <3>1, NowHas, ThenHas
    <3>2. CASE pc[d] \notin L
      BY <1>2, <2>1, <3>2, NowHas, ThenHas
    <3>3. QED
      BY <3>1, <3>2
  <2>2. Has(c, L) = held[c]
    BY <1>5, NowHas DEF Working
  <2>3. QED
    BY <1>2, <2>1, <2>2, ThenHas
<1>6. /\ \A d \in Context : d # c =>
            /\ Live(d)' = Live(d) \ {m} /\ Plain(d)' = Plain(d) \ {m}
            /\ Usable(d)' = Usable(d) \ {m} /\ Open(d)' = Open(d) \ {m}
      /\ Live(c)' = Live(c) \cup {m} /\ Plain(c)' = Plain(c) \cup {m}
      /\ Usable(c)' = Usable(c) \ {m} /\ Open(c)' = Open(c) \cup {m}
  BY <1>5 DEF Live, Plain, Usable, Open, Working, Given, Offered, Opened
<1>7. OwnInv'
  <2>1. \A d \in Context : Live(d)' \subseteq Mapping /\ Live(d)' \cap inPool = {}
    BY <1>4, <1>6 DEF MemInv, OwnInv
  <2>2. \A d \in Context : pc'[d] \in Working => arg'[d] \notin held'[d]
    BY <1>2 DEF MemInv, OwnInv
  <2>3. \A x \in Mapping : ~ (x \in Live("main")' /\ x \in Live("timer")')
    BY <1>4, <1>6 DEF MemInv, OwnInv, Context
  <2>4. pc'["timer"] \notin {"allocate", "walk"}
    BY <1>2 DEF MemInv, OwnInv, Context
  <2>5. QED
    BY <1>1, <2>1, <2>2, <2>3, <2>4 DEF OwnInv
<1>8. PageInv'
  BY <1>1, <1>2, PageFrame DEF Context
<1>9. InfoInv' /\ DistinctInv'
  <2>1. ASSUME NEW d \in Context, NEW x \in Live(d)'
        PROVE  \E f \in Context : x \in Live(f) /\ (phase' = "boot" => f = d)
    BY <1>1, <1>4, <1>6
  <2>2. ASSUME NEW d \in Context, NEW x \in Plain(d)'
        PROVE  x \in Live(d)' /\ \E f \in Context : x \in Plain(f)
    BY <1>3, <1>6
  <2>3. ASSUME NEW d \in Context, NEW x \in Usable(d)' PROVE x \in Usable(d) /\ x \in Live(d)'
    BY <1>3, <1>6
  <2>4. QED
    BY <1>1, <2>1, <2>2, <2>3, LiveFrame
<1>10. BounceInv'
  BY <1>1, <1>3, <1>4, <1>6, BounceFrame
<1>11. SharedInv'
  <2>1. \A x \in Mapping : (\E d \in Context : x \in Open(d)')
                           <=> (\E d \in Context : x \in Open(d))
    BY <1>3, <1>6
  <2>2. \A d \in Context : \A x \in Open(d)' : x \in Mapping
    BY <1>3, <1>4, <1>6
  <2>3. QED
    BY <1>1, <2>1, <2>2, SharedFrame
<1>12. QED
  BY <1>7, <1>8, <1>9, <1>10, <1>11 DEF MemInv

(* UnmapRestore: the mapping has no page any more.                         *)
LEMMA UnmapRestoreMem ==
    ASSUME TypeOK, PcInv, MemInv, NEW c \in Context, UnmapRestore(c)
    PROVE  MemInv'
<1> DEFINE m == arg[c]
<1>1. /\ pc[c] = "restore" /\ pc' = [pc EXCEPT ![c] = "unlink"]
      /\ use' = (IF info[m].kind = "Common" \/ phase # "boot" THEN use
                 ELSE [use EXCEPT ![info[m].plain] = "free"])
      /\ info' = info /\ inPool' = inPool /\ arg' = arg
      /\ shared' = shared /\ stashOf' = stashOf /\ buffers' = buffers
      /\ held' = held /\ phase' = phase
  <2>1. /\ At(c, "restore")
        /\ use' = IF info[m].kind = "Common" \/ MemoryMapLocked THEN use
                  ELSE [use EXCEPT ![info[m].plain] = "free"]
        /\ Goto(c, "unlink")
        /\ UNCHANGED <<shared, stashOf, buffers, mapVars, arg, node, raced, lost, exitVars>>
    BY Zenon DEF UnmapRestore
  <2>2. QED
    BY <2>1 DEF At, Goto, MemoryMapLocked, mapVars, exitVars
<1>2. /\ m \in Mapping /\ m \in Live(c) /\ m \notin held[c]
      /\ \A d \in Context : d # c => m \notin Live(d)
  BY <1>1, AtWorkFacts DEF MemInv, Working
<1>3. pc'[c] = "unlink" /\ \A d \in Context : d # c => pc'[d] = pc[d] /\ arg'[d] = arg[d]
  BY <1>1 DEF TypeOK
<1>4. /\ \A d \in Context : d # c =>
            /\ Live(d)' = Live(d) /\ Plain(d)' = Plain(d) /\ Usable(d)' = Usable(d)
            /\ Open(d)' = Open(d)
      /\ Live(c)' = Live(c) /\ Plain(c)' = held[c] /\ Usable(c)' = held[c] /\ Open(c)' = held[c]
      /\ Live(c) = held[c] \cup {m} /\ Plain(c) = held[c] \cup {m}
      /\ Usable(c) = held[c] /\ Open(c) = held[c]
  <2>1. /\ \A d \in Context : d # c => \A L : Has(d, L)' = Has(d, L)
        /\ \A L : "unlink" \in L => Has(c, L)' = held[c] \cup {m}
        /\ \A L : "unlink" \notin L => Has(c, L)' = held[c]
    BY <1>1, Stays, Zenon
  <2>2. \A L : /\ "restore" \in L => Has(c, L) = held[c] \cup {m}
               /\ "restore" \notin L => Has(c, L) = held[c]
    BY <1>1, NowHas, Zenon
  <2>3. QED
    BY <2>1, <2>2 DEF Live, Plain, Usable, Open, Working, Given, Offered, Opened
<1>5. \A d \in Context : /\ Live(d) \subseteq Mapping /\ Plain(d) \subseteq Live(d)
                         /\ Usable(d) \subseteq Plain(d) /\ Open(d) \subseteq Plain(d)
  BY SetFacts DEF MemInv
<1>7. \A d \in Context : /\ Plain(d)' \subseteq Plain(d) /\ Plain(d)' \subseteq Live(d)'
                         /\ Usable(d)' = Usable(d) /\ Usable(d)' \subseteq Live(d)'
                         /\ Open(d)' = Open(d) /\ Live(d)' = Live(d)
                         /\ m \notin Plain(d)'
                         /\ \A x \in Plain(d) : x # m => x \in Plain(d)'
  BY <1>2, <1>4, <1>5
<1>8. OwnInv'
  BY <1>1, <1>2, <1>3, <1>4 DEF MemInv, OwnInv, Working, Context
<1> DEFINE p == info[m].plain
<1>9. /\ p \in Page /\ m \in Plain(c)
      /\ use' # use => /\ phase = "boot" /\ info[m].kind # "Common" /\ use[p] = "bounce"
                       /\ use'[p] = "free" /\ \A q \in Page : q # p => use'[q] = use[q]
  <2>1. m \in Plain(c)
    BY <1>4
  <2>2. p \in Page
    BY <2>1, PlainUse
  <2>3. ASSUME use' # use
        PROVE  phase = "boot" /\ info[m].kind # "Common"
               /\ use' = [use EXCEPT ![p] = "free"]
    BY <1>1, <2>3
  <2>4. info[m].kind # "Common" => use[p] = "bounce"
    BY <2>1 DEF MemInv, InfoInv
  <2>5. QED
    BY <2>1, <2>2, <2>3, <2>4 DEF TypeOK
<1> HIDE DEF m, p
<1>10. \A d \in Context : \A x \in Plain(d) : x # m => info[x].plain # p
  BY <1>2, <1>9 DEF MemInv, DistinctInv, p
<1>11. PageInv'
  <2>1. CASE use' = use
    BY <1>1, <1>3, <2>1, PageFrame DEF Context
  <2>2. CASE use' # use
    <3>1. /\ use'[p] = "free" /\ use[p] = "bounce" /\ p \in Page
          /\ \A q \in Page : q # p => use'[q] = use[q]
      BY <1>9, <2>2
    <3>2. pc'["main"] = "allocate" <=> pc["main"] = "allocate"
      BY <1>1, <1>3 DEF Context
    <3>3. pc["main"] = "allocate" => arg'["main"] = arg["main"]
      BY <1>1, <1>3 DEF Context
    <3>4. QED
      BY <1>1, <3>1, <3>2, <3>3, PageFacts DEF MemInv, PageInv
  <2>3. QED
    BY <2>1, <2>2
<1>12. \A d \in Context : \A x \in Plain(d)' :
          use[info[x].plain] = "bounce" => use'[info[x].plain] = "bounce"
  <2>1. ASSUME NEW d \in Context, NEW x \in Plain(d)', use[info[x].plain] = "bounce"
        PROVE  use'[info[x].plain] = "bounce"
    <3>1. x \in Plain(d) /\ x # m
      BY <1>7
    <3>2. info[x].plain \in Page /\ info[x].plain # p
      BY <1>10, <3>1, PlainUse
    <3>3. QED
      BY <1>9, <2>1, <3>2
  <2>2. QED
    BY <2>1
<1>13. InfoInv' /\ DistinctInv'
  BY <1>1, <1>7, <1>12, LiveFrame
<1>14. BounceInv'
  <2>1. ASSUME phase' = "boot", NEW q \in Page, use'[q] = "bounce"
        PROVE  \E d \in Context : \E x \in Plain(d)' :
                  info'[x].kind # "Common" /\ info'[x].plain = q
    <3>1. use[q] = "bounce"
      BY <1>9, <2>1
    <3>2. PICK d \in Context : \E x \in Plain(d) : info[x].kind # "Common" /\ info[x].plain = q
      BY <1>1, <2>1, <3>1 DEF MemInv, BounceInv
    <3>3. PICK x \in Plain(d) : info[x].kind # "Common" /\ info[x].plain = q
      BY <3>2
    <3>4. x # m
      <4>1. ASSUME x = m PROVE FALSE
        <5>1. q = p /\ info[m].kind # "Common"
          BY <3>3, <4>1 DEF p
        <5>2. use'[p] = "free"
          BY <1>1, <1>9, <2>1, <5>1 DEF TypeOK, m, p
        <5>3. QED
          BY <2>1, <5>1, <5>2
      <4>2. QED
        BY <4>1
    <3>5. x \in Plain(d)' /\ info'[x] = info[x]
      BY <1>1, <1>7, <3>4
    <3>6. QED
      BY <3>3, <3>5
  <2>2. QED
    BY <2>1 DEF BounceInv
<1>15. SharedInv'
  BY <1>1, <1>7 DEF MemInv, SharedInv
<1>16. QED
  BY <1>8, <1>11, <1>13, <1>14, <1>15 DEF MemInv

(* UnmapForget: the mapping is gone.                                       *)
LEMMA UnmapForgetMem ==
    ASSUME TypeOK, PcInv, MemInv, NEW c \in Context, UnmapForget(c)
    PROVE  MemInv'
<1> DEFINE m == arg[c]
<1>1. /\ pc[c] = "unhook" /\ (phase # "boot" => c = "main")
      /\ IF phase # "boot"
         THEN pc' = [pc EXCEPT ![c] = "walk"] /\ info' = info /\ inPool' = inPool /\ arg' = arg
         ELSE /\ pc' = [pc EXCEPT ![c] = "idle"] /\ arg' = [arg EXCEPT ![c] = NoPage]
              /\ inPool' = inPool \cup {m} /\ info' = [info EXCEPT ![m] = NoInfo]
      /\ use' = use /\ shared' = shared /\ stashOf' = stashOf /\ buffers' = buffers
      /\ held' = held /\ phase' = phase
  BY DEF UnmapForget, At, Runs, Context, Return, Goto, MemoryMapLocked, memVars, exitVars
<1>2. /\ m \in Mapping /\ m \in Live(c) /\ m \notin held[c]
      /\ \A d \in Context : d # c => m \notin Live(d)
  BY <1>1, AtWorkFacts DEF MemInv, Working
<1>3. /\ pc'[c] \in {"idle", "walk"} /\ (phase = "boot" => pc'[c] = "idle")
      /\ \A d \in Context : d # c => pc'[d] = pc[d] /\ arg'[d] = arg[d]
  BY <1>1 DEF TypeOK
<1>4. /\ \A d \in Context : d # c =>
            /\ Live(d)' = Live(d) /\ Plain(d)' = Plain(d) /\ Usable(d)' = Usable(d)
            /\ Open(d)' = Open(d)
      /\ Live(c)' = held[c] /\ Plain(c)' = held[c] /\ Usable(c)' = held[c] /\ Open(c)' = held[c]
      /\ Live(c) = held[c] \cup {m} /\ Plain(c) = held[c]
      /\ Usable(c) = held[c] /\ Open(c) = held[c]
  <2>1. \A d \in Context : d # c => \A L : Has(d, L)' = Has(d, L)
    BY <1>1, <1>3, SameHas, Zenon
  <2>2. \A L : "idle" \notin L /\ "walk" \notin L => Has(c, L)' = held[c]
    BY <1>1, <1>3, ThenHas
  <2>3. pc[c] = "unhook"
    BY <1>1
  <2>4. \A L : /\ "unhook" \in L => Has(c, L) = held[c] \cup {m}
               /\ "unhook" \notin L => Has(c, L) = held[c]
    BY <2>3, NowHas, Zenon
  <2>5. QED
    BY <2>1, <2>2, <2>4 DEF Live, Plain, Usable, Open, Working, Given, Offered, Opened
<1>5. \A d \in Context : /\ Live(d) \subseteq Mapping /\ Plain(d) \subseteq Live(d)
                         /\ Usable(d) \subseteq Plain(d) /\ Open(d) \subseteq Plain(d)
  BY SetFacts DEF MemInv
<1>6. \A d \in Context : \A x \in Live(d)' : x \in Live(d) /\ x # m /\ info'[x] = info[x]
  <2>1. \A d \in Context : \A x \in Live(d)' : x \in Live(d) /\ x # m
    BY <1>2, <1>4
  <2>2. \A x \in Mapping : x # m => info'[x] = info[x]
    BY <1>1 DEF TypeOK
  <2>3. QED
    BY <1>5, <2>1, <2>2
<1>7. OwnInv'
  BY <1>1, <1>2, <1>3, <1>4, <1>6 DEF MemInv, OwnInv, Working, Context
<1> HIDE DEF m
<1>8. \A d \in Context : /\ Plain(d)' = Plain(d) /\ Usable(d)' = Usable(d) /\ Open(d)' = Open(d)
                         /\ Plain(d)' \subseteq Live(d)' /\ Usable(d)' \subseteq Live(d)'
                         /\ Open(d)' \subseteq Live(d)'
  BY <1>4, <1>5
<1>9. PageInv'
  BY <1>1, <1>3, PageFrame DEF Context
<1>10. InfoInv' /\ DistinctInv'
  BY <1>1, <1>6, <1>8, LiveFrame
<1>11. BounceInv'
  BY <1>1, <1>6, <1>8, BounceFrame
<1>12. SharedInv'
  BY <1>1, <1>6, <1>8 DEF MemInv, SharedInv
<1>13. QED
  BY <1>7, <1>9, <1>10, <1>11, <1>12 DEF MemInv

(* The pages of a common buffer.                                           *)
LEMMA AllocateStashMem ==
    ASSUME TypeOK, MemInv, AllocateBufferStash
    PROVE  MemInv'
<1>0. "main" \in Context
  BY DEF Context
<1>1. PICK p \in Free : use' = [use EXCEPT ![p] = "stash"] /\ arg' = [arg EXCEPT !["main"] = p]
  BY DEF AllocateBufferStash
<1>2. /\ pc["main"] = "idle" /\ pc' = [pc EXCEPT !["main"] = "allocate"]
      /\ shared' = shared /\ stashOf' = stashOf /\ buffers' = buffers /\ info' = info
      /\ inPool' = inPool /\ held' = held /\ phase' = phase
  BY DEF AllocateBufferStash, Calls, Goto, mapVars, exitVars
<1>3. /\ p \in Page /\ use[p] = "free" /\ use'[p] = "stash"
      /\ \A q \in Page : q # p => use'[q] = use[q]
  BY <1>1 DEF Free, TypeOK
<1>4. /\ pc'["main"] = "allocate" /\ arg'["main"] = p
      /\ pc'["timer"] = pc["timer"] /\ arg'["timer"] = arg["timer"]
  BY <1>1, <1>2 DEF TypeOK, Context
<1>5. \A d \in Context : /\ Live(d)' = Live(d) /\ Plain(d)' = Plain(d)
                         /\ Usable(d)' = Usable(d) /\ Open(d)' = Open(d)
  <2>1. \A d \in Context : d # "main" => \A L : Has(d, L)' = Has(d, L)
    BY <1>0, <1>1, <1>2, Moves, Zenon
  <2>2. \A L : "allocate" \notin L => Has("main", L)' = held["main"]
    BY <1>0, <1>1, <1>2, Moves, Zenon
  <2>3. \A L : "idle" \notin L => Has("main", L) = held["main"]
    BY <1>2, NowHas, Zenon
  <2>4. QED
    BY <2>1, <2>2, <2>3 DEF Live, Plain, Usable, Open, Working, Given, Offered, Opened
<1>6. \A d \in Context : /\ Live(d) \subseteq Mapping /\ Plain(d) \subseteq Live(d)
                         /\ Usable(d) \subseteq Plain(d) /\ Open(d) \subseteq Plain(d)
  BY SetFacts DEF MemInv
<1>7. OwnInv'
  BY <1>2, <1>4, <1>5 DEF MemInv, OwnInv, Working, Context
<1>8. PageInv'
  BY <1>2, <1>3, <1>4, PageFacts DEF MemInv, PageInv
<1>9. InfoInv' /\ DistinctInv'
  <2>1. \A d \in Context : \A x \in Plain(d)' :
           use[info[x].plain] = "bounce" => use'[info[x].plain] = "bounce"
    BY <1>3, <1>5, PlainUse
  <2>2. QED
    BY <1>2, <1>5, <1>6, <2>1, LiveFrame
<1>10. BounceInv'
  BY <1>2, <1>3, <1>5 DEF MemInv, BounceInv
<1>11. SharedInv'
  BY <1>2, <1>5 DEF MemInv, SharedInv
<1>12. QED
  BY <1>7, <1>8, <1>9, <1>10, <1>11 DEF MemInv

LEMMA AllocatePagesMem ==
    ASSUME TypeOK, MemInv, AllocateBufferPages
    PROVE  MemInv'
<1>0. "main" \in Context
  BY DEF Context
<1>a. PICK p \in Free : /\ p + 1 \in Free
                        /\ use' = [use EXCEPT ![p] = "header", ![p + 1] = "common"]
                        /\ stashOf' = [stashOf EXCEPT ![p + 1] = arg["main"]]
                        /\ buffers' = buffers \cup {p + 1}
  BY DEF AllocateBufferPages
<1> DEFINE b == p + 1
<1>1. buffers' = buffers \cup {b}
  BY <1>a
<1>2. /\ pc["main"] = "allocate" /\ pc' = [pc EXCEPT !["main"] = "idle"]
      /\ arg' = [arg EXCEPT !["main"] = NoPage]
      /\ shared' = shared /\ info' = info
      /\ inPool' = inPool /\ held' = held /\ phase' = phase
  BY DEF AllocateBufferPages, At, Return, Goto, mapVars, exitVars
<1>3. /\ p \in Page /\ b \in Page /\ use[p] = "free" /\ use[b] = "free"
      /\ use'[p] = "header" /\ use'[b] = "common"
      /\ \A q \in Page : q # p /\ q # b => use'[q] = use[q]
      /\ stashOf'[b] = arg["main"]
      /\ \A q \in Page : q # b => stashOf'[q] = stashOf[q]
  <2>1. p \in Page /\ b \in Page /\ p \in Int /\ use[p] = "free" /\ use[b] = "free"
    BY <1>a DEF Free, Page
  <2>2. p # b
    BY <2>1
  <2>3. QED
    BY <1>a, <2>1, <2>2 DEF TypeOK
<1>b. \A q \in Page : (q + 1 = b <=> q = p) /\ b # b + 1 /\ b - 1 = p
  BY <1>a DEF Free, Page
<1> HIDE DEF b
<1>4. /\ pc'["main"] = "idle"
      /\ pc'["timer"] = pc["timer"] /\ arg'["timer"] = arg["timer"]
  BY <1>1, <1>2 DEF TypeOK, Context
<1>5. \A d \in Context : /\ Live(d)' = Live(d) /\ Plain(d)' = Plain(d)
                         /\ Usable(d)' = Usable(d) /\ Open(d)' = Open(d)
  <2>1. \A d \in Context : d # "main" => \A L : Has(d, L)' = Has(d, L)
    BY <1>0, <1>1, <1>2, Moves, Zenon
  <2>2. \A L : "idle" \notin L => Has("main", L)' = held["main"]
    BY <1>0, <1>1, <1>2, Moves, Zenon
  <2>3. \A L : "allocate" \notin L => Has("main", L) = held["main"]
    BY <1>2, NowHas, Zenon
  <2>4. QED
    BY <2>1, <2>2, <2>3 DEF Live, Plain, Usable, Open, Working, Given, Offered, Opened
<1>6. \A d \in Context : /\ Live(d) \subseteq Mapping /\ Plain(d) \subseteq Live(d)
                         /\ Usable(d) \subseteq Plain(d) /\ Open(d) \subseteq Plain(d)
  BY SetFacts DEF MemInv
<1>7. OwnInv'
  BY <1>2, <1>4, <1>5 DEF MemInv, OwnInv, Working, Context
<1>8. PageInv'
  <2>1. /\ p \notin buffers /\ b \notin buffers /\ b + 1 \notin buffers
        /\ arg["main"] \in Page /\ use[arg["main"]] = "stash"
        /\ \A x \in buffers : stashOf[x] # arg["main"]
    BY <1>2, <1>3, PageFacts DEF MemInv, PageInv
  <2>2. \A c \in Context : use'[HostPage[c]] = "host"
    <3>1. \A c \in Context : use[HostPage[c]] = "host"
      BY DEF MemInv, PageInv
    <3>2. QED
      BY <1>3, <3>1, PageFacts
  <2>3. \A q \in Page : use'[q] = "common" <=> q \in buffers'
    <3>1. \A q \in Page : use[q] = "common" <=> q \in buffers
      BY DEF MemInv, PageInv
    <3>2. QED
      BY <1>1, <1>3, <2>1, <3>1
  <2>4. \A q \in Page : use'[q] = "header" <=> q + 1 \in buffers'
    <3>1. \A q \in Page : use[q] = "header" <=> q + 1 \in buffers
      BY DEF MemInv, PageInv
    <3>2. QED
      BY <1>1, <1>3, <1>b, <2>1, <3>1
  <2>5. \A x \in buffers : x \in Page /\ x # b /\ stashOf'[x] = stashOf[x]
    BY <1>3, <2>1, PageFacts
  <2>6. \A x \in buffers' : x - 1 \in Page /\ stashOf'[x] \in Page /\ use'[stashOf'[x]] = "stash"
    <3>1. \A x \in buffers : x - 1 \in Page /\ stashOf[x] \in Page /\ use[stashOf[x]] = "stash"
      BY DEF MemInv, PageInv
    <3>2. \A q \in Page : use[q] = "stash" => use'[q] = "stash"
      BY <1>3
    <3>3. b - 1 \in Page
      BY <1>3, <1>b
    <3>4. QED
      BY <1>1, <1>3, <2>1, <2>5, <3>1, <3>2, <3>3
  <2>7. \A q \in Page : use'[q] = "stash" => \E x \in buffers' : stashOf'[x] = q
    <3>1. \A q \in Page : use[q] = "stash" =>
             (\E x \in buffers : stashOf[x] = q) \/ arg["main"] = q
      BY DEF MemInv, PageInv
    <3>2. QED
      BY <1>1, <1>3, <2>5, <3>1
  <2>8. \A x, y \in buffers' : stashOf'[x] = stashOf'[y] => x = y
    <3>1. \A x, y \in buffers : stashOf[x] = stashOf[y] => x = y
      BY DEF MemInv, PageInv
    <3>2. QED
      BY <1>1, <1>3, <2>1, <2>5, <3>1
  <2>9. QED
    BY <1>4, <2>2, <2>3, <2>4, <2>6, <2>7, <2>8 DEF PageInv
<1>9. InfoInv' /\ DistinctInv'
  <2>1. \A d \in Context : \A x \in Plain(d)' :
           use[info[x].plain] = "bounce" => use'[info[x].plain] = "bounce"
    BY <1>3, <1>5, PlainUse
  <2>2. QED
    BY <1>1, <1>2, <1>5, <1>6, <2>1, LiveFrame
<1>10. BounceInv'
  BY <1>2, <1>3, <1>5 DEF MemInv, BounceInv
<1>11. SharedInv'
  BY <1>2, <1>5 DEF MemInv, SharedInv
<1>12. QED
  BY <1>7, <1>8, <1>9, <1>10, <1>11 DEF MemInv

LEMMA AllocateFailsMem ==
    ASSUME TypeOK, MemInv, AllocateBufferFails
    PROVE  MemInv'
<1>0. "main" \in Context
  BY DEF Context
<1> DEFINE p == arg["main"]
<1>1. use' = [use EXCEPT ![p] = "free"]
  BY DEF AllocateBufferFails
<1>2. /\ pc["main"] = "allocate" /\ pc' = [pc EXCEPT !["main"] = "idle"]
      /\ arg' = [arg EXCEPT !["main"] = NoPage] /\ stashOf' = stashOf /\ buffers' = buffers
      /\ shared' = shared /\ info' = info
      /\ inPool' = inPool /\ held' = held /\ phase' = phase
  BY DEF AllocateBufferFails, At, Return, Goto, mapVars, exitVars
<1>3. /\ p \in Page /\ use[p] = "stash" /\ use'[p] = "free"
      /\ \A q \in Page : q # p => use'[q] = use[q]
  BY <1>1, <1>2 DEF TypeOK, MemInv, PageInv
<1>4. /\ pc'["main"] = "idle"
      /\ pc'["timer"] = pc["timer"] /\ arg'["timer"] = arg["timer"]
  BY <1>1, <1>2 DEF TypeOK, Context
<1>5. \A d \in Context : /\ Live(d)' = Live(d) /\ Plain(d)' = Plain(d)
                         /\ Usable(d)' = Usable(d) /\ Open(d)' = Open(d)
  <2>1. \A d \in Context : d # "main" => \A L : Has(d, L)' = Has(d, L)
    BY <1>0, <1>2, Moves, Zenon
  <2>2. \A L : "idle" \notin L => Has("main", L)' = held["main"]
    BY <1>0, <1>2, Moves, Zenon
  <2>3. \A L : "allocate" \notin L => Has("main", L) = held["main"]
    BY <1>2, NowHas, Zenon
  <2>4. QED
    BY <2>1, <2>2, <2>3 DEF Live, Plain, Usable, Open, Working, Given, Offered, Opened
<1>6. \A d \in Context : /\ Live(d) \subseteq Mapping /\ Plain(d) \subseteq Live(d)
                         /\ Usable(d) \subseteq Plain(d) /\ Open(d) \subseteq Plain(d)
  BY SetFacts DEF MemInv
<1>7. OwnInv'
  BY <1>2, <1>4, <1>5 DEF MemInv, OwnInv, Working, Context
<1>8. PageInv'
  BY <1>2, <1>3, <1>4, PageFacts DEF MemInv, PageInv
<1> HIDE DEF p
<1>9. InfoInv' /\ DistinctInv'
  <2>1. \A d \in Context : \A x \in Plain(d)' :
           use[info[x].plain] = "bounce" => use'[info[x].plain] = "bounce"
    BY <1>3, <1>5, PlainUse
  <2>2. QED
    BY <1>2, <1>5, <1>6, <2>1, LiveFrame
<1>10. BounceInv'
  BY <1>2, <1>3, <1>5 DEF MemInv, BounceInv
<1>11. SharedInv'
  BY <1>2, <1>5 DEF MemInv, SharedInv
<1>12. QED
  BY <1>7, <1>8, <1>9, <1>10, <1>11 DEF MemInv

(* FreeBuffer: no mapping is of the buffer.                                *)
LEMMA FreeBufferMem ==
    ASSUME TypeOK, MemInv, NEW b \in Page, FreeBuffer(b)
    PROVE  MemInv'
<1>1. /\ pc["main"] = "idle" /\ pc["timer"] = "idle" /\ b \in buffers /\ ~ InUse(b)
      /\ buffers' = buffers \ {b}
      /\ shared' = shared /\ info' = info /\ pc' = pc /\ arg' = arg
      /\ inPool' = inPool /\ held' = held /\ phase' = phase
  BY DEF FreeBuffer, Calls, Runs, mapVars, ctlVars, exitVars
<1> DEFINE s == stashOf[b]
           h == b - 1
<1>2. /\ s \in Page /\ h \in Page /\ use[s] = "stash" /\ use[h] = "header" /\ use[b] = "common"
      /\ \A q \in Page : q + 1 = b <=> q = h
  <2>1. s \in Page /\ h \in Page /\ use[s] = "stash" /\ use[b] = "common" /\ b \in Int
    BY <1>1, PageFacts DEF MemInv, PageInv
  <2>2. h + 1 \in buffers
    BY <1>1, <2>1
  <2>3. \A q \in Page : q + 1 = b <=> q = h
    BY <2>1 DEF Page
  <2>4. QED
    BY <2>1, <2>2, <2>3 DEF MemInv, PageInv
<1>3. /\ use'[s] = "free" /\ use'[h] = "free" /\ use'[b] = "free"
      /\ \A q \in Page : q # s /\ q # h /\ q # b => use'[q] = use[q]
      /\ \A q \in Page : q # b => stashOf'[q] = stashOf[q]
  <2>1. /\ use' = [use EXCEPT ![s] = "free", ![h] = "free", ![b] = "free"]
        /\ stashOf' = [stashOf EXCEPT ![b] = NoPage]
    BY DEF FreeBuffer
  <2>2. QED
    BY <1>2, <2>1 DEF TypeOK
<1> HIDE DEF h
<1>4. \A d \in Context : /\ Live(d)' = Live(d) /\ Plain(d)' = Plain(d)
                         /\ Usable(d)' = Usable(d) /\ Open(d)' = Open(d) /\ Live(d) = held[d]
  <2>1. \A d \in Context : \A L : Has(d, L)' = Has(d, L)
    BY <1>1, SameHas, Zenon
  <2>2. \A d \in Context : pc[d] = "idle"
    BY <1>1 DEF Context
  <2>3. \A d \in Context : Live(d) = held[d]
    BY <2>2, NowHas DEF Live, Working
  <2>4. QED
    BY <2>1, <2>3 DEF Live, Plain, Usable, Open
<1>5. \A d \in Context : /\ Live(d) \subseteq Mapping /\ Plain(d) \subseteq Live(d)
                         /\ Usable(d) \subseteq Plain(d) /\ Open(d) \subseteq Plain(d)
  BY SetFacts DEF MemInv
<1>6. OwnInv'
  BY <1>1, <1>4 DEF MemInv, OwnInv, Context
<1> HIDE DEF s
<1>7. PageInv'
  <2>1. \A c \in Context : use'[HostPage[c]] = "host"
    <3>1. \A c \in Context : use[HostPage[c]] = "host"
      BY DEF MemInv, PageInv
    <3>2. QED
      BY <1>2, <1>3, <3>1, PageFacts
  <2>2. \A q \in Page : use'[q] = "common" <=> q \in buffers'
    <3>1. \A q \in Page : use[q] = "common" <=> q \in buffers
      BY DEF MemInv, PageInv
    <3>2. QED
      BY <1>1, <1>2, <1>3, <3>1
  <2>3. \A q \in Page : use'[q] = "header" <=> q + 1 \in buffers'
    <3>1. \A q \in Page : use[q] = "header" <=> q + 1 \in buffers
      BY DEF MemInv, PageInv
    <3>2. QED
      BY <1>1, <1>2, <1>3, <3>1
  <2>4. \A a \in buffers' : a \in buffers /\ a # b /\ a \in Page /\ stashOf'[a] = stashOf[a]
    BY <1>1, <1>3, PageFacts
  <2>5. \A a \in buffers' : stashOf[a] # s
    BY <1>1, <2>4 DEF MemInv, PageInv, s
  <2>6. \A a \in buffers' : a - 1 \in Page /\ stashOf'[a] \in Page /\ use'[stashOf'[a]] = "stash"
    <3>1. \A a \in buffers : a - 1 \in Page /\ stashOf[a] \in Page /\ use[stashOf[a]] = "stash"
      BY DEF MemInv, PageInv
    <3>2. QED
      BY <1>2, <1>3, <2>4, <2>5, <3>1
  <2>7. \A q \in Page : use'[q] = "stash" => \E a \in buffers' : stashOf'[a] = q
    <3>1. ASSUME NEW q \in Page, use'[q] = "stash" PROVE \E a \in buffers' : stashOf'[a] = q
      <4>1. use[q] = "stash" /\ q # s
        BY <1>2, <1>3, <3>1
      <4>2. PICK a \in buffers : stashOf[a] = q
        BY <1>1, <4>1 DEF MemInv, PageInv
      <4>3. a # b
        BY <4>1, <4>2 DEF s
      <4>4. a \in buffers'
        BY <1>1, <4>3
      <4>5. QED
        BY <2>4, <4>2, <4>4
    <3>2. QED
      BY <3>1
  <2>8. \A a, d \in buffers' : stashOf'[a] = stashOf'[d] => a = d
    BY <2>4 DEF MemInv, PageInv
  <2>9. QED
    BY <1>1, <2>1, <2>2, <2>3, <2>6, <2>7, <2>8 DEF PageInv
<1>8. InfoInv' /\ DistinctInv'
  <2>1. \A d \in Context : \A x \in Plain(d)' :
           use[info[x].plain] = "bounce" => use'[info[x].plain] = "bounce"
    BY <1>2, <1>3, <1>4, PlainUse
  <2>2. \A d \in Context : \A x \in Live(d)' : info[x].crypted # b
    BY <1>1, <1>4 DEF InUse
  <2>3. QED
    BY <1>1, <1>4, <1>5, <2>1, <2>2, LiveFrame
<1>9. BounceInv'
  BY <1>1, <1>2, <1>3, <1>4 DEF MemInv, BounceInv
<1>10. SharedInv'
  BY <1>1, <1>4 DEF MemInv, SharedInv
<1>11. QED
  BY <1>6, <1>7, <1>8, <1>9, <1>10 DEF MemInv

-----------------------------------------------------------------------------
(* The links that a context may follow.                                    *)
LEMMA Follows ==
    ASSUME NEW c
    PROVE  /\ pc[c] \in {"link", "unlink"} => (Dangling(c) <=> list.fwd[arg[c]] \in inPool)
           /\ pc[c] = "unhook" => (Dangling(c) <=> list.back[arg[c]] \in inPool)
           /\ pc[c] = "walk" => (Dangling(c) <=> node \notin Held \cup {ListHead})
  BY DEF Dangling

(* IoMmuUnmapAllMappings undoes mappings in effect only.                   *)
LEMMA WalkHeld ==
    ASSUME PcInv, UnmapAllNode
    PROVE  /\ pc["main"] = "walk" /\ phase # "boot"
           /\ \E e \in Context : node \in held[e]
           /\ node' = list.fwd[node] /\ UnmapStart("main", node)
<1>1. /\ pc["main"] = "walk" /\ node # ListHead /\ ~ Dangling("main")
      /\ node' = list.fwd[node] /\ UnmapStart("main", node)
  BY Zenon DEF UnmapAllNode, At
<1>2. node \in Held
  BY <1>1, Follows
<1>3. QED
  BY <1>1, <1>2 DEF Held, Context, PcInv

LEMMA MemPreserved ==
    ASSUME TypeOK, PcInv, MemInv, [Next]_vars
    PROVE  MemInv'
<1>0. "main" \in Context
  BY DEF Context
<1>1. CASE AllocateBufferStash \/ AllocateBufferPages \/ AllocateBufferFails
  BY <1>1, AllocateStashMem, AllocatePagesMem, AllocateFailsMem
<1>2. CASE \E b \in Page : FreeBuffer(b)
  BY <1>2, FreeBufferMem
<1>3. ASSUME NEW c \in Context, Protocol(c) PROVE MemInv'
  <2>1. CASE \E kind \in Kind, h \in Page : MapInfo(c, kind, h)
    BY <2>1, MapInfoMem
  <2>2. CASE MapBounce(c) \/ MapCommon(c) \/ MapFails(c) \/ MapClear(c) \/ MapCopy(c)
             \/ MapLink(c) \/ MapReturn(c)
    BY <2>2, MapBounceMem, MapCommonMem, MapFailsMem, MapClearMem, MapCopyMem, LinkMem,
       MapReturnMem
  <2>3. CASE Unmap(c)
    <3>1. pc[c] = "idle" /\ \E m \in held[c] : UnmapStart(c, m)
      BY <2>3, Zenon DEF Unmap, Calls
    <3>2. QED
      BY <3>1, UnmapStartMem
  <2>4. CASE UnmapGoesOn(c)
    BY <2>4, UnmapEncryptMem, UnmapRestoreMem, LinkMem, UnmapForgetMem DEF UnmapGoesOn
  <2>5. CASE Dangles(c)
    <3>1. /\ use' = use /\ stashOf' = stashOf /\ buffers' = buffers /\ info' = info
          /\ inPool' = inPool /\ held' = held /\ shared' = shared /\ pc' = pc /\ arg' = arg
          /\ phase' = phase
      BY <2>5 DEF Dangles, memVars, mapVars, exitVars
    <3>2. QED
      BY <3>1, QuietMem
  <2>6. QED
    BY <1>3, <2>1, <2>2, <2>3, <2>4, <2>5 DEF Protocol, UnmapGoesOn
<1>4. CASE UnmapAllNode
  <2>1. pc["main"] = "walk" /\ phase # "boot" /\ UnmapStart("main", node)
    BY <1>4, WalkHeld
  <2>2. PICK e \in Context : node \in held[e]
    BY <1>4, WalkHeld
  <2>3. QED
    BY <1>0, <2>1, <2>2, UnmapStartMem
<1>5. CASE \/ ExitBootServices \/ IoMmuExitBoot \/ IoMmuUnmapAllMappings \/ UnmapAllDone
           \/ ExitReturns \/ UNCHANGED vars
           \/ \E c \in Context : HaltDevice(c)
           \/ \E c \in Context, h \in Page, d \in Data : DriverWrite(c, h, d)
           \/ \E c \in Context, m \in Mapping, d \in Data : DeviceWrite(c, m, d)
  <2>1. /\ use' = use /\ stashOf' = stashOf /\ buffers' = buffers /\ info' = info
        /\ inPool' = inPool /\ held' = held /\ shared' = shared
        /\ phase' = "boot" => phase = "boot"
    BY <1>5 DEF ExitBootServices, IoMmuExitBoot, IoMmuUnmapAllMappings, UnmapAllDone,
                ExitReturns, vars, HaltDevice, DriverWrite, DeviceWrite, memVars, mapVars,
                exitVars
  <2>2. CASE pc' = pc /\ arg' = arg
    BY <2>1, <2>2, QuietMem
  <2>3. CASE IoMmuUnmapAllMappings \/ UnmapAllDone
    <3>1. /\ pc["main"] \in {"idle", "walk"} /\ pc'["main"] \in {"idle", "walk"}
          /\ \A c \in Context : c # "main" => pc'[c] = pc[c] /\ arg'[c] = arg[c]
      BY <1>0, <2>3 DEF IoMmuUnmapAllMappings, UnmapAllDone, Dispatch, At, Return, Goto, TypeOK
    <3>2. QED
      BY <2>1, <3>1, QuietMem
  <2>4. QED
    BY <1>5, <2>2, <2>3 DEF ExitBootServices, IoMmuExitBoot, ExitReturns, vars, HaltDevice,
                            DriverWrite, DeviceWrite, ctlVars
<1>6. QED
  BY <1>1, <1>2, <1>3, <1>4, <1>5 DEF Next, Exit

LEMMA InitMem == Init => MemInv
<1> SUFFICES ASSUME Init PROVE MemInv
  OBVIOUS
<1>1. /\ use = [p \in Page |-> IF \E c \in Context : p = HostPage[c] THEN "host" ELSE "free"]
      /\ shared = {} /\ buffers = {} /\ inPool = Mapping
      /\ held = [c \in Context |-> {}] /\ pc = [c \in Context |-> "idle"]
      /\ phase = "boot"
  BY DEF Init
<1>2. ASSUME NEW L, "idle" \notin L, NEW c \in Context PROVE Has(c, L) = {}
  BY <1>1, <1>2, NowHas
<1>3. \A c \in Context : Live(c) = {} /\ Plain(c) = {} /\ Usable(c) = {} /\ Open(c) = {}
  BY <1>2 DEF Live, Plain, Usable, Open, Working, Given, Offered, Opened
<1>4. \A p \in Page : use[p] \in {"host", "free"}
  BY <1>1
<1>5. \A c \in Context : use[HostPage[c]] = "host"
  BY <1>1, IoMmuAssumption
<1>6. pc["main"] = "idle" /\ pc["timer"] = "idle"
  BY <1>1 DEF Context
<1>7. OwnInv
  BY <1>1, <1>3, <1>6 DEF OwnInv, Context, Working
<1>8. PageInv
  BY <1>1, <1>4, <1>5, <1>6 DEF PageInv
<1>9. InfoInv /\ BounceInv /\ DistinctInv /\ SharedInv
  BY <1>1, <1>3, <1>4 DEF InfoInv, BounceInv, DistinctInv, SharedInv
<1>10. QED
  BY <1>7, <1>8, <1>9 DEF MemInv

-----------------------------------------------------------------------------
(* Types.                                                                  *)
LEMMA PageWritten ==
    ASSUME TypeOK, NEW p, NEW d \in Data \cup {Junk}
    PROVE  [content EXCEPT ![p] = d] \in [Page -> Data \cup {Junk}]
  BY DEF TypeOK

LEMMA PageHolds ==
    ASSUME TypeOK, NEW p \in Page
    PROVE  content[p] \in Data \cup {Junk}
  BY DEF TypeOK

LEMMA PlainGiven ==
    ASSUME TypeOK, NEW m \in Mapping, NEW p \in Page \cup {NoPage}
    PROVE  [info EXCEPT ![m].plain = p] \in [Mapping -> [kind : Kind, crypted : Page \cup {NoPage},
                                                        plain : Page \cup {NoPage}]]
<1> DEFINE R == [kind : Kind, crypted : Page \cup {NoPage}, plain : Page \cup {NoPage}]
<1>1. info \in [Mapping -> R] /\ info[m] \in R
  BY DEF TypeOK
<1>2. [info[m] EXCEPT !.plain = p] \in R
  BY <1>1
<1> HIDE DEF R
<1>3. [info EXCEPT ![m] = [info[m] EXCEPT !.plain = p]] \in [Mapping -> R]
  BY <1>1, <1>2
<1>4. QED
  BY <1>3 DEF R

(* The pages that a live mapping is about.                                 *)
LEMMA LivePages ==
    ASSUME TypeOK, MemInv, NEW c \in Context, NEW m \in Live(c)
    PROVE  /\ info[m].crypted \in Page
           /\ info[m].kind = "Common" => stashOf[info[m].crypted] \in Page
  BY PageFacts DEF MemInv, InfoInv, PageInv

LEMMA PlainPages ==
    ASSUME TypeOK, MemInv, NEW c \in Context, NEW m \in Plain(c)
    PROVE  /\ m \in Mapping /\ info[m].kind \in Kind
           /\ info[m].plain \in Page /\ info[m].crypted \in Page
           /\ info[m].kind = "Common" => /\ stashOf[info[m].crypted] \in Page
                                         /\ info[m].plain = info[m].crypted
<1>1. m \in Live(c) /\ m \in Mapping
  BY SetFacts DEF MemInv
<1>2. QED
  BY <1>1, LivePages, PlainUse, InfoType DEF MemInv, InfoInv

LEMMA WorkIsPlain ==
    ASSUME TypeOK, MemInv, NEW c \in Context, pc[c] \in Given
    PROVE  arg[c] \in Plain(c) /\ arg[c] \in Mapping
<1>1. arg[c] \in Plain(c)
  BY NowHas DEF Plain
<1>2. QED
  BY <1>1, SetFacts DEF MemInv

LEMMA AllocateType ==
    ASSUME TypeOK, MemInv, AllocateBufferStash \/ AllocateBufferPages \/ AllocateBufferFails
    PROVE  TypeOK'
<1>1. CASE AllocateBufferStash
  <2>1. PICK p \in Page : use' = [use EXCEPT ![p] = "stash"] /\ arg' = [arg EXCEPT !["main"] = p]
    BY <1>1 DEF AllocateBufferStash, Free
  <2>2. /\ use' \in [Page -> {"free", "host", "bounce", "stash", "header", "common"}]
        /\ arg' \in [Context -> Page \cup Mapping \cup {NoPage}]
    BY <2>1 DEF TypeOK
  <2>3. QED
    BY <1>1, <2>2 DEF AllocateBufferStash, TypeOK, Goto, mapVars, exitVars
<1>2. CASE AllocateBufferPages
  <2>1. PICK p \in Free : /\ p + 1 \in Free
                          /\ use' = [use EXCEPT ![p] = "header", ![p + 1] = "common"]
                          /\ stashOf' = [stashOf EXCEPT ![p + 1] = arg["main"]]
                          /\ buffers' = buffers \cup {p + 1}
    BY <1>2 DEF AllocateBufferPages
  <2>2. arg["main"] \in Page
    BY <1>2 DEF AllocateBufferPages, At, MemInv, PageInv
  <2>3. p + 1 \in Page
    BY <2>1 DEF Free
  <2>4. UNCHANGED <<shared, content, mapVars, node, raced, lost, exitVars>> /\ Return("main")
    BY <1>2 DEF AllocateBufferPages
  <2>5. use' \in [Page -> {"free", "host", "bounce", "stash", "header", "common"}]
        /\ stashOf' \in [Page -> Page \cup {NoPage}] /\ buffers' \subseteq Page
    BY <2>1, <2>2, <2>3 DEF TypeOK
  <2>6. QED
    BY <2>4, <2>5 DEF TypeOK, Return, Goto, mapVars, exitVars
<1>3. CASE AllocateBufferFails
  BY <1>3 DEF AllocateBufferFails, TypeOK, Return, Goto, mapVars, exitVars
<1>4. QED
  BY <1>1, <1>2, <1>3

LEMMA FreeBufferType ==
    ASSUME TypeOK, NEW b \in Page, FreeBuffer(b)
    PROVE  TypeOK'
<1>1. /\ use' = [use EXCEPT ![stashOf[b]] = "free", ![b - 1] = "free", ![b] = "free"]
      /\ content' = [content EXCEPT ![stashOf[b]] = Junk, ![b] = Junk]
  BY DEF FreeBuffer
<1>2. use' \in [Page -> {"free", "host", "bounce", "stash", "header", "common"}]
      /\ content' \in [Page -> Data \cup {Junk}]
  BY <1>1 DEF TypeOK
<1>3. QED
  BY <1>2 DEF FreeBuffer, TypeOK, mapVars, ctlVars, exitVars

LEMMA MapType ==
    ASSUME TypeOK, MemInv, NEW c \in Context,
           \/ \E kind \in Kind, h \in Page : MapInfo(c, kind, h)
           \/ MapBounce(c) \/ MapCommon(c) \/ MapFails(c) \/ MapClear(c)
    PROVE  TypeOK'
<1>1. ASSUME NEW kind \in Kind, NEW h \in Page, MapInfo(c, kind, h) PROVE TypeOK'
  BY <1>1 DEF MapInfo, TypeOK, Goto, Touches, memVars, exitVars
<1>2. CASE MapBounce(c)
  <2>1. PICK p \in Page : use' = [use EXCEPT ![p] = "bounce"]
                          /\ info' = [info EXCEPT ![arg[c]].plain = p]
    BY <1>2 DEF MapBounce, Bounce, Free
  <2>2. info' \in [Mapping -> [kind : Kind, crypted : Page \cup {NoPage},
                               plain : Page \cup {NoPage}]]
    <3>1. arg[c] \in Mapping
      BY <1>2, AtWorkFacts DEF MapBounce, At, Working, MemInv
    <3>2. QED
      BY <2>1, <3>1, PlainGiven
  <2>3. QED
    BY <1>2, <2>1, <2>2 DEF MapBounce, TypeOK, Goto, exitVars
<1>3. CASE MapCommon(c)
  <2>1. /\ pc[c] = "map" /\ info[arg[c]].kind = "Common"
        /\ info' = [info EXCEPT ![arg[c]].plain = info[arg[c]].crypted]
        /\ content' = [content EXCEPT ![stashOf[info[arg[c]].crypted]] =
                                          content[info[arg[c]].crypted]]
    BY <1>3 DEF MapCommon, At
  <2>2. arg[c] \in Live(c)
    BY <2>1, NowHas DEF Live, Working
  <2>3. info[arg[c]].crypted \in Page
    BY <2>2, LivePages
  <2>4. content' \in [Page -> Data \cup {Junk}]
    BY <2>1, <2>3, PageWritten, PageHolds
  <2>5. info' \in [Mapping -> [kind : Kind, crypted : Page \cup {NoPage},
                               plain : Page \cup {NoPage}]]
    <3>1. arg[c] \in Mapping
      BY <2>1, AtWorkFacts DEF Working, MemInv
    <3>2. QED
      BY <2>1, <2>3, <3>1, PlainGiven
  <2>6. QED
    BY <1>3, <2>4, <2>5 DEF MapCommon, TypeOK, Goto, exitVars
<1>4. CASE MapFails(c)
  <2>1. arg[c] \in Mapping
    BY <1>4, AtWorkFacts DEF MapFails, At, Working, MemInv
  <2>2. NoInfo \in [kind : Kind, crypted : Page \cup {NoPage}, plain : Page \cup {NoPage}]
    BY DEF NoInfo, Kind
  <2>3. QED
    BY <1>4, <2>1, <2>2 DEF MapFails, TypeOK, Return, Goto, memVars, exitVars
<1>5. CASE MapClear(c)
  <2>1. pc[c] \in Given
    BY <1>5 DEF MapClear, At, Given
  <2>2. info[arg[c]].plain \in Page
    BY <2>1, WorkIsPlain, PlainPages
  <2>3. QED
    BY <1>5, <2>2 DEF MapClear, TypeOK, Goto, mapVars, exitVars
<1>6. QED
  BY <1>1, <1>2, <1>3, <1>4, <1>5

LEMMA MapCopyType ==
    ASSUME TypeOK, MemInv, NEW c \in Context, MapCopy(c)
    PROVE  TypeOK'
<1> DEFINE i == info[arg[c]]
<1>1. /\ At(c, "copy")
      /\ content' = CASE i.kind = "Read"   -> [content EXCEPT ![i.plain] = content[i.crypted]]
                      [] i.kind = "Common" -> [content EXCEPT ![i.plain] =
                                                 content[stashOf[i.crypted]]]
                      [] i.kind = "Write"  -> content
      /\ InsertPrepare(arg[c])
      /\ Goto(c, "link")
      /\ UNCHANGED <<use, shared, stashOf, buffers, info, inPool, held, arg, node, raced, lost,
                       exitVars>>
  BY Zenon DEF MapCopy
<1>2. pc[c] \in Given
  BY <1>1 DEF At, Given
<1>3. /\ arg[c] \in Mapping /\ i.kind \in Kind /\ i.plain \in Page /\ i.crypted \in Page
      /\ i.kind = "Common" => stashOf[i.crypted] \in Page
  BY <1>2, WorkIsPlain, PlainPages
<1>4. content' \in [Page -> Data \cup {Junk}]
  <2>1. CASE i.kind = "Read"
    <3>1. content' = [content EXCEPT ![i.plain] = content[i.crypted]]
      BY <1>1, <2>1
    <3>2. QED
      BY <1>3, <3>1, PageWritten, PageHolds
  <2>2. CASE i.kind = "Common"
    <3>1. content' = [content EXCEPT ![i.plain] = content[stashOf[i.crypted]]]
      BY <1>1, <2>2
    <3>2. QED
      BY <1>3, <2>2, <3>1, PageWritten, PageHolds
  <2>3. CASE i.kind = "Write"
    <3>1. content' = content
      BY <1>1, <2>3
    <3>2. QED
      BY <3>1 DEF TypeOK
  <2>4. QED
    BY <1>3, <2>1, <2>2, <2>3 DEF Kind
<1>5. list' \in [fwd : [Node -> Node], back : [Node -> Node]]
  BY <1>1, <1>3 DEF InsertPrepare, TypeOK, Node
<1>6. QED
  BY <1>1, <1>4, <1>5 DEF TypeOK, Goto, exitVars

(* The stores of a list operation.                                         *)
LEMMA LinksTyped ==
    ASSUME TypeOK, NEW e \in Node,
           InsertPrepare(e) \/ InsertBack(e) \/ InsertForward(e) \/ RemoveBack(e)
           \/ RemoveForward(e)
    PROVE  list' \in [fwd : [Node -> Node], back : [Node -> Node]]
<1>1. ListHead \in Node
  BY DEF Node
<1>2. QED
  BY <1>1 DEF TypeOK, InsertPrepare, InsertBack, InsertForward, RemoveBack, RemoveForward

LEMMA LinkType ==
    ASSUME TypeOK, MemInv, NEW c \in Context, MapLink(c) \/ MapReturn(c) \/ UnmapUnlink(c)
    PROVE  TypeOK'
<1>1. arg[c] \in Mapping
  <2>1. pc[c] \in Working
    BY DEF MapLink, MapReturn, UnmapUnlink, At, Working
  <2>2. QED
    BY <2>1, AtWorkFacts DEF MemInv
<1>2. list' \in [fwd : [Node -> Node], back : [Node -> Node]]
  BY <1>1, LinksTyped DEF MapLink, MapReturn, UnmapUnlink, Node
<1>3. CASE MapLink(c) \/ UnmapUnlink(c)
  BY SMTT(40), <1>2, <1>3 DEF MapLink, UnmapUnlink, Goto, TypeOK, memVars, exitVars
<1>4. CASE MapReturn(c)
  BY <1>1, <1>2, <1>4 DEF MapReturn, Return, Goto, TypeOK, memVars, exitVars
<1>5. QED
  BY <1>3, <1>4

LEMMA UnmapStartType ==
    ASSUME TypeOK, MemInv, NEW c \in Context, NEW e \in Context, NEW m \in held[e],
           UnmapStart(c, m), node' \in Node, raced' \in BOOLEAN, lost' = lost
    PROVE  TypeOK'
<1> DEFINE i == info[m]
<1>1. /\ content' = CASE i.kind = "Read"   -> content
                      [] i.kind = "Write"  -> [content EXCEPT ![i.crypted] = content[i.plain]]
                      [] i.kind = "Common" -> [content EXCEPT ![stashOf[i.plain]] =
                                                 content[i.plain]]
      /\ arg' = [arg EXCEPT ![c] = m]
      /\ held' = [d \in Context |-> held[d] \ {m}]
      /\ Goto(c, "encrypt")
      /\ UNCHANGED <<use, shared, stashOf, buffers, info, inPool, list, exitVars>>
  BY Zenon DEF UnmapStart
<1>2. m \in Plain(e)
  BY SetFacts DEF MemInv
<1>3. m \in Mapping /\ i.kind \in Kind /\ i.plain \in Page /\ i.crypted \in Page
  BY <1>2, PlainPages
<1>4. content' \in [Page -> Data \cup {Junk}]
  <2>1. CASE i.kind = "Read"
    <3>1. content' = content
      BY <1>1, <2>1
    <3>2. QED
      BY <3>1 DEF TypeOK
  <2>2. CASE i.kind = "Common"
    <3>1. content' = [content EXCEPT ![stashOf[i.plain]] = content[i.plain]]
      BY <1>1, <2>2
    <3>2. QED
      BY <1>3, <3>1, PageWritten, PageHolds
  <2>3. CASE i.kind = "Write"
    <3>1. content' = [content EXCEPT ![i.crypted] = content[i.plain]]
      BY <1>1, <2>3
    <3>2. QED
      BY <1>3, <3>1, PageWritten, PageHolds
  <2>4. QED
    BY <1>3, <2>1, <2>2, <2>3 DEF Kind
<1>5. QED
  BY <1>1, <1>3, <1>4 DEF TypeOK, Goto, exitVars

LEMMA UnmapType ==
    ASSUME TypeOK, PcInv, MemInv, NEW c \in Context, UnmapGoesOn(c)
    PROVE  TypeOK'
<1>1. CASE UnmapEncrypt(c)
  BY <1>1 DEF UnmapEncrypt, Goto, TypeOK, mapVars, exitVars
<1>2. CASE UnmapRestore(c)
  <2> DEFINE i == info[arg[c]]
  <2>1. /\ At(c, "restore")
        /\ content' = CASE i.kind = "Common" -> [content EXCEPT ![i.crypted] =
                                                   content[stashOf[i.crypted]]]
                        [] OTHER -> [content EXCEPT ![i.plain] =
                                       IF MemoryMapLocked THEN Zero ELSE Junk]
        /\ use' = IF i.kind = "Common" \/ MemoryMapLocked THEN use
                  ELSE [use EXCEPT ![i.plain] = "free"]
        /\ Goto(c, "unlink")
        /\ UNCHANGED <<shared, stashOf, buffers, mapVars, arg, node, raced, lost, exitVars>>
    BY <1>2, Zenon DEF UnmapRestore
  <2>2. pc[c] \in Given
    BY <2>1 DEF At, Given
  <2>3. /\ arg[c] \in Mapping /\ i.kind \in Kind /\ i.plain \in Page /\ i.crypted \in Page
        /\ i.kind = "Common" => stashOf[i.crypted] \in Page
    BY <2>2, WorkIsPlain, PlainPages
  <2>4. content' \in [Page -> Data \cup {Junk}]
    <3>1. CASE i.kind = "Common"
      <4>1. content' = [content EXCEPT ![i.crypted] = content[stashOf[i.crypted]]]
        BY <2>1, <3>1
      <4>2. QED
        BY <2>3, <3>1, <4>1, PageWritten, PageHolds
    <3>2. CASE i.kind # "Common"
      <4>1. PICK d \in Data \cup {Junk} : content' = [content EXCEPT ![i.plain] = d]
        BY <2>1, <3>2, IoMmuAssumption
      <4>2. QED
        BY <4>1, PageWritten
    <3>3. QED
      BY <3>1, <3>2
  <2>5. use' \in [Page -> {"free", "host", "bounce", "stash", "header", "common"}]
    BY <2>1 DEF TypeOK
  <2>6. QED
    BY <2>1, <2>4, <2>5 DEF TypeOK, Goto, mapVars, exitVars
<1>3. CASE UnmapUnlink(c)
  BY <1>3, LinkType
<1>4. CASE UnmapForget(c)
  <2>1. arg[c] \in Mapping
    BY <1>4, AtWorkFacts DEF MemInv, UnmapForget, At, Working
  <2>2. list' \in [fwd : [Node -> Node], back : [Node -> Node]]
    BY <1>4, <2>1, LinksTyped DEF UnmapForget, Node
  <2>3. NoInfo \in [kind : Kind, crypted : Page \cup {NoPage}, plain : Page \cup {NoPage}]
    BY DEF NoInfo, Kind
  <2>4. CASE MemoryMapLocked
    BY <1>4, <2>2, <2>4 DEF UnmapForget, Goto, TypeOK, memVars, exitVars
  <2>5. CASE ~ MemoryMapLocked
    <3>1. /\ pc' = [pc EXCEPT ![c] = "idle"] /\ arg' = [arg EXCEPT ![c] = NoPage]
          /\ inPool' = inPool \cup {arg[c]} /\ info' = [info EXCEPT ![arg[c]] = NoInfo]
          /\ UNCHANGED <<memVars, held, node, raced, lost, exitVars>>
      BY <1>4, <2>5 DEF UnmapForget, Return, Goto
    <3>2. /\ info' \in [Mapping -> [kind : Kind, crypted : Page \cup {NoPage},
                                    plain : Page \cup {NoPage}]]
          /\ inPool' \subseteq Mapping
      BY <2>1, <2>3, <3>1 DEF TypeOK
    <3>3. pc' \in [Context -> Labels] /\ arg' \in [Context -> Page \cup Mapping \cup {NoPage}]
      BY <3>1 DEF TypeOK, Labels
    <3>4. QED
      BY <2>2, <3>1, <3>2, <3>3 DEF TypeOK, Labels, memVars, exitVars
  <2>6. QED
    BY <2>4, <2>5
<1>5. QED
  BY <1>1, <1>2, <1>3, <1>4 DEF UnmapGoesOn

LEMMA ExitType ==
    ASSUME TypeOK, \/ ExitBootServices \/ IoMmuExitBoot \/ IoMmuUnmapAllMappings
                   \/ UnmapAllDone \/ ExitReturns \/ UNCHANGED vars
                   \/ \E c \in Context : HaltDevice(c)
                   \/ \E c \in Context, h \in Page, d \in Data : DriverWrite(c, h, d)
                   \/ \E c \in Context, m \in Mapping, d \in Data : DeviceWrite(c, m, d)
    PROVE  TypeOK'
<1>0. ListHead \in Node /\ "main" \in Context
  BY DEF Node, Context
<1>1. CASE ExitBootServices
  <2>1. PICK q \in [1 .. 3 -> Notifications] : queue' = q
    BY <1>1 DEF ExitBootServices
  <2>2. q \in Seq(Notifications \cup {"IoMmuUnmapAllMappings"})
    <3>1. q \in [1 .. 3 -> Notifications \cup {"IoMmuUnmapAllMappings"}] /\ 3 \in Nat
      OBVIOUS
    <3>2. QED
      BY <3>1, SeqDef, Zenon
  <2>3. QED
    BY <1>1, <2>1, <2>2 DEF ExitBootServices, TypeOK, memVars, mapVars, ctlVars
<1>2. ASSUME NEW e, Dispatch(e)
      PROVE  Tail(queue) \in Seq(Notifications \cup {"IoMmuUnmapAllMappings"})
  BY <1>2 DEF Dispatch, TypeOK
<1>3. CASE IoMmuExitBoot
  <2>1. queue' \in Seq(Notifications \cup {"IoMmuUnmapAllMappings"})
    BY <1>2, <1>3 DEF IoMmuExitBoot
  <2>2. QED
    BY <1>3, <2>1 DEF IoMmuExitBoot, TypeOK, memVars, mapVars, ctlVars
<1>4. CASE IoMmuUnmapAllMappings
  <2>1. queue' \in Seq(Notifications \cup {"IoMmuUnmapAllMappings"})
    BY <1>2, <1>4 DEF IoMmuUnmapAllMappings
  <2>2. list.fwd[ListHead] \in Node
    BY <1>0 DEF TypeOK
  <2>3. QED
    BY <1>4, <2>1, <2>2 DEF IoMmuUnmapAllMappings, Goto, TypeOK, memVars, mapVars
<1>5. CASE UnmapAllDone
  BY <1>5 DEF UnmapAllDone, Return, Goto, TypeOK, memVars, mapVars, exitVars
<1>6. CASE ExitReturns
  BY <1>6 DEF ExitReturns, TypeOK, memVars, mapVars, ctlVars
<1>7. CASE UNCHANGED vars
  BY <1>7 DEF vars, TypeOK, memVars, mapVars, ctlVars, exitVars
<1>8. CASE \E c \in Context : HaltDevice(c)
  <2>1. queue' \in Seq(Notifications \cup {"IoMmuUnmapAllMappings"})
    BY <1>2, <1>8 DEF HaltDevice
  <2>2. QED
    BY <1>8, <2>1 DEF HaltDevice, TypeOK, memVars, mapVars, ctlVars
<1>9. CASE \E c \in Context, h \in Page, d \in Data : DriverWrite(c, h, d)
  BY <1>9 DEF DriverWrite, TypeOK, mapVars, ctlVars, exitVars
<1>10. CASE \E c \in Context, m \in Mapping, d \in Data : DeviceWrite(c, m, d)
  BY <1>10 DEF DeviceWrite, TypeOK, mapVars, ctlVars, exitVars
<1>11. QED
  BY <1>1, <1>3, <1>4, <1>5, <1>6, <1>7, <1>8, <1>9, <1>10

LEMMA TypePreserved ==
    ASSUME TypeOK, PcInv, MemInv, [Next]_vars
    PROVE  TypeOK'
<1>0. "main" \in Context
  BY DEF Context
<1>1. CASE AllocateBufferStash \/ AllocateBufferPages \/ AllocateBufferFails
  BY <1>1, AllocateType
<1>2. CASE \E b \in Page : FreeBuffer(b)
  BY <1>2, FreeBufferType
<1>3. ASSUME NEW c \in Context, Protocol(c) PROVE TypeOK'
  <2>1. CASE \/ \E kind \in Kind, h \in Page : MapInfo(c, kind, h)
             \/ MapBounce(c) \/ MapCommon(c) \/ MapFails(c) \/ MapClear(c)
    BY <2>1, MapType
  <2>2. CASE MapCopy(c) \/ MapLink(c) \/ MapReturn(c)
    BY <2>2, MapCopyType, LinkType
  <2>3. CASE Unmap(c)
    <3>1. /\ node' = node /\ lost' = lost /\ Touches(c)
          /\ \E m \in held[c] : UnmapStart(c, m)
      BY <2>3, Zenon DEF Unmap
    <3>2. node' \in Node /\ raced' \in BOOLEAN
      BY <3>1 DEF TypeOK, Touches
    <3>3. QED
      BY <3>1, <3>2, UnmapStartType
  <2>4. CASE UnmapGoesOn(c)
    BY <2>4, UnmapType
  <2>5. CASE Dangles(c)
    BY <2>5 DEF Dangles, TypeOK, memVars, mapVars, exitVars
  <2>6. QED
    BY <1>3, <2>1, <2>2, <2>3, <2>4, <2>5 DEF Protocol, UnmapGoesOn
<1>4. CASE UnmapAllNode
  <2>1. UnmapStart("main", node) /\ node' = list.fwd[node]
    BY <1>4, WalkHeld
  <2>2. PICK e \in Context : node \in held[e]
    BY <1>4, WalkHeld
  <2>3. node' \in Node /\ raced' \in BOOLEAN /\ lost' = lost
    <3>1. raced' = raced /\ lost' = lost
      BY <1>4, Zenon DEF UnmapAllNode
    <3>2. QED
      BY <2>1, <3>1 DEF TypeOK
  <2>4. QED
    BY <1>0, <2>1, <2>2, <2>3, UnmapStartType
<1>5. CASE \/ ExitBootServices \/ IoMmuExitBoot \/ IoMmuUnmapAllMappings
           \/ UnmapAllDone \/ ExitReturns \/ UNCHANGED vars
           \/ \E c \in Context : HaltDevice(c)
           \/ \E c \in Context, h \in Page, d \in Data : DriverWrite(c, h, d)
           \/ \E c \in Context, m \in Mapping, d \in Data : DeviceWrite(c, m, d)
  BY <1>5, ExitType
<1>6. QED
  BY <1>1, <1>2, <1>3, <1>4, <1>5 DEF Next, Exit

LEMMA InitType == Init => TypeOK
<1> SUFFICES ASSUME Init PROVE TypeOK
  OBVIOUS
<1>1. NoInfo \in [kind : Kind, crypted : Page \cup {NoPage}, plain : Page \cup {NoPage}]
  BY DEF NoInfo, Kind
<1>2. /\ use \in [Page -> {"free", "host", "bounce", "stash", "header", "common"}]
      /\ content \in [Page -> Data \cup {Junk}]
  BY IoMmuAssumption DEF Init
<1>3. queue \in Seq(Notifications \cup {"IoMmuUnmapAllMappings"})
  BY DEF Init
<1>4. list \in [fwd : [Node -> Node], back : [Node -> Node]] /\ node \in Node
  BY DEF Init, Node
<1>5. QED
  BY <1>1, <1>2, <1>3, <1>4 DEF Init, TypeOK

-----------------------------------------------------------------------------
(* The list.  The entries and the head are all different.                  *)
LEMMA RingDistinct ==
    ASSUME NEW fwd, NEW back, NEW n \in Nat, NEW g, Ring(fwd, back, n, g)
    PROVE  /\ \A i, j \in 0 .. n : g[i] = g[j] => i = j
           /\ \A i, j \in 1 .. n + 1 : g[i] = g[j] => i = j
<1>1. /\ g[0] = ListHead /\ g[n + 1] = ListHead
      /\ \A i \in 1 .. n : g[i] \in Mapping
      /\ \A i, j \in 1 .. n : g[i] = g[j] => i = j
  BY DEF Ring
<1>2. \A i \in 1 .. n : g[i] # ListHead
  BY <1>1, IoMmuAssumption
<1>3. ASSUME NEW i \in 0 .. n, NEW j \in 0 .. n, g[i] = g[j] PROVE i = j
  <2>1. i = 0 \/ i \in 1 .. n
    OBVIOUS
  <2>2. j = 0 \/ j \in 1 .. n
    OBVIOUS
  <2>3. QED
    BY <1>1, <1>2, <1>3, <2>1, <2>2
<1>4. ASSUME NEW i \in 1 .. n + 1, NEW j \in 1 .. n + 1, g[i] = g[j] PROVE i = j
  <2>1. i = n + 1 \/ i \in 1 .. n
    OBVIOUS
  <2>2. j = n + 1 \/ j \in 1 .. n
    OBVIOUS
  <2>3. QED
    BY <1>1, <1>2, <1>4, <2>1, <2>2
<1>5. QED
  BY <1>3, <1>4

(* The lists with one entry more, and one less.                            *)
Inserted(f, b, n, g, e) ==
    \E k \in Nat : \E h \in [0 .. k + 1 -> Node] :
        /\ Ring(f, b, k, h)
        /\ \A m : (\E i \in 1 .. k : h[i] = m) <=> m = e \/ \E i \in 1 .. n : g[i] = m

Removed(f, b, n, g, e) ==
    \E k \in Nat : \E h \in [0 .. k + 1 -> Node] :
        /\ Ring(f, b, k, h)
        /\ \A m : (\E i \in 1 .. k : h[i] = m) <=> m # e /\ \E i \in 1 .. n : g[i] = m

(* What the two functions do to the links.                                 *)
LinksIn(f, b, fwd, back, e) ==
    /\ f[ListHead] = e /\ b[fwd[e]] = e
    /\ \A x \in Node : x # ListHead => f[x] = fwd[x]
    /\ \A x \in Node : x # fwd[e] => b[x] = back[x]

LinksOut(f, b, fwd, back, e) ==
    /\ back[e] # e => f[back[e]] = fwd[e]
    /\ fwd[e] # e => b[fwd[e]] = back[e]
    /\ \A x \in Node : x # back[e] /\ x # e => f[x] = fwd[x]
    /\ \A x \in Node : x # fwd[e] /\ x # e => b[x] = back[x]

(* InsertHeadList, once the entry's own links are set.                     *)
LEMMA RingInsert ==
    ASSUME NEW fwd \in [Node -> Node], NEW back \in [Node -> Node], NEW n \in Nat,
           NEW g \in [0 .. n + 1 -> Node], Ring(fwd, back, n, g),
           NEW e \in Mapping, \A i \in 1 .. n : g[i] # e,
           fwd[e] = fwd[ListHead], back[e] = ListHead,
           NEW f, NEW b, LinksIn(f, b, fwd, back, e)
    PROVE  Inserted(f, b, n, g, e)
<1>0. PICK k \in Nat : k = n + 1
  OBVIOUS
<1> DEFINE h == [i \in 0 .. k + 1 |-> IF i = 0 THEN ListHead ELSE IF i = 1 THEN e ELSE g[i - 1]]
<1>1. /\ g[0] = ListHead /\ g[n + 1] = ListHead
      /\ \A i \in 1 .. n : g[i] \in Mapping
      /\ \A i, j \in 1 .. n : g[i] = g[j] => i = j
      /\ \A i \in 0 .. n : fwd[g[i]] = g[i + 1] /\ back[g[i + 1]] = g[i]
  BY DEF Ring
<1>2. ListHead \in Node /\ e \in Node /\ e # ListHead
  BY IoMmuAssumption DEF Node
<1>3. k \in Nat /\ k + 1 \in Nat /\ 1 \in 0 .. k + 1 /\ 0 \in 0 .. k + 1
  BY <1>0
<1>4. h \in [0 .. k + 1 -> Node]
  <2>1. \A i \in 0 .. k + 1 : i # 0 /\ i # 1 => i - 1 \in 0 .. n + 1
    BY <1>0
  <2>2. \A i \in 0 .. k + 1 : (IF i = 0 THEN ListHead ELSE IF i = 1 THEN e ELSE g[i - 1]) \in Node
    BY <1>2, <2>1
  <2>3. QED
    BY <2>2
<1>5. h[0] = ListHead /\ h[1] = e /\ \A i \in 1 .. n + 1 : h[i + 1] = g[i]
  BY <1>0
<1> HIDE DEF h
<1>6. fwd[e] = g[1] /\ \A i \in 1 .. n + 1 : g[i] \in Node /\ g[i] # e
  <2>1. fwd[e] = g[1]
    BY <1>1
  <2>2. \A i \in 1 .. n + 1 : i = n + 1 \/ i \in 1 .. n
    OBVIOUS
  <2>3. QED
    BY <1>1, <1>2, <2>1, <2>2 DEF Node
<1>7. /\ f[ListHead] = e /\ \A x \in Node : x # ListHead => f[x] = fwd[x]
      /\ b[g[1]] = e /\ \A x \in Node : x # g[1] => b[x] = back[x]
  <2>1. g[1] \in Node
    BY <1>6
  <2>2. QED
    BY <1>2, <1>6, <2>1 DEF LinksIn
<1>8. \A i \in 2 .. n + 1 : g[i] # g[1]
  <2>1. \A i, j \in 1 .. n + 1 : g[i] = g[j] => i = j
    BY RingDistinct
  <2>2. QED
    BY <2>1
<1>9. ASSUME NEW i \in 0 .. k PROVE f[h[i]] = h[i + 1] /\ b[h[i + 1]] = h[i]
  <2>1. CASE i = 0
    BY <1>2, <1>5, <1>6, <1>7, <2>1
  <2>2. CASE i = 1
    <3>1. 1 \in 1 .. n + 1 /\ h[1 + 1] = g[1]
      BY <1>5
    <3>2. QED
      BY <1>2, <1>5, <1>6, <1>7, <2>2, <3>1
  <2>3. CASE i # 0 /\ i # 1
    <3>1. PICK j \in 1 .. n : i = j + 1
      <4>1. i - 1 \in 1 .. n /\ i = (i - 1) + 1
        BY <1>0, <2>3
      <4>2. QED
        BY <4>1
    <3>2. j \in 1 .. n + 1 /\ j + 1 \in 1 .. n + 1 /\ j + 1 \in 2 .. n + 1 /\ j \in 0 .. n
      OBVIOUS
    <3>3. h[i] = g[j] /\ h[i + 1] = g[j + 1]
      BY <1>5, <3>1, <3>2
    <3>4. g[j] \in Node /\ g[j] # ListHead /\ g[j + 1] \in Node /\ g[j + 1] # g[1]
      BY <1>1, <1>6, <1>8, <3>2, IoMmuAssumption
    <3>5. QED
      BY <1>1, <1>7, <3>2, <3>3, <3>4
  <2>4. QED
    BY <2>1, <2>2, <2>3
<1>10. \A i \in 1 .. k : (i = 1 /\ h[i] = e) \/ \E j \in 1 .. n : i = j + 1 /\ h[i] = g[j]
  <2>1. ASSUME NEW i \in 1 .. k, i # 1 PROVE \E j \in 1 .. n : i = j + 1 /\ h[i] = g[j]
    <3>1. i - 1 \in 1 .. n /\ i - 1 \in 1 .. n + 1 /\ i = (i - 1) + 1
      BY <1>0, <2>1
    <3>2. QED
      BY <1>5, <3>1
  <2>2. QED
    BY <1>5, <2>1
<1>11. \A i \in 1 .. k : h[i] \in Mapping
  BY <1>1, <1>10
<1>12. \A i, j \in 1 .. k : h[i] = h[j] => i = j
  BY <1>1, <1>10
<1>13. h[k + 1] = ListHead
  BY <1>0, <1>1, <1>5
<1>14. Ring(f, b, k, h)
  BY <1>5, <1>9, <1>11, <1>12, <1>13 DEF Ring
<1>15. ASSUME NEW m PROVE (\E i \in 1 .. k : h[i] = m) <=> m = e \/ \E i \in 1 .. n : g[i] = m
  <2>1. ASSUME NEW i \in 1 .. n PROVE i + 1 \in 1 .. k /\ h[i + 1] = g[i]
    BY <1>0, <1>5
  <2>2. 1 \in 1 .. k
    BY <1>0
  <2>3. (\E i \in 1 .. k : h[i] = m) => m = e \/ \E i \in 1 .. n : g[i] = m
    BY <1>10
  <2>4. m = e => \E i \in 1 .. k : h[i] = m
    BY <1>5, <2>2
  <2>5. (\E i \in 1 .. n : g[i] = m) => \E i \in 1 .. k : h[i] = m
    BY <2>1
  <2>6. QED
    BY <2>3, <2>4, <2>5
<1>16. QED
  BY <1>4, <1>14, <1>15 DEF Inserted

(* RemoveEntryList.                                                        *)
LEMMA RingRemove ==
    ASSUME NEW fwd \in [Node -> Node], NEW back \in [Node -> Node], NEW n \in Nat,
           NEW g \in [0 .. n + 1 -> Node], Ring(fwd, back, n, g),
           NEW p \in 1 .. n, NEW e, e = g[p],
           NEW f, NEW b, LinksOut(f, b, fwd, back, e)
    PROVE  Removed(f, b, n, g, e)
<1>3. /\ \A i, j \in 0 .. n : g[i] = g[j] => i = j
      /\ \A i, j \in 1 .. n + 1 : g[i] = g[j] => i = j
  <2>1. \A i, j \in 0 .. n : g[i] = g[j] => i = j
    BY RingDistinct
  <2>2. \A i, j \in 1 .. n + 1 : g[i] = g[j] => i = j
    BY RingDistinct
  <2>3. QED
    BY <2>1, <2>2
<1> DEFINE k == n - 1
           h == [i \in 0 .. k + 1 |-> IF i < p THEN g[i] ELSE g[i + 1]]
<1>1. /\ g[0] = ListHead /\ g[n + 1] = ListHead
      /\ \A i \in 1 .. n : g[i] \in Mapping
      /\ \A i, j \in 1 .. n : g[i] = g[j] => i = j
      /\ \A i \in 0 .. n : fwd[g[i]] = g[i + 1] /\ back[g[i + 1]] = g[i]
  BY DEF Ring
<1>2. k \in Nat /\ p \in 0 .. n /\ p - 1 \in 0 .. n /\ p + 1 \in 1 .. n + 1 /\ p \in 1 .. n + 1
      /\ (p - 1) + 1 = p /\ k + 1 = n
  OBVIOUS
<1>4. fwd[e] = g[p + 1] /\ back[e] = g[p - 1]
  BY <1>1, <1>2
<1>5. \A i \in 0 .. n + 1 : g[i] \in Node
  OBVIOUS
<1>6. e \in Node /\ g[p - 1] \in Node /\ g[p + 1] \in Node /\ g[p - 1] # e /\ g[p + 1] # e
  <2>1. p - 1 # p /\ p + 1 # p /\ p - 1 \in 0 .. n + 1 /\ p + 1 \in 0 .. n + 1 /\ p \in 0 .. n + 1
    OBVIOUS
  <2>2. QED
    BY <1>2, <1>3, <1>5, <2>1
<1>7. /\ f[g[p - 1]] = g[p + 1] /\ \A x \in Node : x # g[p - 1] /\ x # e => f[x] = fwd[x]
      /\ b[g[p + 1]] = g[p - 1] /\ \A x \in Node : x # g[p + 1] /\ x # e => b[x] = back[x]
  BY <1>4, <1>6 DEF LinksOut
<1>8. h \in [0 .. k + 1 -> Node]
  <2>1. \A i \in 0 .. k + 1 : i \in 0 .. n + 1 /\ i + 1 \in 0 .. n + 1
    OBVIOUS
  <2>2. \A i \in 0 .. k + 1 : (IF i < p THEN g[i] ELSE g[i + 1]) \in Node
    BY <1>5, <2>1
  <2>3. QED
    BY <2>2
<1>9. /\ \A i \in 0 .. k + 1 : i < p => h[i] = g[i]
      /\ \A i \in 0 .. k + 1 : ~(i < p) => h[i] = g[i + 1]
  OBVIOUS
<1> HIDE DEF h
<1>10. ASSUME NEW i \in 0 .. k PROVE f[h[i]] = h[i + 1] /\ b[h[i + 1]] = h[i]
  <2>0. i \in 0 .. k + 1 /\ i + 1 \in 0 .. k + 1
    OBVIOUS
  <2>1. CASE i + 1 < p
    <3>1. h[i] = g[i] /\ h[i + 1] = g[i + 1]
      BY <1>9, <2>0, <2>1
    <3>2. /\ i \in 0 .. n /\ i + 1 \in 1 .. n + 1 /\ i + 1 \in 0 .. n + 1 /\ i \in 0 .. n + 1
          /\ i # p - 1 /\ i # p /\ i + 1 # p + 1 /\ i + 1 # p
      BY <2>1
    <3>3. g[i] \in Node /\ g[i] # g[p - 1] /\ g[i] # e
      BY <1>2, <1>3, <1>5, <3>2
    <3>4. g[i + 1] \in Node /\ g[i + 1] # g[p + 1] /\ g[i + 1] # e
      BY <1>2, <1>3, <1>5, <3>2
    <3>5. QED
      BY <1>1, <1>7, <3>1, <3>2, <3>3, <3>4
  <2>2. CASE i + 1 = p
    <3>1. i < p /\ ~(i + 1 < p) /\ i = p - 1 /\ i + 1 = p
      BY <2>2
    <3>2. h[i] = g[p - 1] /\ h[i + 1] = g[p + 1]
      BY <1>9, <2>0, <3>1
    <3>3. QED
      BY <1>7, <3>2
  <2>3. CASE ~(i < p)
    <3>1. h[i] = g[i + 1] /\ h[i + 1] = g[i + 2]
      <4>1. ~(i + 1 < p) /\ (i + 1) + 1 = i + 2
        BY <2>3
      <4>2. QED
        BY <1>9, <2>0, <2>3, <4>1
    <3>2. /\ i + 1 \in 0 .. n /\ i + 2 \in 1 .. n + 1
          /\ i + 2 \in 0 .. n + 1 /\ i + 1 \in 0 .. n + 1
          /\ i + 1 # p - 1 /\ i + 1 # p /\ i + 2 # p + 1 /\ i + 2 # p /\ (i + 1) + 1 = i + 2
      BY <2>3
    <3>3. g[i + 1] \in Node /\ g[i + 1] # g[p - 1] /\ g[i + 1] # e
      BY <1>2, <1>3, <1>5, <3>2
    <3>4. g[i + 2] \in Node /\ g[i + 2] # g[p + 1] /\ g[i + 2] # e
      BY <1>2, <1>3, <1>5, <3>2
    <3>5. fwd[g[i + 1]] = g[i + 2] /\ back[g[i + 2]] = g[i + 1]
      BY <1>1, <3>2
    <3>6. QED
      BY <1>7, <3>1, <3>3, <3>4, <3>5
  <2>4. QED
    BY <2>1, <2>2, <2>3
<1>11. \A i \in 1 .. k : \/ i < p /\ i \in 1 .. n /\ h[i] = g[i]
                         \/ ~(i < p) /\ i + 1 \in 1 .. n /\ h[i] = g[i + 1]
  BY <1>9
<1>12. \A i \in 1 .. k : h[i] \in Mapping
  BY <1>1, <1>11
<1>13. ASSUME NEW i \in 1 .. k, NEW j \in 1 .. k, h[i] = h[j] PROVE i = j
  <2>1. CASE i < p /\ j < p
    BY <1>1, <1>11, <1>13, <2>1
  <2>2. CASE i < p /\ ~(j < p)
    <3>1. i = j + 1
      BY <1>1, <1>11, <1>13, <2>2
    <3>2. QED
      BY <2>2, <3>1
  <2>3. CASE ~(i < p) /\ j < p
    <3>1. i + 1 = j
      BY <1>1, <1>11, <1>13, <2>3
    <3>2. QED
      BY <2>3, <3>1
  <2>4. CASE ~(i < p) /\ ~(j < p)
    <3>1. i + 1 = j + 1
      BY <1>1, <1>11, <1>13, <2>4
    <3>2. QED
      BY <3>1
  <2>5. QED
    BY <2>1, <2>2, <2>3, <2>4
<1>14. h[0] = ListHead /\ h[k + 1] = ListHead
  <2>1. 0 < p /\ ~(k + 1 < p) /\ 0 \in 0 .. k + 1 /\ k + 1 \in 0 .. k + 1 /\ (k + 1) + 1 = n + 1
    OBVIOUS
  <2>2. h[0] = g[0] /\ h[k + 1] = g[n + 1]
    BY <1>9, <2>1
  <2>3. QED
    BY <1>1, <2>2
<1>15. ASSUME NEW m PROVE (\E i \in 1 .. k : h[i] = m) <=> m # e /\ \E i \in 1 .. n : g[i] = m
  <2>1. ASSUME NEW i \in 1 .. k PROVE h[i] # e /\ \E j \in 1 .. n : g[j] = h[i]
    <3>1. PICK j \in 1 .. n : h[i] = g[j] /\ j # p
      BY <1>11
    <3>2. QED
      BY <1>1, <3>1
  <2>2. ASSUME NEW i \in 1 .. n, g[i] # e PROVE \E j \in 1 .. k : h[j] = g[i]
    <3>1. CASE i < p
      <4>1. i \in 1 .. k /\ i \in 0 .. k + 1
        BY <3>1
      <4>2. QED
        BY <1>9, <3>1, <4>1
    <3>2. CASE i > p
      <4>1. i - 1 \in 1 .. k /\ i - 1 \in 0 .. k + 1 /\ ~(i - 1 < p) /\ (i - 1) + 1 = i
        BY <3>2
      <4>2. h[i - 1] = g[i]
        BY <1>9, <4>1
      <4>3. QED
        BY <4>1, <4>2
    <3>3. i # p
      BY <2>2
    <3>4. QED
      BY <3>1, <3>2, <3>3
  <2>3. QED
    BY <2>1, <2>2
<1> HIDE DEF k
<1>16. Ring(f, b, k, h)
  BY <1>10, <1>12, <1>13, <1>14 DEF Ring
<1>17. k \in Nat
  BY <1>2
<1>18. QED
  BY <1>8, <1>15, <1>16, <1>17 DEF Removed

(* Nobody else is in a list operation when a context is in the protocol.   *)
LEMMA NobodyLinks ==
    ASSUME AloneInv, NEW c \in Context, Runs(c), pc[c] # "idle"
    PROVE  \A d \in Context : d # c => pc[d] \notin Window
  BY DEF AloneInv, Runs, Context, Window

(* The list itself when nobody else is in the middle of an operation.      *)
LEMMA ListIs ==
    ASSUME TypeOK, MemInv, ListInv, NEW c \in Context,
           \A d \in Context : d # c => pc[d] \notin Window
    PROVE  \E n \in Nat : \E g \in [0 .. n + 1 -> Node], b \in [Node -> Node] :
              /\ Chain(n, g, b)
              /\ \A i \in 1 .. n : g[i] \notin inPool
              /\ \A x \in Node : b[x] = list.back[x] \/ (pc[c] \in Half /\ x = list.fwd[arg[c]])
<1>1. PICK n \in Nat : \E g \in [0 .. n + 1 -> Node], b \in [Node -> Node] : Chain(n, g, b)
  BY DEF ListInv, IsChain
<1>2. PICK g \in [0 .. n + 1 -> Node], b \in [Node -> Node] : Chain(n, g, b)
  BY <1>1
<1>3. ASSUME NEW i \in 1 .. n PROVE g[i] \notin inPool
  <2>1. PICK d \in Context : g[i] \in InList(d)
    BY <1>2 DEF Chain, Ring
  <2>2. g[i] \in Live(d)
    BY <2>1, SetFacts DEF MemInv
  <2>3. QED
    BY <2>2 DEF MemInv, OwnInv
<1>4. ASSUME NEW x \in Node
      PROVE  b[x] = list.back[x] \/ (pc[c] \in Half /\ x = list.fwd[arg[c]])
  <2>1. \A d \in Context : pc[d] \in Half => d = c
    BY DEF Half, Window
  <2>2. b[x] = list.back[x] \/ \E d \in Context : pc[d] \in Half /\ x = list.fwd[arg[d]]
    BY <1>2 DEF Chain
  <2>3. QED
    BY <2>1, <2>2
<1>5. QED
  BY <1>2, <1>3, <1>4

(* The place in the list of a mapping that c takes off.                    *)
LEMMA EntryIs ==
    ASSUME TypeOK, MemInv, ListInv, NEW c \in Context, pc[c] \in Undone,
           NEW n \in Nat, NEW g \in [0 .. n + 1 -> Node], NEW b \in [Node -> Node], Chain(n, g, b)
    PROVE  \E p \in 1 .. n :
              /\ arg[c] = g[p] /\ list.fwd[arg[c]] = g[p + 1] /\ b[arg[c]] = g[p - 1]
              /\ p - 1 \in 0 .. n + 1 /\ p + 1 \in 0 .. n + 1
              /\ g[p + 1] # arg[c] /\ g[p - 1] # arg[c]
<1>1. arg[c] \in Mapping /\ arg[c] \in InList(c)
  <2>1. arg[c] \in Mapping
    BY AtWorkFacts DEF MemInv, Undone, Working
  <2>2. InList(c) = held[c] \cup {arg[c]}
    BY NowHas DEF InList
  <2>3. QED
    BY <2>1, <2>2
<1>2. PICK p \in 1 .. n : arg[c] = g[p]
  BY <1>1 DEF Chain
<1>3. Ring(list.fwd, b, n, g)
  BY DEF Chain
<1>4. /\ p \in 0 .. n /\ p - 1 \in 0 .. n /\ (p - 1) + 1 = p
      /\ p - 1 \in 0 .. n + 1 /\ p + 1 \in 0 .. n + 1 /\ p \in 1 .. n + 1 /\ p + 1 \in 1 .. n + 1
      /\ p # p - 1 /\ p # p + 1
  OBVIOUS
<1>5. \A i \in 0 .. n : list.fwd[g[i]] = g[i + 1] /\ b[g[i + 1]] = g[i]
  BY <1>3 DEF Ring
<1>6. list.fwd[g[p]] = g[p + 1] /\ b[g[p]] = g[p - 1]
  BY <1>4, <1>5
<1>7. /\ \A i, j \in 0 .. n : g[i] = g[j] => i = j
      /\ \A i, j \in 1 .. n + 1 : g[i] = g[j] => i = j
  <2>1. \A i, j \in 0 .. n : g[i] = g[j] => i = j
    BY <1>3, RingDistinct
  <2>2. \A i, j \in 1 .. n + 1 : g[i] = g[j] => i = j
    BY <1>3, RingDistinct
  <2>3. QED
    BY <2>1, <2>2
<1>8. g[p + 1] # g[p] /\ g[p - 1] # g[p]
  BY <1>4, <1>7
<1>9. QED
  BY <1>2, <1>4, <1>6, <1>8

(* The entry that c adds is not in the list yet, and its link leads to the *)
(* first one.                                                              *)
LEMMA NewEntry ==
    ASSUME TypeOK, MemInv, ListInv, NEW c \in Context, pc[c] \in {"copy", "link", "hook"},
           NEW n \in Nat, NEW g \in [0 .. n + 1 -> Node], NEW b \in [Node -> Node], Chain(n, g, b)
    PROVE  /\ arg[c] \in Mapping /\ arg[c] \in Node /\ arg[c] # ListHead /\ ListHead \in Node
           /\ \A d \in Context : arg[c] \notin InList(d)
           /\ \A i \in 0 .. n + 1 : g[i] # arg[c]
           /\ list.fwd[ListHead] = g[1] /\ 1 \in 0 .. n + 1
<1>1. /\ arg[c] \in Mapping /\ arg[c] \in Node /\ arg[c] # ListHead /\ ListHead \in Node
      /\ \A d \in Context : arg[c] \notin held[d]
      /\ \A d \in Context : d # c => arg[c] \notin Live(d)
  BY AtWorkFacts, IoMmuAssumption DEF MemInv, Working, Node
<1>2. ASSUME NEW d \in Context PROVE arg[c] \notin InList(d)
  <2>1. CASE d = c
    <3>1. InList(c) = held[c]
      BY NowHas DEF InList, Undone
    <3>2. QED
      BY <1>1, <2>1, <3>1
  <2>2. CASE d # c
    BY <1>1, <2>2, SetFacts DEF MemInv
  <2>3. QED
    BY <2>1, <2>2
<1>3. \A i \in 1 .. n : g[i] # arg[c]
  BY <1>1, <1>2 DEF Chain
<1>4. g[0] = ListHead /\ g[n + 1] = ListHead /\ list.fwd[g[0]] = g[0 + 1]
  BY DEF Chain, Ring
<1>5. \A i \in 0 .. n + 1 : i = 0 \/ i = n + 1 \/ i \in 1 .. n
  OBVIOUS
<1>6. 0 + 1 = 1 /\ 1 \in 0 .. n + 1
  OBVIOUS
<1>7. QED
  BY <1>1, <1>2, <1>3, <1>4, <1>5, <1>6

(* The first entry of the list while IoMmuUnmapAllMappings walks it.       *)
LEMMA WalkNode ==
    ASSUME TypeOK, PcInv, MemInv, ListInv, WalkInv, pc["main"] = "walk"
    PROVE  /\ phase = "exit"
           /\ node # ListHead => \E e \in Context : node \in held[e]
           /\ node = ListHead => \A c \in Context : held[c] = {}
<1>1. phase = "exit" /\ node = list.fwd[ListHead] /\ pc["timer"] = "idle"
  BY DEF WalkInv, PcInv
<1>2. \A c \in Context : InList(c) = held[c] /\ held[c] \subseteq Mapping
  <2>1. \A c \in Context : pc[c] \notin Undone
    BY <1>1 DEF Context, Undone
  <2>2. QED
    BY <2>1, NowHas DEF InList, TypeOK
<1>3. PICK n \in Nat : \E g \in [0 .. n + 1 -> Node], b \in [Node -> Node] : Chain(n, g, b)
  BY DEF ListInv, IsChain
<1>4. PICK g \in [0 .. n + 1 -> Node], b \in [Node -> Node] : Chain(n, g, b)
  BY <1>3
<1>5. /\ g[0] = ListHead /\ g[n + 1] = ListHead
      /\ \A i \in 1 .. n : g[i] \in Mapping
      /\ \A i \in 0 .. n : list.fwd[g[i]] = g[i + 1]
      /\ \A m \in Mapping : (\E i \in 1 .. n : g[i] = m) <=> \E c \in Context : m \in InList(c)
  BY <1>4 DEF Chain, Ring
<1>6. node = g[1]
  BY <1>1, <1>5
<1>7. CASE n = 0
  <2>1. \A m \in Mapping : ~ \E c \in Context : m \in InList(c)
    BY <1>5, <1>7
  <2>2. \A c \in Context : held[c] = {}
    BY <1>2, <2>1
  <2>3. QED
    BY <1>1, <1>5, <1>6, <1>7, <2>2
<1>8. CASE n # 0
  <2>1. 1 \in 1 .. n
    BY <1>8
  <2>2. node \in Mapping /\ \E c \in Context : node \in InList(c)
    BY <1>5, <1>6, <2>1
  <2>3. QED
    BY <1>1, <1>2, <2>2, IoMmuAssumption
<1>9. QED
  BY <1>7, <1>8

(* No link that a context follows dangles.                                 *)
LEMMA NoLinkDangles ==
    ASSUME TypeOK, PcInv, MemInv, ListInv, AloneInv, WalkInv, NEW c \in Context, Runs(c)
    PROVE  ~Dangling(c)
<1>1. CASE pc[c] \notin {"link", "unlink", "unhook", "walk"}
  BY <1>1 DEF Dangling
<1>2. CASE pc[c] = "walk"
  <2>1. c = "main"
    BY <1>2 DEF MemInv, OwnInv, Context
  <2>2. node \in Held \cup {ListHead}
    BY <1>2, <2>1, WalkNode DEF Held, Context
  <2>3. QED
    BY <1>2, <2>2 DEF Dangling
<1>3. CASE pc[c] \in {"link", "unlink", "unhook"}
  <2>1. \A d \in Context : d # c => pc[d] \notin Window
    BY <1>3, NobodyLinks
  <2>2. PICK n \in Nat : \E g \in [0 .. n + 1 -> Node], b \in [Node -> Node] :
              /\ Chain(n, g, b)
              /\ \A i \in 1 .. n : g[i] \notin inPool
              /\ \A x \in Node : b[x] = list.back[x] \/ (pc[c] \in Half /\ x = list.fwd[arg[c]])
    BY <2>1, ListIs
  <2>3. PICK g \in [0 .. n + 1 -> Node], b \in [Node -> Node] :
              /\ Chain(n, g, b)
              /\ \A i \in 1 .. n : g[i] \notin inPool
              /\ \A x \in Node : b[x] = list.back[x] \/ (pc[c] \in Half /\ x = list.fwd[arg[c]])
    BY <2>2
  <2>4. \A i \in 0 .. n + 1 : g[i] \notin inPool
    <3>1. g[0] = ListHead /\ g[n + 1] = ListHead
      BY <2>3 DEF Chain, Ring
    <3>2. ListHead \notin inPool
      BY IoMmuAssumption DEF TypeOK
    <3>3. \A i \in 0 .. n + 1 : i = 0 \/ i = n + 1 \/ i \in 1 .. n
      OBVIOUS
    <3>4. QED
      BY <2>3, <3>1, <3>2, <3>3
  <2>5. CASE pc[c] = "link"
    <3>1. list.fwd[arg[c]] = list.fwd[ListHead]
      BY <2>5 DEF ListInv
    <3>2. list.fwd[ListHead] = g[1] /\ 1 \in 0 .. n + 1
      BY <2>3, <2>5, NewEntry
    <3>3. QED
      BY <2>4, <2>5, <3>1, <3>2 DEF Dangling
  <2>6. CASE pc[c] \in {"unlink", "unhook"}
    <3>1. pc[c] \in Undone
      BY <2>6 DEF Undone
    <3>2. PICK p \in 1 .. n :
              /\ arg[c] = g[p] /\ list.fwd[arg[c]] = g[p + 1] /\ b[arg[c]] = g[p - 1]
              /\ p - 1 \in 0 .. n + 1 /\ p + 1 \in 0 .. n + 1
              /\ g[p + 1] # arg[c] /\ g[p - 1] # arg[c]
      <4>1. Chain(n, g, b)
        BY <2>3
      <4>2. QED
        BY <3>1, <4>1, EntryIs, ZenonT(60)
    <3>3. arg[c] \in Node /\ list.fwd[arg[c]] # arg[c]
      BY <3>2
    <3>4. b[arg[c]] = list.back[arg[c]]
      BY <2>3, <3>3
    <3>5. list.fwd[arg[c]] \notin inPool /\ list.back[arg[c]] \notin inPool
      BY <2>4, <3>2, <3>4
    <3>6. QED
      BY <2>6, <3>5 DEF Dangling
  <2>7. QED
    BY <1>3, <2>5, <2>6
<1>4. QED
  BY <1>1, <1>2, <1>3

(* The step keeps the list and the mappings in it.                         *)
LEMMA ListFrame ==
    ASSUME ListInv, list' = list,
           \A m \in Mapping : (\E c \in Context : m \in InList(c)')
                               <=> (\E c \in Context : m \in InList(c)),
           \A c \in Context : pc'[c] \in Window => pc[c] = pc'[c] /\ arg'[c] = arg[c],
           \A c \in Context : pc[c] \in Half => pc[c] = pc'[c] /\ arg'[c] = arg[c]
    PROVE  ListInv'
<1>1. PICK n \in Nat : \E g \in [0 .. n + 1 -> Node], b \in [Node -> Node] : Chain(n, g, b)
  BY DEF ListInv, IsChain
<1>2. PICK g \in [0 .. n + 1 -> Node], b \in [Node -> Node] : Chain(n, g, b)
  BY <1>1
<1>3. Chain(n, g, b)'
  <2>1. \A x \in Node : \/ b[x] = list'.back[x]
                        \/ \E c \in Context : pc'[c] \in Half /\ x = list'.fwd[arg'[c]]
    BY <1>2 DEF Chain
  <2>2. Ring(list'.fwd, b, n, g)
    BY <1>2 DEF Chain
  <2>3. \A m \in Mapping : (\E i \in 1 .. n : g[i] = m) <=> \E c \in Context : m \in InList(c)'
    BY <1>2 DEF Chain
  <2>4. QED
    BY <2>1, <2>2, <2>3 DEF Chain
<1>4. IsChain'
  BY <1>3 DEF IsChain
<1>5. \A c \in Context : pc'[c] \in {"link", "hook", "unhook"} => pc[c] = pc'[c] /\ arg'[c] = arg[c]
  BY DEF Window
<1>6. QED
  BY <1>4, <1>5 DEF ListInv

(* A step of c that neither changes the list nor the mappings in effect.   *)
LEMMA ListStays ==
    ASSUME TypeOK, ListInv, list' = list, held' = held, NEW c \in Context,
           \A d \in Context : d # c => pc'[d] = pc[d] /\ arg'[d] = arg[d],
           pc'[c] \notin Window, pc[c] \notin Window,
           \/ pc[c] \notin Undone /\ pc'[c] \notin Undone
           \/ pc[c] \in Undone /\ pc'[c] \in Undone /\ arg'[c] = arg[c]
    PROVE  ListInv'
<1>1. ASSUME NEW d \in Context PROVE InList(d)' = InList(d)
  <2>1. CASE d # c
    BY <2>1, SameHas, Zenon DEF InList
  <2>2. CASE d = c
    <3>1. /\ pc'[c] \in Undone => Has(c, Undone)' = held'[c] \cup {arg'[c]}
          /\ pc'[c] \notin Undone => Has(c, Undone)' = held'[c]
      BY ThenHas, Zenon
    <3>2. /\ pc[c] \in Undone => Has(c, Undone) = held[c] \cup {arg[c]}
          /\ pc[c] \notin Undone => Has(c, Undone) = held[c]
      BY NowHas, Zenon
    <3>3. Has(c, Undone)' = Has(c, Undone)
      BY <3>1, <3>2
    <3>4. QED
      BY <2>2, <3>3 DEF InList
  <2>3. QED
    BY <2>1, <2>2
<1>2. pc[c] \notin Half
  BY DEF Half, Window
<1>3. QED
  BY <1>1, <1>2, ListFrame

(* The four steps that store a link.  The links of others are as before.   *)
LEMMA OthersHave ==
    ASSUME TypeOK, NEW c \in Context, NEW l, pc' = [pc EXCEPT ![c] = l], arg' = arg, held' = held,
           pc[c] \in Undone <=> l \in Undone
    PROVE  /\ pc'[c] = l /\ \A d \in Context : d # c => pc'[d] = pc[d]
           /\ \A d \in Context : InList(d)' = InList(d)
<1>1. /\ pc'[c] = l
      /\ \A d \in Context : d # c => pc'[d] = pc[d] /\ \A L : Has(d, L)' = Has(d, L)
      /\ \A L : l \in L => Has(c, L)' = held[c] \cup {arg[c]}
      /\ \A L : l \notin L => Has(c, L)' = held[c]
  BY Stays, Zenon
<1>2. Has(c, Undone)' = Has(c, Undone)
  BY <1>1, NowHas
<1>3. QED
  BY <1>1, <1>2 DEF InList

LEMMA MapCopyList ==
    ASSUME TypeOK, MemInv, ListInv, AloneInv, NEW c \in Context, MapCopy(c)
    PROVE  ListInv'
<1> DEFINE m == arg[c]
<1>1. /\ At(c, "copy") /\ pc' = [pc EXCEPT ![c] = "link"] /\ arg' = arg /\ held' = held
      /\ list' = [fwd  |-> [list.fwd EXCEPT ![m] = list.fwd[ListHead]],
                  back |-> [list.back EXCEPT ![m] = ListHead]]
  <2>1. /\ At(c, "copy") /\ InsertPrepare(m) /\ Goto(c, "link")
        /\ UNCHANGED <<use, shared, stashOf, buffers, info, inPool, held, arg, node, raced, lost,
                       exitVars>>
    BY Zenon DEF MapCopy
  <2>2. QED
    BY <2>1 DEF Goto, InsertPrepare
<1>2. /\ pc[c] = "copy" /\ Runs(c) /\ pc[c] \notin Half
      /\ \A d \in Context : d # c => pc[d] \notin Window
  BY <1>1, NobodyLinks DEF At, Half
<1>3. /\ pc'[c] = "link" /\ \A d \in Context : d # c => pc'[d] = pc[d]
      /\ \A d \in Context : InList(d)' = InList(d)
  BY <1>1, <1>2, OthersHave DEF Undone
<1>4. PICK n \in Nat : \E g \in [0 .. n + 1 -> Node], b \in [Node -> Node] :
              /\ Chain(n, g, b)
              /\ \A i \in 1 .. n : g[i] \notin inPool
              /\ \A x \in Node : b[x] = list.back[x] \/ (pc[c] \in Half /\ x = list.fwd[arg[c]])
  BY <1>2, ListIs
<1>5. PICK g \in [0 .. n + 1 -> Node], b \in [Node -> Node] :
              Chain(n, g, b) /\ \A x \in Node : b[x] = list.back[x]
  BY <1>2, <1>4
<1>6. /\ m \in Mapping /\ m \in Node /\ m # ListHead /\ ListHead \in Node
      /\ \A i \in 0 .. n + 1 : g[i] # m
  BY <1>2, <1>5, NewEntry
<1>7. /\ \A x \in Node : x # m => list'.fwd[x] = list.fwd[x] /\ list'.back[x] = list.back[x]
      /\ list'.fwd[m] = list.fwd[ListHead] /\ list'.back[m] = ListHead
      /\ list'.back \in [Node -> Node]
  BY <1>1, <1>6 DEF TypeOK
<1>8. list'.fwd[arg'[c]] = list'.fwd[ListHead] /\ list'.back[arg'[c]] = ListHead
  BY <1>1, <1>6, <1>7
<1> HIDE DEF m
<1>9. Ring(list'.fwd, list'.back, n, g)
  <2>1. Ring(list.fwd, b, n, g)
    BY <1>5 DEF Chain
  <2>2. ASSUME NEW i \in 0 .. n
        PROVE  list'.fwd[g[i]] = g[i + 1] /\ list'.back[g[i + 1]] = g[i]
    <3>1. list.fwd[g[i]] = g[i + 1] /\ b[g[i + 1]] = g[i]
      BY <2>1 DEF Ring
    <3>2. i \in 0 .. n + 1 /\ i + 1 \in 0 .. n + 1
      OBVIOUS
    <3>3. g[i] \in Node /\ g[i + 1] \in Node /\ g[i] # m /\ g[i + 1] # m
      BY <1>6, <3>2
    <3>4. QED
      BY <1>5, <1>7, <3>1, <3>3
  <2>3. QED
    BY <2>1, <2>2 DEF Ring
<1>10. Chain(n, g, list.back)'
  <2>1. \A x \in Mapping : (\E i \in 1 .. n : g[i] = x) <=> \E d \in Context : x \in InList(d)'
    BY <1>3, <1>5 DEF Chain
  <2>2. QED
    BY <1>9, <2>1 DEF Chain
<1>11. IsChain'
  <2>1. \E h \in [0 .. n + 1 -> Node], b1 \in [Node -> Node] : Chain(n, h, b1)'
    BY <1>7, <1>10
  <2>2. QED
    BY <2>1 DEF IsChain
<1>12. \A d \in Context : d # c => pc'[d] \notin {"link", "hook", "unhook"}
  BY <1>2, <1>3 DEF Window
<1>13. QED
  BY <1>3, <1>8, <1>11, <1>12 DEF ListInv

LEMMA MapLinkList ==
    ASSUME TypeOK, MemInv, ListInv, AloneInv, NEW c \in Context, MapLink(c)
    PROVE  ListInv'
<1> DEFINE m == arg[c]
<1>1. /\ At(c, "link") /\ pc' = [pc EXCEPT ![c] = "hook"] /\ arg' = arg /\ held' = held
      /\ list' = [list EXCEPT !.back = [@ EXCEPT ![list.fwd[m]] = m]]
  BY DEF MapLink, Goto, InsertBack
<1>2. /\ pc[c] = "link" /\ Runs(c) /\ pc[c] \notin Half
      /\ \A d \in Context : d # c => pc[d] \notin Window
  BY <1>1, NobodyLinks DEF At, Half
<1>3. /\ pc'[c] = "hook" /\ \A d \in Context : d # c => pc'[d] = pc[d]
      /\ \A d \in Context : InList(d)' = InList(d)
  BY <1>1, <1>2, OthersHave DEF Undone
<1>4. PICK n \in Nat : \E g \in [0 .. n + 1 -> Node], b \in [Node -> Node] :
              /\ Chain(n, g, b)
              /\ \A i \in 1 .. n : g[i] \notin inPool
              /\ \A x \in Node : b[x] = list.back[x] \/ (pc[c] \in Half /\ x = list.fwd[arg[c]])
  BY <1>2, ListIs
<1>5. PICK g \in [0 .. n + 1 -> Node], b \in [Node -> Node] :
              Chain(n, g, b) /\ \A x \in Node : b[x] = list.back[x]
  BY <1>2, <1>4
<1>6. /\ m \in Mapping /\ m \in Node /\ m # ListHead /\ ListHead \in Node
      /\ \A i \in 0 .. n + 1 : g[i] # m
      /\ list.fwd[ListHead] = g[1] /\ 1 \in 0 .. n + 1
  BY <1>2, <1>5, NewEntry
<1>7. /\ list'.fwd = list.fwd /\ list'.back[list.fwd[m]] = m
      /\ \A x \in Node : x # list.fwd[m] => list'.back[x] = list.back[x]
  BY <1>1, <1>6 DEF TypeOK
<1>8. /\ list'.fwd[m] = list'.fwd[ListHead] /\ list'.back[m] = ListHead
      /\ list'.back[list'.fwd[m]] = m /\ arg'[c] = m
  <2>1. list.fwd[m] = list.fwd[ListHead] /\ list.back[m] = ListHead
    BY <1>2 DEF ListInv
  <2>2. list.fwd[m] # m
    BY <1>6, <2>1
  <2>3. QED
    BY <1>1, <1>6, <1>7, <2>1, <2>2
<1> HIDE DEF m
<1>9. Chain(n, g, b)'
  <2>1. \A x \in Mapping : (\E i \in 1 .. n : g[i] = x) <=> \E d \in Context : x \in InList(d)'
    BY <1>3, <1>5 DEF Chain
  <2>2. pc'[c] \in Half
    BY <1>3 DEF Half
  <2>3. \A x \in Node : b[x] = list'.back[x] \/ x = list'.fwd[arg'[c]]
    BY <1>5, <1>7, <1>8
  <2>4. Ring(list'.fwd, b, n, g)
    BY <1>5, <1>7 DEF Chain
  <2>5. QED
    BY <2>1, <2>2, <2>3, <2>4 DEF Chain
<1>10. IsChain'
  BY <1>9 DEF IsChain
<1>11. \A d \in Context : d # c => pc'[d] \notin {"link", "hook", "unhook"}
  BY <1>2, <1>3 DEF Window
<1>12. QED
  BY <1>3, <1>8, <1>10, <1>11 DEF ListInv

LEMMA MapReturnList ==
    ASSUME TypeOK, MemInv, ListInv, AloneInv, NEW c \in Context, MapReturn(c)
    PROVE  ListInv'
<1> DEFINE m == arg[c]
<1>1. /\ At(c, "hook") /\ pc' = [pc EXCEPT ![c] = "idle"] /\ arg' = [arg EXCEPT ![c] = NoPage]
      /\ held' = [held EXCEPT ![c] = @ \cup {m}]
      /\ list' = [list EXCEPT !.fwd = [@ EXCEPT ![ListHead] = m]]
  BY DEF MapReturn, Return, Goto, InsertForward
<1>2. /\ pc[c] = "hook" /\ Runs(c) /\ \A d \in Context : d # c => pc[d] \notin Window
  BY <1>1, NobodyLinks DEF At
<1>3. /\ pc'[c] = "idle" /\ held'[c] = held[c] \cup {m}
      /\ \A d \in Context : d # c => pc'[d] = pc[d] /\ arg'[d] = arg[d] /\ held'[d] = held[d]
  BY <1>1 DEF TypeOK
<1>4. /\ \A d \in Context : d # c => InList(d)' = InList(d)
      /\ InList(c) = held[c] /\ InList(c)' = held[c] \cup {m}
  <2>1. \A d \in Context : d # c => \A L : Has(d, L)' = Has(d, L)
    BY <1>3, SameHas, Zenon
  <2>2. pc[c] = "hook" /\ "hook" \notin Undone /\ "idle" \notin Undone
    BY <1>2 DEF Undone
  <2>3. Has(c, Undone) = held[c] /\ Has(c, Undone)' = held[c] \cup {m}
    BY <1>3, <2>2, NowHas, ThenHas
  <2>4. QED
    BY <2>1, <2>3 DEF InList
<1>5. PICK n \in Nat : \E g \in [0 .. n + 1 -> Node], b \in [Node -> Node] :
              /\ Chain(n, g, b)
              /\ \A i \in 1 .. n : g[i] \notin inPool
              /\ \A x \in Node : b[x] = list.back[x] \/ (pc[c] \in Half /\ x = list.fwd[arg[c]])
  BY <1>2, ListIs
<1>6. PICK g \in [0 .. n + 1 -> Node], b \in [Node -> Node] :
              Chain(n, g, b) /\ \A x \in Node : b[x] = list.back[x] \/ x = list.fwd[m]
  BY <1>5
<1>7. /\ m \in Mapping /\ m \in Node /\ m # ListHead /\ ListHead \in Node
      /\ \A i \in 0 .. n + 1 : g[i] # m
      /\ list.fwd[ListHead] = g[1] /\ 1 \in 0 .. n + 1
  BY <1>2, <1>6, NewEntry
<1>8. /\ list.fwd \in [Node -> Node] /\ list.back \in [Node -> Node]
      /\ list'.fwd = [list.fwd EXCEPT ![ListHead] = m] /\ list'.back = list.back
  BY <1>1 DEF TypeOK
<1>9. /\ list.fwd[m] = list.fwd[ListHead] /\ list.back[m] = ListHead
      /\ list.back[list.fwd[m]] = m /\ list.fwd[m] # m /\ b[m] = ListHead
  <2>1. /\ list.fwd[m] = list.fwd[ListHead] /\ list.back[m] = ListHead
        /\ list.back[list.fwd[m]] = m
    BY <1>2 DEF ListInv
  <2>2. list.fwd[m] # m
    BY <1>7, <2>1
  <2>3. QED
    BY <1>6, <1>7, <2>1, <2>2
<1> HIDE DEF m
<1>10. Ring(list.fwd, b, n, g) /\ \A i \in 1 .. n : g[i] # m
  BY <1>6, <1>7 DEF Chain
<1>11. LinksIn(list'.fwd, list'.back, list.fwd, b, m)
  BY <1>6, <1>7, <1>8, <1>9 DEF LinksIn
<1>12. Inserted(list'.fwd, list'.back, n, g, m)
  BY <1>7, <1>8, <1>9, <1>10, <1>11, RingInsert
<1>13. PICK k \in Nat : \E h \in [0 .. k + 1 -> Node] :
          /\ Ring(list'.fwd, list'.back, k, h)
          /\ \A x : (\E i \in 1 .. k : h[i] = x) <=> x = m \/ \E i \in 1 .. n : g[i] = x
  BY <1>12 DEF Inserted
<1>14. PICK h \in [0 .. k + 1 -> Node] :
          /\ Ring(list'.fwd, list'.back, k, h)
          /\ \A x : (\E i \in 1 .. k : h[i] = x) <=> x = m \/ \E i \in 1 .. n : g[i] = x
  BY <1>13
<1>15. \A x \in Mapping : (\E i \in 1 .. k : h[i] = x) <=> \E d \in Context : x \in InList(d)'
  <2>1. \A x \in Mapping : (\E i \in 1 .. n : g[i] = x) <=> \E d \in Context : x \in InList(d)
    BY <1>6 DEF Chain
  <2>2. \A x : (\E d \in Context : x \in InList(d)') <=> x = m \/ \E d \in Context : x \in InList(d)
    BY <1>4
  <2>3. QED
    BY <1>14, <2>1, <2>2
<1>16. Chain(k, h, list.back)'
  BY <1>14, <1>15 DEF Chain
<1>17. IsChain'
  <2>1. list'.back \in [Node -> Node]
    BY <1>8
  <2>2. QED
    BY <1>16, <2>1 DEF IsChain
<1>18. \A d \in Context : pc'[d] \notin {"link", "hook", "unhook"}
  BY <1>2, <1>3 DEF Window
<1>19. QED
  BY <1>17, <1>18 DEF ListInv

LEMMA UnmapUnlinkList ==
    ASSUME TypeOK, MemInv, ListInv, AloneInv, NEW c \in Context, UnmapUnlink(c)
    PROVE  ListInv'
<1> DEFINE m == arg[c]
<1>1. /\ At(c, "unlink") /\ pc' = [pc EXCEPT ![c] = "unhook"] /\ arg' = arg /\ held' = held
      /\ list' = [list EXCEPT !.back = [@ EXCEPT ![list.fwd[m]] = list.back[m]]]
  BY DEF UnmapUnlink, Goto, RemoveBack
<1>2. /\ pc[c] = "unlink" /\ Runs(c) /\ pc[c] \notin Half /\ pc[c] \in Undone
      /\ \A d \in Context : d # c => pc[d] \notin Window
  BY <1>1, NobodyLinks DEF At, Half, Undone
<1>3. /\ pc'[c] = "unhook" /\ \A d \in Context : d # c => pc'[d] = pc[d]
      /\ \A d \in Context : InList(d)' = InList(d)
  BY <1>1, <1>2, OthersHave DEF Undone
<1>4. PICK n \in Nat : \E g \in [0 .. n + 1 -> Node], b \in [Node -> Node] :
              /\ Chain(n, g, b)
              /\ \A i \in 1 .. n : g[i] \notin inPool
              /\ \A x \in Node : b[x] = list.back[x] \/ (pc[c] \in Half /\ x = list.fwd[arg[c]])
  BY <1>2, ListIs
<1>5. PICK g \in [0 .. n + 1 -> Node], b \in [Node -> Node] :
              Chain(n, g, b) /\ \A x \in Node : b[x] = list.back[x]
  BY <1>2, <1>4
<1>6. m \in Node /\ list.fwd[m] \in Node /\ list.fwd[m] # m
  <2>1. PICK p \in 1 .. n :
              /\ arg[c] = g[p] /\ list.fwd[arg[c]] = g[p + 1] /\ b[arg[c]] = g[p - 1]
              /\ p - 1 \in 0 .. n + 1 /\ p + 1 \in 0 .. n + 1
              /\ g[p + 1] # arg[c] /\ g[p - 1] # arg[c]
    <3>1. Chain(n, g, b) /\ pc[c] \in Undone
      BY <1>2, <1>5
    <3>2. QED
      BY <3>1, EntryIs, ZenonT(60)
  <2>2. g[p] \in Node /\ g[p + 1] \in Node
    BY <2>1
  <2>3. QED
    BY <2>1, <2>2, Zenon
<1>7. /\ list'.fwd = list.fwd /\ list'.back[list.fwd[m]] = list.back[m]
      /\ \A x \in Node : x # list.fwd[m] => list'.back[x] = list.back[x]
  BY <1>1, <1>6 DEF TypeOK
<1>8. list'.back[list'.fwd[m]] = list'.back[m] /\ arg'[c] = m
  BY <1>1, <1>6, <1>7
<1> HIDE DEF m
<1>9. Chain(n, g, b)'
  <2>1. \A x \in Mapping : (\E i \in 1 .. n : g[i] = x) <=> \E d \in Context : x \in InList(d)'
    BY <1>3, <1>5 DEF Chain
  <2>2. pc'[c] \in Half
    BY <1>3 DEF Half
  <2>3. \A x \in Node : b[x] = list'.back[x] \/ x = list'.fwd[arg'[c]]
    BY <1>5, <1>7, <1>8
  <2>4. Ring(list'.fwd, b, n, g)
    BY <1>5, <1>7 DEF Chain
  <2>5. QED
    BY <2>1, <2>2, <2>3, <2>4 DEF Chain
<1>10. IsChain'
  BY <1>9 DEF IsChain
<1>11. \A d \in Context : d # c => pc'[d] \notin {"link", "hook", "unhook"}
  BY <1>2, <1>3 DEF Window
<1>12. QED
  BY <1>3, <1>8, <1>10, <1>11 DEF ListInv

LEMMA UnmapForgetSteps ==
    ASSUME TypeOK, NEW c \in Context, UnmapForget(c)
    PROVE  /\ Runs(c) /\ pc[c] = "unhook" /\ held' = held
           /\ list' = [fwd  |-> [list.fwd EXCEPT ![list.back[arg[c]]] = list.fwd[arg[c]],
                                                 ![arg[c]] = ListHead],
                       back |-> [list.back EXCEPT ![arg[c]] = ListHead]]
           /\ pc'[c] \in {"idle", "walk"}
           /\ \A d \in Context : d # c => pc'[d] = pc[d] /\ arg'[d] = arg[d]
<1>1. /\ At(c, "unhook") /\ RemoveForward(arg[c]) /\ held' = held
      /\ \/ Goto(c, "walk") /\ arg' = arg
         \/ Return(c)
  BY DEF UnmapForget
<1>2. /\ pc' = [pc EXCEPT ![c] = "walk"] \/ pc' = [pc EXCEPT ![c] = "idle"]
      /\ arg' = arg \/ arg' = [arg EXCEPT ![c] = NoPage]
  BY <1>1 DEF Return, Goto
<1>3. /\ pc'[c] \in {"idle", "walk"}
      /\ \A d \in Context : d # c => pc'[d] = pc[d] /\ arg'[d] = arg[d]
  BY <1>2 DEF TypeOK
<1>4. QED
  BY <1>1, <1>3 DEF RemoveForward, At

LEMMA UnmapForgetList ==
    ASSUME TypeOK, MemInv, ListInv, AloneInv, NEW c \in Context, UnmapForget(c)
    PROVE  ListInv'
<1> DEFINE m == arg[c]
<1>1. /\ Runs(c) /\ pc[c] = "unhook" /\ held' = held
      /\ list' = [fwd  |-> [list.fwd EXCEPT ![list.back[m]] = list.fwd[m], ![m] = ListHead],
                  back |-> [list.back EXCEPT ![m] = ListHead]]
      /\ pc'[c] \in {"idle", "walk"}
      /\ \A d \in Context : d # c => pc'[d] = pc[d] /\ arg'[d] = arg[d]
  BY UnmapForgetSteps
<1>2. /\ pc[c] \in Undone /\ \A d \in Context : d # c => pc[d] \notin Window
  BY <1>1, NobodyLinks DEF Undone
<1>3. /\ \A d \in Context : d # c => InList(d)' = InList(d)
      /\ InList(c) = held[c] \cup {m} /\ InList(c)' = held[c]
  <2>1. \A d \in Context : d # c => \A L : Has(d, L)' = Has(d, L)
    BY <1>1, SameHas, Zenon
  <2>2. pc'[c] \notin Undone
    BY <1>1 DEF Undone
  <2>3. Has(c, Undone) = held[c] \cup {m} /\ Has(c, Undone)' = held[c]
    BY <1>1, <1>2, <2>2, NowHas, ThenHas
  <2>4. QED
    BY <2>1, <2>3 DEF InList
<1>4. \A d \in Context : m \notin InList(d)'
  <2>1. \A d \in Context : InList(d) \subseteq Live(d)
    BY SetFacts DEF MemInv
  <2>2. /\ \A d \in Context : m \notin held[d]
        /\ \A d \in Context : d # c => m \notin Live(d)
    BY <1>1, AtWorkFacts DEF MemInv, Working
  <2>3. QED
    BY <1>3, <2>1, <2>2
<1>5. PICK n \in Nat : \E g \in [0 .. n + 1 -> Node], b \in [Node -> Node] :
              /\ Chain(n, g, b)
              /\ \A i \in 1 .. n : g[i] \notin inPool
              /\ \A x \in Node : b[x] = list.back[x] \/ (pc[c] \in Half /\ x = list.fwd[arg[c]])
  BY <1>2, ListIs
<1>6. PICK g \in [0 .. n + 1 -> Node], b \in [Node -> Node] :
              Chain(n, g, b) /\ \A x \in Node : b[x] = list.back[x] \/ x = list.fwd[m]
  BY <1>5
<1>7. PICK p \in 1 .. n :
              /\ m = g[p] /\ list.fwd[m] = g[p + 1] /\ b[m] = g[p - 1]
              /\ p - 1 \in 0 .. n + 1 /\ p + 1 \in 0 .. n + 1
              /\ g[p + 1] # m /\ g[p - 1] # m
  BY <1>2, <1>6, EntryIs
<1>8. list.fwd \in [Node -> Node] /\ list.back \in [Node -> Node] /\ Ring(list.fwd, b, n, g)
  BY <1>6 DEF TypeOK, Chain
<1>9. /\ m \in Node /\ list.fwd[m] \in Node /\ list.fwd[m] # m /\ b[m] \in Node /\ b[m] # m
      /\ b[m] = list.back[m] /\ list.back[list.fwd[m]] = b[m]
  <2>1. m \in Node /\ list.fwd[m] # m /\ b[m] # m
    BY <1>7
  <2>2. b[m] = list.back[m]
    BY <1>6, <2>1
  <2>3. list.back[list.fwd[m]] = list.back[m]
    BY <1>1 DEF ListInv
  <2>4. QED
    BY <1>8, <2>1, <2>2, <2>3
<1>10. /\ list'.fwd[b[m]] = list.fwd[m]
       /\ \A x \in Node : x # b[m] /\ x # m => list'.fwd[x] = list.fwd[x]
       /\ \A x \in Node : x # m => list'.back[x] = list.back[x]
       /\ list'.back \in [Node -> Node]
  <2>1. ListHead \in Node
    BY DEF Node
  <2>2. QED
    BY <1>1, <1>8, <1>9, <2>1
<1> HIDE DEF m
<1>11. LinksOut(list'.fwd, list'.back, list.fwd, b, m)
  BY <1>6, <1>9, <1>10 DEF LinksOut
<1>12. Removed(list'.fwd, list'.back, n, g, m)
  BY <1>7, <1>8, <1>11, RingRemove
<1>13. PICK k \in Nat : \E h \in [0 .. k + 1 -> Node] :
          /\ Ring(list'.fwd, list'.back, k, h)
          /\ \A x : (\E i \in 1 .. k : h[i] = x) <=> x # m /\ \E i \in 1 .. n : g[i] = x
  BY <1>12 DEF Removed
<1>14. PICK h \in [0 .. k + 1 -> Node] :
          /\ Ring(list'.fwd, list'.back, k, h)
          /\ \A x : (\E i \in 1 .. k : h[i] = x) <=> x # m /\ \E i \in 1 .. n : g[i] = x
  BY <1>13
<1>15. \A x \in Mapping : (\E i \in 1 .. k : h[i] = x) <=> \E d \in Context : x \in InList(d)'
  <2>1. \A x \in Mapping : (\E i \in 1 .. n : g[i] = x) <=> \E d \in Context : x \in InList(d)
    BY <1>6 DEF Chain
  <2>2. \A x : (\E d \in Context : x \in InList(d)') <=> x # m /\ \E d \in Context : x \in InList(d)
    BY <1>3, <1>4
  <2>3. QED
    BY <1>14, <2>1, <2>2
<1>16. Chain(k, h, list.back)'
  BY <1>14, <1>15 DEF Chain
<1>17. IsChain'
  BY <1>10, <1>16 DEF IsChain
<1>18. \A d \in Context : pc'[d] \notin {"link", "hook", "unhook"}
  BY <1>1, <1>2 DEF Window
<1>19. QED
  BY <1>17, <1>18 DEF ListInv

LEMMA UnmapStartList ==
    ASSUME TypeOK, MemInv, ListInv, NEW c \in Context, NEW e \in Context,
           NEW m \in held[e], UnmapStart(c, m), pc[c] \in {"idle", "walk"}
    PROVE  ListInv'
<1>1. /\ pc' = [pc EXCEPT ![c] = "encrypt"] /\ arg' = [arg EXCEPT ![c] = m]
      /\ held' = [d \in Context |-> held[d] \ {m}] /\ list' = list
  <2>1. /\ arg' = [arg EXCEPT ![c] = m]
        /\ held' = [d \in Context |-> held[d] \ {m}]
        /\ Goto(c, "encrypt")
        /\ UNCHANGED <<use, shared, stashOf, buffers, info, inPool, list, exitVars>>
    BY Zenon DEF UnmapStart
  <2>2. QED
    BY <2>1 DEF Goto
<1>2. /\ pc'[c] = "encrypt" /\ arg'[c] = m
      /\ \A d \in Context : d # c => pc'[d] = pc[d] /\ arg'[d] = arg[d]
      /\ \A d \in Context : held'[d] = held[d] \ {m}
  BY <1>1 DEF TypeOK
<1>3. \A d \in Context : pc[d] \in Working => arg[d] # m
  BY AtWorkFacts DEF MemInv
<1>4. InList(c)' = InList(c) \cup {m} /\ InList(c) = held[c]
  <2>1. Has(c, Undone)' = held'[c] \cup {m}
    BY <1>2, ThenHas DEF Undone
  <2>2. Has(c, Undone) = held[c]
    BY NowHas DEF Undone
  <2>3. QED
    BY <1>2, <2>1, <2>2 DEF InList
<1>5. ASSUME NEW d \in Context, d # c PROVE InList(d)' = InList(d) \ {m}
  <2>1. CASE pc[d] \in Undone
    <3>1. arg[d] # m
      BY <1>3, <2>1 DEF Undone, Working
    <3>2. Has(d, Undone) = held[d] \cup {arg[d]} /\ Has(d, Undone)' = held'[d] \cup {arg[d]}
      BY <1>2, <1>5, <2>1, NowHas, ThenHas
    <3>3. QED
      BY <1>2, <3>1, <3>2 DEF InList
  <2>2. CASE pc[d] \notin Undone
    <3>1. Has(d, Undone) = held[d] /\ Has(d, Undone)' = held'[d]
      BY <1>2, <1>5, <2>2, NowHas, ThenHas
    <3>2. QED
      BY <1>2, <3>1 DEF InList
  <2>3. QED
    BY <2>1, <2>2
<1>6. m \in InList(e)
  BY SetFacts DEF MemInv
<1>7. \A x \in Mapping : (\E d \in Context : x \in InList(d)')
                         <=> (\E d \in Context : x \in InList(d))
  BY <1>4, <1>5, <1>6
<1>8. pc'[c] \notin Window /\ pc[c] \notin Half
  BY <1>2 DEF Window, Half
<1>9. QED
  BY <1>1, <1>2, <1>7, <1>8, ListFrame

LEMMA ListPreserved ==
    ASSUME TypeOK, PcInv, MemInv, ListInv, AloneInv, WalkInv, [Next]_vars
    PROVE  ListInv'
<1>0. "main" \in Context
  BY DEF Context
<1>1. ASSUME AllocateBufferStash \/ AllocateBufferPages \/ AllocateBufferFails PROVE ListInv'
  <2>1. /\ list' = list /\ held' = held /\ pc["main"] \notin Undone
        /\ pc'["main"] \notin Undone /\ pc'["main"] \notin Window /\ pc["main"] \notin Window
        /\ \A d \in Context : d # "main" => pc'[d] = pc[d] /\ arg'[d] = arg[d]
    BY <1>0, <1>1 DEF AllocateBufferStash, AllocateBufferPages, AllocateBufferFails, Calls, At,
                      Return, Goto, mapVars, TypeOK, Undone, Window
  <2>2. QED
    BY <1>0, <2>1, ListStays
<1>2. ASSUME NEW c \in Context,
             \/ \E kind \in Kind, h \in Page : MapInfo(c, kind, h)
             \/ MapBounce(c) \/ MapCommon(c) \/ MapFails(c) \/ MapClear(c) \/ UnmapEncrypt(c)
             \/ UnmapRestore(c)
      PROVE  ListInv'
  <2>1. /\ list' = list /\ held' = held /\ pc'[c] \notin Window /\ pc[c] \notin Window
        /\ \/ pc[c] \notin Undone /\ pc'[c] \notin Undone
           \/ pc[c] \in Undone /\ pc'[c] \in Undone /\ arg'[c] = arg[c]
        /\ \A d \in Context : d # c => pc'[d] = pc[d] /\ arg'[d] = arg[d]
    <3>1. CASE \E kind \in Kind, h \in Page : MapInfo(c, kind, h)
      BY <3>1 DEF MapInfo, Calls, Goto, TypeOK, Undone, Window
    <3>2. CASE MapBounce(c)
      BY <3>2 DEF MapBounce, At, Goto, TypeOK, Undone, Window
    <3>3. CASE MapCommon(c)
      BY <3>3 DEF MapCommon, At, Goto, TypeOK, Undone, Window
    <3>4. CASE MapFails(c)
      BY <3>4 DEF MapFails, At, Return, Goto, TypeOK, Undone, Window
    <3>5. CASE MapClear(c)
      BY <3>5 DEF MapClear, At, Goto, TypeOK, Undone, Window, mapVars
    <3>6. CASE UnmapEncrypt(c)
      BY <3>6 DEF UnmapEncrypt, At, Goto, TypeOK, Undone, Window, mapVars
    <3>7. CASE UnmapRestore(c)
      <4>1. /\ At(c, "restore") /\ Goto(c, "unlink")
            /\ UNCHANGED <<shared, stashOf, buffers, mapVars, arg, node, raced, lost, exitVars>>
        BY <3>7, Zenon DEF UnmapRestore
      <4>2. QED
        BY <4>1 DEF At, Goto, TypeOK, Undone, Window, mapVars
    <3>8. QED
      BY <1>2, <3>1, <3>2, <3>3, <3>4, <3>5, <3>6, <3>7
  <2>2. QED
    BY <2>1, ListStays
<1>3. ASSUME list' = list, held' = held, pc' = pc, arg' = arg PROVE ListInv'
  <2>1. \A d \in Context : InList(d)' = InList(d)
    BY <1>3 DEF InList, Has
  <2>2. QED
    BY <1>3, <2>1, ListFrame
<1>4. ASSUME NEW c \in Context, Protocol(c) PROVE ListInv'
  <2>1. CASE MapCopy(c) \/ MapLink(c) \/ MapReturn(c)
    BY <2>1, MapCopyList, MapLinkList, MapReturnList
  <2>2. CASE UnmapUnlink(c) \/ UnmapForget(c)
    BY <2>2, UnmapUnlinkList, UnmapForgetList
  <2>3. CASE Unmap(c)
    <3>1. pc[c] = "idle" /\ \E m \in held[c] : UnmapStart(c, m)
      BY <2>3, Zenon DEF Unmap, Calls
    <3>2. QED
      BY <3>1, UnmapStartList
  <2>4. CASE Dangles(c)
    BY <1>3, <2>4 DEF Dangles, mapVars
  <2>5. QED
    BY <1>2, <1>4, <2>1, <2>2, <2>3, <2>4 DEF Protocol
<1>5. CASE UnmapAllNode
  <2>1. pc["main"] = "walk" /\ node # ListHead /\ UnmapStart("main", node)
    BY <1>5, Zenon DEF UnmapAllNode, At
  <2>2. PICK e \in Context : node \in held[e]
    BY <2>1, WalkNode
  <2>3. QED
    BY <1>0, <2>1, <2>2, UnmapStartList
<1>6. CASE IoMmuUnmapAllMappings \/ UnmapAllDone
  <2>1. /\ list' = list /\ held' = held /\ pc["main"] \notin Undone
        /\ pc'["main"] \notin Undone /\ pc'["main"] \notin Window /\ pc["main"] \notin Window
        /\ \A d \in Context : d # "main" => pc'[d] = pc[d] /\ arg'[d] = arg[d]
    BY <1>0, <1>6 DEF IoMmuUnmapAllMappings, UnmapAllDone, Dispatch, At, Return, Goto,
                      mapVars, TypeOK, Undone, Window
  <2>2. QED
    BY <1>0, <2>1, ListStays
<1>7. CASE \/ ExitBootServices \/ IoMmuExitBoot \/ ExitReturns \/ UNCHANGED vars
           \/ \E b \in Page : FreeBuffer(b)
           \/ \E c \in Context : HaltDevice(c)
           \/ \E c \in Context, h \in Page, d \in Data : DriverWrite(c, h, d)
           \/ \E c \in Context, m \in Mapping, d \in Data : DeviceWrite(c, m, d)
  <2>1. list' = list /\ held' = held /\ pc' = pc /\ arg' = arg
    BY <1>7 DEF ExitBootServices, IoMmuExitBoot, ExitReturns, vars, FreeBuffer, HaltDevice,
                DriverWrite, DeviceWrite, mapVars, ctlVars
  <2>2. QED
    BY <1>3, <2>1
<1>8. QED
  BY <1>1, <1>4, <1>5, <1>6, <1>7 DEF Next, Exit

(* A notification that calls the protocol inside a list operation of main  *)
(* has raced, for ever.                                                    *)
LEMMA RacedStays ==
    ASSUME [Next]_vars, raced
    PROVE  raced'
<1>1. ASSUME NEW c \in Context, Protocol(c) PROVE raced'
  <2>1. CASE MapCopy(c) \/ UnmapRestore(c)
    <3>1. raced' = raced
      BY <2>1, Zenon DEF MapCopy, UnmapRestore
    <3>2. QED
      BY <3>1
  <2>2. CASE Unmap(c)
    <3>1. Touches(c)
      BY <2>2, Zenon DEF Unmap
    <3>2. QED
      BY <3>1 DEF Touches
  <2>3. CASE \E kind \in Kind, h \in Page : MapInfo(c, kind, h)
    BY <2>3 DEF MapInfo, Touches
  <2>4. CASE \/ MapBounce(c) \/ MapCommon(c) \/ MapFails(c) \/ MapClear(c) \/ MapLink(c)
             \/ MapReturn(c) \/ UnmapEncrypt(c) \/ UnmapUnlink(c) \/ UnmapForget(c) \/ Dangles(c)
    BY <2>4 DEF MapBounce, MapCommon, MapFails, MapClear, MapLink, MapReturn, UnmapEncrypt,
                UnmapUnlink, UnmapForget, Dangles
  <2>5. QED
    BY <1>1, <2>1, <2>2, <2>3, <2>4 DEF Protocol
<1>2. CASE UnmapAllNode
  <2>1. raced' = raced
    BY <1>2, Zenon DEF UnmapAllNode
  <2>2. QED
    BY <2>1
<1>3. CASE \/ AllocateBufferStash \/ AllocateBufferPages \/ AllocateBufferFails
           \/ ExitBootServices \/ IoMmuExitBoot \/ IoMmuUnmapAllMappings
           \/ UnmapAllDone \/ ExitReturns \/ UNCHANGED vars
           \/ \E b \in Page : FreeBuffer(b)
           \/ \E c \in Context : HaltDevice(c)
           \/ \E c \in Context, h \in Page, d \in Data : DriverWrite(c, h, d)
           \/ \E c \in Context, m \in Mapping, d \in Data : DeviceWrite(c, m, d)
  BY <1>3 DEF AllocateBufferStash, AllocateBufferPages, AllocateBufferFails, ExitBootServices,
              IoMmuExitBoot, IoMmuUnmapAllMappings, UnmapAllDone, ExitReturns, vars, FreeBuffer,
              HaltDevice, DriverWrite, DeviceWrite, ctlVars
<1>4. QED
  BY <1>1, <1>2, <1>3 DEF Next, Exit

LEMMA AlonePreserved ==
    ASSUME TypeOK, AloneInv, [Next]_vars, ~raced'
    PROVE  AloneInv'
<1>0. "main" \in Context /\ "timer" \in Context
  BY DEF Context
<1>1. ASSUME pc["timer"] = "idle", NEW l, Goto("main", l) PROVE AloneInv'
  BY <1>0, <1>1 DEF AloneInv, Goto, TypeOK
<1>2. ASSUME pc["main"] \notin Window, NEW l, Goto("timer", l) PROVE AloneInv'
  BY <1>0, <1>2 DEF AloneInv, Goto, TypeOK
<1>3. ASSUME pc' = pc PROVE AloneInv'
  BY <1>3 DEF AloneInv
<1>4. ASSUME NEW c \in Context, Protocol(c) PROVE AloneInv'
  <2>1. CASE Dangles(c)
    BY <1>3, <2>1 DEF Dangles
  <2>2. CASE ~Dangles(c)
    <3>1. Runs(c) /\ \E l : Goto(c, l)
      <4>1. CASE MapCopy(c) \/ UnmapRestore(c) \/ Unmap(c)
        BY <4>1, Zenon DEF MapCopy, UnmapRestore, Unmap, UnmapStart, Calls, At
      <4>2. CASE \/ \E kind \in Kind, h \in Page : MapInfo(c, kind, h)
                 \/ MapBounce(c) \/ MapCommon(c) \/ MapFails(c) \/ MapClear(c) \/ MapLink(c)
                 \/ MapReturn(c) \/ UnmapEncrypt(c) \/ UnmapUnlink(c) \/ UnmapForget(c)
        BY <4>2 DEF MapInfo, MapBounce, MapCommon, MapFails, MapClear, MapLink, MapReturn,
                    UnmapEncrypt, UnmapUnlink, UnmapForget, Return, Calls, At
      <4>3. QED
        BY <1>4, <2>2, <4>1, <4>2 DEF Protocol
    <3>2. CASE c = "main"
      BY <1>1, <3>1, <3>2 DEF Runs
    <3>3. CASE c = "timer"
      <4>1. CASE pc["timer"] # "idle"
        BY <1>2, <3>1, <3>3, <4>1 DEF AloneInv
      <4>2. CASE pc["timer"] = "idle"
        <5>1. Touches(c)
          <6>1. CASE MapCopy(c) \/ UnmapRestore(c)
            <7>1. At(c, "copy") \/ At(c, "restore")
              BY <6>1, Zenon DEF MapCopy, UnmapRestore
            <7>2. QED
              BY <3>3, <4>2, <7>1 DEF At
          <6>2. CASE \/ MapBounce(c) \/ MapCommon(c) \/ MapFails(c) \/ MapClear(c) \/ MapLink(c)
                     \/ MapReturn(c) \/ UnmapEncrypt(c) \/ UnmapUnlink(c) \/ UnmapForget(c)
            BY <3>3, <4>2, <6>2 DEF MapBounce, MapCommon, MapFails, MapClear, MapLink,
                    MapReturn, UnmapEncrypt, UnmapUnlink, UnmapForget, At
          <6>3. CASE (\E kind \in Kind, h \in Page : MapInfo(c, kind, h)) \/ Unmap(c)
            BY <6>3, Zenon DEF MapInfo, Unmap
          <6>4. QED
            BY <1>4, <2>2, <6>1, <6>2, <6>3 DEF Protocol
        <5>2. pc["main"] \notin Window
          BY <3>3, <5>1 DEF Touches
        <5>3. QED
          BY <1>2, <3>1, <3>3, <5>2
      <4>3. QED
        BY <4>1, <4>2
    <3>4. QED
      BY <3>2, <3>3 DEF Context
  <2>3. QED
    BY <2>1, <2>2
<1>5. CASE AllocateBufferStash \/ AllocateBufferPages \/ AllocateBufferFails
  <2>1. Runs("main") /\ \E l : Goto("main", l)
    BY <1>5 DEF AllocateBufferStash, AllocateBufferPages, AllocateBufferFails, Calls, At, Return
  <2>2. QED
    BY <1>1, <2>1 DEF Runs
<1>6. CASE IoMmuUnmapAllMappings
  BY <1>0, <1>6 DEF IoMmuUnmapAllMappings, Goto, AloneInv, TypeOK, Window
<1>7. CASE UnmapAllNode \/ UnmapAllDone
  <2>1. Runs("main") /\ \E l : Goto("main", l)
    <3>1. CASE UnmapAllNode
      BY <3>1, Zenon DEF UnmapAllNode, UnmapStart, At
    <3>2. CASE UnmapAllDone
      BY <3>2 DEF UnmapAllDone, At, Return
    <3>3. QED
      BY <1>7, <3>1, <3>2
  <2>2. QED
    BY <1>1, <2>1 DEF Runs
<1>8. CASE \/ ExitBootServices \/ IoMmuExitBoot \/ ExitReturns \/ UNCHANGED vars
           \/ \E b \in Page : FreeBuffer(b)
           \/ \E c \in Context : HaltDevice(c)
           \/ \E c \in Context, h \in Page, d \in Data : DriverWrite(c, h, d)
           \/ \E c \in Context, m \in Mapping, d \in Data : DeviceWrite(c, m, d)
  <2>1. pc' = pc
    BY <1>8 DEF ExitBootServices, IoMmuExitBoot, ExitReturns, vars, FreeBuffer, HaltDevice,
                DriverWrite, DeviceWrite, ctlVars
  <2>2. QED
    BY <1>3, <2>1
<1>9. QED
  BY <1>4, <1>5, <1>6, <1>7, <1>8 DEF Next, Exit

(* A link that dangles is the mark of a race.                              *)
LEMMA LostPreserved ==
    ASSUME MapInv, [Next]_vars, lost'
    PROVE  raced'
<1>1. CASE lost
  BY <1>1, RacedStays DEF MapInv
<1>2. CASE ~lost
  <2>1. \E c \in Context : Dangles(c)
    <3>1. ASSUME NEW c \in Context, Protocol(c), ~Dangles(c) PROVE lost' = lost
      <4>1. CASE MapCopy(c) \/ UnmapRestore(c) \/ Unmap(c)
        BY <4>1, Zenon DEF MapCopy, UnmapRestore, Unmap
      <4>2. CASE \/ \E kind \in Kind, h \in Page : MapInfo(c, kind, h)
                 \/ MapBounce(c) \/ MapCommon(c) \/ MapFails(c) \/ MapClear(c) \/ MapLink(c)
                 \/ MapReturn(c) \/ UnmapEncrypt(c) \/ UnmapUnlink(c) \/ UnmapForget(c)
        BY <4>2 DEF MapInfo, MapBounce, MapCommon, MapFails, MapClear, MapLink, MapReturn,
                    UnmapEncrypt, UnmapUnlink, UnmapForget
      <4>3. QED
        BY <3>1, <4>1, <4>2 DEF Protocol
    <3>2. CASE UnmapAllNode
      <4>1. lost' = lost
        BY <3>2, Zenon DEF UnmapAllNode
      <4>2. QED
        BY <1>2, <4>1
    <3>3. CASE \/ AllocateBufferStash \/ AllocateBufferPages \/ AllocateBufferFails
               \/ ExitBootServices \/ IoMmuExitBoot \/ IoMmuUnmapAllMappings
               \/ UnmapAllDone \/ ExitReturns \/ UNCHANGED vars
               \/ \E b \in Page : FreeBuffer(b)
               \/ \E c \in Context : HaltDevice(c)
               \/ \E c \in Context, h \in Page, d \in Data : DriverWrite(c, h, d)
               \/ \E c \in Context, m \in Mapping, d \in Data : DeviceWrite(c, m, d)
      <4>1. lost' = lost
        BY <3>3 DEF AllocateBufferStash, AllocateBufferPages, AllocateBufferFails,
                    ExitBootServices, IoMmuExitBoot, IoMmuUnmapAllMappings, UnmapAllDone,
                    ExitReturns, vars, FreeBuffer, HaltDevice, DriverWrite, DeviceWrite, ctlVars
      <4>2. QED
        BY <1>2, <4>1
    <3>4. QED
      BY <1>2, <3>1, <3>2, <3>3 DEF Next, Exit
  <2>2. PICK c \in Context : Dangles(c)
    BY <2>1
  <2>3. Runs(c) /\ Dangling(c) /\ raced' = raced
    BY <2>2 DEF Dangles
  <2>4. ASSUME ~raced PROVE FALSE
    <3>1. TypeOK /\ PcInv /\ MemInv /\ ListInv /\ AloneInv /\ WalkInv
      BY <2>4 DEF MapInv, ExitInv
    <3>2. QED
      BY <2>3, <3>1, NoLinkDangles
  <2>5. QED
    BY <2>3, <2>4
<1>3. QED
  BY <1>1, <1>2

LEMMA InitList == Init => ListInv /\ AloneInv
<1> SUFFICES ASSUME Init PROVE ListInv /\ AloneInv
  OBVIOUS
<1>1. /\ list = [fwd |-> [n \in Node |-> ListHead], back |-> [n \in Node |-> ListHead]]
      /\ pc = [c \in Context |-> "idle"] /\ held = [c \in Context |-> {}]
  BY DEF Init
<1>2. \A c \in Context : InList(c) = {} /\ pc[c] = "idle"
  <2>1. \A c \in Context : pc[c] = "idle" /\ held[c] = {}
    BY <1>1
  <2>2. QED
    BY <2>1, NowHas DEF InList, Undone
<1> DEFINE g == [i \in 0 .. 0 + 1 |-> ListHead]
<1>3. g \in [0 .. 0 + 1 -> Node] /\ list.back \in [Node -> Node]
  BY <1>1 DEF Node
<1>4. Ring(list.fwd, list.back, 0, g)
  <2>1. g[0] = ListHead /\ g[0 + 1] = ListHead
    OBVIOUS
  <2>2. list.fwd[ListHead] = ListHead /\ list.back[ListHead] = ListHead
    BY <1>1 DEF Node
  <2>3. QED
    BY <2>1, <2>2 DEF Ring
<1>5. Chain(0, g, list.back)
  BY <1>2, <1>4 DEF Chain
<1> HIDE DEF g
<1>6. IsChain
  <2>1. 0 \in Nat
    OBVIOUS
  <2>2. QED
    BY <1>3, <1>5, <2>1, Zenon DEF IsChain
<1>7. AloneInv
  BY <1>2 DEF AloneInv, Context
<1>8. QED
  BY <1>2, <1>6, <1>7 DEF ListInv

-----------------------------------------------------------------------------
(* The end of the mappings.                                                *)

(* ExitBootServices queues the notification of IoMmuDxe.                   *)
LEMMA IoMmuIsQueued ==
    ASSUME ExitBootServices
    PROVE  \E i \in 1 .. Len(queue') : queue'[i] = "IoMmuExitBoot"
<1>1. PICK q \in [1 .. 3 -> Notifications] :
          (\A i, j \in 1 .. 3 : q[i] = q[j] => i = j) /\ queue' = q
  BY DEF ExitBootServices
<1>2. q \in Seq(Notifications) /\ Len(q) = 3
  <2>1. 3 \in Nat
    OBVIOUS
  <2>2. q \in Seq(Notifications)
    BY <2>1, SeqDef, Zenon
  <2>3. QED
    BY <2>2, LenProperties
<1>3. \A i \in 1 .. 3 : q[i] \in {"main", "timer", "IoMmuExitBoot"}
  BY DEF Notifications, Context
<1>4. q[1] # q[2] /\ q[1] # q[3] /\ q[2] # q[3]
  BY <1>1
<1>5. \E i \in 1 .. 3 : q[i] = "IoMmuExitBoot"
  BY <1>3, <1>4
<1>6. QED
  BY <1>1, <1>2, <1>5

LEMMA WalkPreserved ==
    ASSUME TypeOK, ExitInv, MemInv, ListInv, AloneInv, WalkInv, [Next]_vars
    PROVE  WalkInv'
<1>0. "main" \in Context /\ PcInv
  BY DEF Context, ExitInv
<1>1. CASE phase' = "boot"
  <2>1. pc'["main"] # "walk"
    BY <1>0, <1>1, PcPreserved DEF PcInv
  <2>2. QED
    BY <1>1, <2>1 DEF WalkInv
<1>2. CASE /\ phase' = phase /\ list' = list /\ held' = held /\ queue' = queue /\ node' = node
           /\ pc'["main"] = pc["main"] /\ arg'["main"] = arg["main"]
  BY <1>2 DEF WalkInv
<1>3. CASE UnmapAllNode
  <2>1. /\ pc["main"] = "walk" /\ node' = list.fwd[node]
        /\ UnmapStart("main", node)
    BY <1>3, Zenon DEF UnmapAllNode, At
  <2>2. /\ arg' = [arg EXCEPT !["main"] = node] /\ Goto("main", "encrypt")
        /\ UNCHANGED <<use, shared, stashOf, buffers, info, inPool, list, exitVars>>
    BY <2>1, Zenon DEF UnmapStart
  <2>3. pc'["main"] = "encrypt" /\ arg'["main"] = node /\ list' = list /\ phase' = phase
    BY <1>0, <2>2 DEF Goto, TypeOK, exitVars
  <2>4. phase = "exit" /\ node = list.fwd[ListHead]
    BY <2>1 DEF WalkInv
  <2>5. QED
    BY <2>1, <2>3, <2>4 DEF WalkInv
<1>4. ASSUME NEW c \in Context, UnmapEncrypt(c) \/ UnmapRestore(c) \/ UnmapUnlink(c),
             phase' # "boot"
      PROVE  WalkInv'
  <2>1. /\ At(c, "encrypt") \/ At(c, "restore") \/ At(c, "unlink")
        /\ Goto(c, "restore") \/ Goto(c, "unlink") \/ Goto(c, "unhook")
        /\ arg' = arg /\ node' = node /\ phase' = phase /\ list'.fwd = list.fwd
    <3>1. CASE UnmapEncrypt(c)
      BY <3>1 DEF UnmapEncrypt, mapVars, exitVars
    <3>2. CASE UnmapRestore(c)
      <4>1. /\ At(c, "restore") /\ Goto(c, "unlink")
            /\ UNCHANGED <<shared, stashOf, buffers, mapVars, arg, node, raced, lost, exitVars>>
        BY <3>2, Zenon DEF UnmapRestore
      <4>2. QED
        BY <4>1 DEF mapVars, exitVars
    <3>3. CASE UnmapUnlink(c)
      BY <3>3 DEF UnmapUnlink, RemoveBack, TypeOK, exitVars
    <3>4. QED
      BY <1>4, <3>1, <3>2, <3>3
  <2>2. c = "main" /\ pc["main"] \in Undone
    BY <1>4, <2>1 DEF At, Runs, Context, Undone
  <2>3. pc'["main"] \in Undone /\ pc'["main"] # "walk" /\ pc'["main"] # "idle"
    BY <1>0, <2>1, <2>2 DEF Goto, TypeOK, Undone
  <2>4. phase = "exit" /\ arg["main"] = list.fwd[ListHead] /\ node = list.fwd[arg["main"]]
    BY <1>4, <2>1, <2>2 DEF WalkInv
  <2>5. QED
    BY <2>1, <2>3, <2>4 DEF WalkInv
<1>5. ASSUME NEW c \in Context, UnmapForget(c), phase' # "boot" PROVE WalkInv'
  <2> DEFINE m == arg["main"]
  <2>1. /\ At(c, "unhook") /\ RemoveForward(arg[c])
        /\ IF MemoryMapLocked
           THEN Goto(c, "walk") /\ UNCHANGED <<info, inPool, arg>>
           ELSE /\ Return(c)
                /\ inPool' = inPool \cup {arg[c]}
                /\ info' = [info EXCEPT ![arg[c]] = NoInfo]
        /\ UNCHANGED <<memVars, held, node, raced, lost, exitVars>>
    BY <1>5, Zenon DEF UnmapForget
  <2>2. /\ phase' = phase /\ c = "main" /\ pc["main"] = "unhook" /\ Runs("main")
        /\ Goto("main", "walk") /\ node' = node
    BY <1>0, <1>5, <2>1 DEF At, Runs, Context, exitVars, MemoryMapLocked
  <2>3. pc'["main"] = "walk"
    BY <1>0, <2>2 DEF Goto, TypeOK
  <2>4. phase = "exit" /\ m = list.fwd[ListHead] /\ node = list.fwd[m]
    BY <1>5, <2>2 DEF WalkInv, Undone
  <2>5. m \in Mapping /\ m \in Node /\ m # ListHead /\ ListHead \in Node
    BY <1>0, <2>2, AtWorkFacts, IoMmuAssumption DEF MemInv, Working, Node
  <2>6. list.back[m] = ListHead
    <3>1. \A d \in Context : d # "main" => pc[d] \notin Window
      BY <1>0, <2>2, NobodyLinks
    <3>2. PICK n \in Nat : \E g \in [0 .. n + 1 -> Node], b \in [Node -> Node] :
              /\ Chain(n, g, b)
              /\ \A i \in 1 .. n : g[i] \notin inPool
              /\ \A x \in Node : \/ b[x] = list.back[x]
                                 \/ pc["main"] \in Half /\ x = list.fwd[arg["main"]]
      BY <1>0, <3>1, ListIs
    <3>3. PICK g \in [0 .. n + 1 -> Node], b \in [Node -> Node] :
              Chain(n, g, b) /\ \A x \in Node : b[x] = list.back[x] \/ x = list.fwd[m]
      BY <3>2
    <3>4. pc["main"] \in Undone
      BY <2>2 DEF Undone
    <3>5. PICK p \in 1 .. n : m = g[p] /\ list.fwd[m] = g[p + 1] /\ g[p + 1] # m
      BY SMTT(40), <1>0, <3>3, <3>4, EntryIs
    <3>6. g[0] = ListHead /\ list.fwd[g[0]] = g[0 + 1] /\ b[g[0 + 1]] = g[0]
      BY <3>3 DEF Chain, Ring
    <3>7. QED
      BY <2>4, <2>5, <3>3, <3>5, <3>6
  <2>7. list'.fwd[ListHead] = list.fwd[m]
    BY <2>1, <2>2, <2>5, <2>6 DEF RemoveForward, TypeOK
  <2>8. QED
    BY <2>2, <2>3, <2>4, <2>7 DEF WalkInv, Undone
<1>6. CASE UnmapAllDone
  <2>1. pc["main"] = "walk" /\ node = ListHead /\ held' = held /\ phase' = phase
    BY <1>6 DEF UnmapAllDone, At, mapVars, exitVars
  <2>2. pc'["main"] = "idle"
    BY <1>0, <1>6 DEF UnmapAllDone, Return, Goto, TypeOK
  <2>3. \A c \in Context : held[c] = {}
    BY <1>0, <2>1, WalkNode
  <2>4. QED
    BY <2>1, <2>2, <2>3 DEF WalkInv, Undone
<1>7. CASE IoMmuUnmapAllMappings
  <2>1. phase = "exit" /\ phase' = phase /\ list' = list /\ node' = list.fwd[ListHead]
    BY <1>7 DEF IoMmuUnmapAllMappings, Dispatch, mapVars
  <2>2. pc'["main"] = "walk"
    BY <1>0, <1>7 DEF IoMmuUnmapAllMappings, Goto, TypeOK
  <2>3. QED
    BY <2>1, <2>2 DEF WalkInv, Undone
<1>8. CASE ExitBootServices
  <2>1. phase' = "exit" /\ pc'["main"] = "idle"
    BY <1>8 DEF ExitBootServices, At, ctlVars
  <2>2. QED
    BY <1>8, <2>1, IoMmuIsQueued DEF WalkInv, Undone
<1>9. CASE ExitReturns
  <2>1. phase = "exit" /\ pc["main"] = "idle" /\ queue = <<>> /\ phase' = "os" /\ pc' = pc
        /\ held' = held
    BY <1>9 DEF ExitReturns, ctlVars, mapVars
  <2>2. \A c \in Context : held[c] = {}
    BY <2>1 DEF WalkInv
  <2>3. QED
    BY <2>1, <2>2 DEF WalkInv, Undone
<1>10. ASSUME NEW e, Dispatch(e)
       PROVE  /\ phase = "exit" /\ pc["main"] = "idle" /\ Len(queue) \in Nat
              /\ Len(queue) >= 1 /\ queue[1] = e
              /\ Len(Tail(queue)) = Len(queue) - 1
              /\ Tail(queue) \in Seq(Notifications \cup {UnmapAll})
              /\ \A i \in 1 .. Len(queue) - 1 : Tail(queue)[i] = queue[i + 1]
  <2>1. queue \in Seq(Notifications \cup {UnmapAll}) /\ queue # <<>> /\ Head(queue) = e
    BY <1>10 DEF TypeOK, Dispatch, UnmapAll
  <2>2. phase = "exit" /\ pc["main"] = "idle"
    BY <1>10 DEF Dispatch
  <2>3. QED
    BY <2>1, <2>2
<1>11. ASSUME NEW c \in Context, HaltDevice(c) PROVE WalkInv'
  <2>1. /\ Dispatch(c) /\ queue' = Tail(queue) /\ pc' = pc /\ held' = held /\ phase' = phase
    BY <1>11 DEF HaltDevice, ctlVars, mapVars
  <2>2. phase = "exit" /\ pc["main"] = "idle" /\ queue[1] = c
    BY <1>10, <2>1
  <2>3. CASE \A d \in Context : held[d] = {}
    BY <2>1, <2>2, <2>3 DEF WalkInv, Undone
  <2>4. CASE ~ \A d \in Context : held[d] = {}
    <3>1. PICK i \in 1 .. Len(queue) : queue[i] \in {"IoMmuExitBoot", UnmapAll}
      BY <2>2, <2>4 DEF WalkInv
    <3>2. c \notin {"IoMmuExitBoot", UnmapAll}
      BY DEF Context, UnmapAll
    <3>3. i # 1
      BY <2>2, <3>1, <3>2
    <3>4. i - 1 \in 1 .. Len(queue) - 1 /\ (i - 1) + 1 = i
      BY <1>10, <2>1, <3>3
    <3>5. i - 1 \in 1 .. Len(queue') /\ queue'[i - 1] \in {"IoMmuExitBoot", UnmapAll}
      BY <1>10, <2>1, <3>1, <3>4
    <3>6. QED
      BY <2>1, <2>2, <3>5 DEF WalkInv, Undone
  <2>5. QED
    BY <2>3, <2>4
<1>12. CASE IoMmuExitBoot
  <2>1. /\ Dispatch("IoMmuExitBoot") /\ queue' = Append(Tail(queue), UnmapAll) /\ pc' = pc
        /\ held' = held /\ phase' = phase
    BY <1>12 DEF IoMmuExitBoot, ctlVars, mapVars, UnmapAll
  <2>2. phase = "exit" /\ pc["main"] = "idle"
    BY <1>10, <2>1
  <2>3. Len(queue') = Len(queue) /\ queue'[Len(queue)] = UnmapAll /\ Len(queue) \in 1 .. Len(queue)
    BY <1>10, <2>1
  <2>4. QED
    BY <2>1, <2>2, <2>3 DEF WalkInv, Undone
<1>13. CASE \/ \E c \in Context, m \in Mapping, d \in Data : DeviceWrite(c, m, d)
            \/ \E c \in Context : Dangles(c)
            \/ UNCHANGED vars
  BY <1>2, <1>13 DEF DeviceWrite, Dangles, vars, mapVars, ctlVars, exitVars
<1>14. ASSUME phase' # "boot"
       PROVE  /\ ~ (AllocateBufferStash \/ AllocateBufferPages \/ AllocateBufferFails)
              /\ ~ \E b \in Page : FreeBuffer(b)
              /\ ~ \E c \in Context, h \in Page, d \in Data : DriverWrite(c, h, d)
              /\ \A c \in Context : Protocol(c) => UnmapGoesOn(c) \/ Dangles(c)
  <2>1. ~ (AllocateBufferStash \/ AllocateBufferPages \/ AllocateBufferFails)
    BY <1>0, <1>14, AllocateSteps
  <2>2. ~ \E b \in Page : FreeBuffer(b)
    BY <1>14 DEF FreeBuffer, Calls, exitVars
  <2>3. ~ \E c \in Context, h \in Page, d \in Data : DriverWrite(c, h, d)
    BY <1>14 DEF DriverWrite, Calls, exitVars
  <2>4. ASSUME NEW c \in Context, Protocol(c) PROVE UnmapGoesOn(c) \/ Dangles(c)
    BY <1>0, <1>14, <2>4, BootSteps DEF Protocol, UnmapGoesOn
  <2>5. QED
    BY <2>1, <2>2, <2>3, <2>4
<1>15. QED
  BY <1>1, <1>3, <1>4, <1>5, <1>6, <1>7, <1>8, <1>9, <1>11, <1>12, <1>13, <1>14
     DEF Next, Exit, UnmapGoesOn

LEMMA InitWalk == Init => WalkInv
  BY DEF Init, WalkInv, Context, Undone

-----------------------------------------------------------------------------
LEMMA InitMap == Init => MapInv
<1>1. Init => ~lost
  BY DEF Init
<1>2. QED
  BY <1>1, InitType, InitExit, InitMem, InitList, InitWalk DEF MapInv

LEMMA NextMap ==
    ASSUME MapInv, [Next]_vars
    PROVE  MapInv'
<1>1. TypeOK /\ ExitInv /\ PcInv /\ QueueInv /\ MemInv
  BY DEF MapInv, ExitInv
<1>2. TypeOK'
  BY <1>1, TypePreserved
<1>3. ExitInv'
  BY <1>1, PcPreserved, QueuePreserved DEF ExitInv
<1>4. MemInv'
  BY <1>1, MemPreserved
<1>5. ASSUME ~raced' PROVE ListInv' /\ AloneInv' /\ WalkInv'
  <2>1. ListInv /\ AloneInv /\ WalkInv
    BY <1>5, RacedStays DEF MapInv
  <2>2. ListInv'
    BY <1>1, <2>1, ListPreserved
  <2>3. AloneInv'
    BY <1>1, <1>5, <2>1, AlonePreserved
  <2>4. WalkInv'
    BY <1>1, <2>1, WalkPreserved
  <2>5. QED
    BY <2>2, <2>3, <2>4
<1>6. lost' => raced'
  BY LostPreserved
<1>7. QED
  BY <1>2, <1>3, <1>4, <1>5, <1>6 DEF MapInv

\* Every mapping has one owner and every page one use, at every step of Map, Unmap,
\* AllocateBuffer, FreeBuffer and the tear-down, however the two contexts interleave; and
\* mMapInfos is a well-formed list of the mappings in effect, between two stores of a list
\* operation too, until a notification calls Map or Unmap inside a list operation of main.
THEOREM MapInvariance == Spec => []MapInv
<1>1. MapInv /\ [Next]_vars => MapInv'
  BY NextMap
<1>2. QED
  BY <1>1, InitMap, PTL DEF Spec

\* No step writes outside memory, and every MAP_INFO field holds what it is meant to.
THEOREM IoMmuTypeCorrect == Spec => []TypeOK
<1>1. MapInv => TypeOK
  BY DEF MapInv
<1>2. QED
  BY <1>1, MapInvariance, PTL

(* The mappings in effect and those at work, of both contexts together.    *)
LEMMA BothHave ==
    ASSUME NEW L
    PROVE  \A m : m \in Held \cup AtWork(L) <=> \E c \in Context : m \in Has(c, L)
<1>1. \A m : m \in AtWork(L) <=> \E c \in Context : pc[c] \in L /\ m = arg[c]
  BY DEF AtWork
<1>2. \A m : m \in Held <=> \E c \in Context : m \in held[c]
  BY DEF Held, Context
<1>3. \A c \in Context : \A m : m \in Has(c, L) <=> m \in held[c] \/ (pc[c] \in L /\ m = arg[c])
  BY DEF Has
<1>4. QED
  BY <1>1, <1>2, <1>3

\* A page is shared exactly while a mapping needs it, and is then a bounce page or a common
\* buffer: Unmap and the tear-down give back every page that Map opened, and no other.
THEOREM OnlyMappedIsShared == Spec => []SharedIsMapped
<1>1. MapInv => SharedIsMapped
  <2> SUFFICES ASSUME MapInv PROVE SharedIsMapped
    OBVIOUS
  <2>1. TypeOK /\ PcInv /\ MemInv /\ (~raced => WalkInv)
    BY DEF MapInv, ExitInv
  <2>2. \A p : p \in shared <=> \E c \in Context : \E m \in Open(c) : info[m].plain = p
    BY <2>1 DEF MemInv, SharedInv
  <2>3. \A m : m \in Held \cup AtWork({"copy", "link", "hook", "encrypt"})
               <=> \E c \in Context : m \in Open(c)
    BY BothHave DEF Open, Opened
  <2>4. shared = {info[m].plain : m \in Held \cup AtWork({"copy", "link", "hook", "encrypt"})}
    <3>1. \A p : p \in shared <=>
                 \E m \in Held \cup AtWork({"copy", "link", "hook", "encrypt"}) : info[m].plain = p
      BY <2>2, <2>3
    <3>2. QED
      BY <3>1
  <2>5. ASSUME NEW p \in shared PROVE use[p] \in {"bounce", "common"}
    <3>1. PICK c \in Context : \E m \in Open(c) : info[m].plain = p
      BY <2>2
    <3>2. PICK m \in Open(c) : info[m].plain = p
      BY <3>1
    <3>3. m \in Plain(c)
      BY <2>1, SetFacts DEF MemInv
    <3>4. QED
      BY <2>1, <3>2, <3>3, PlainUse
  <2>6. phase = "os" /\ ~raced => shared = {}
    <3>1. ASSUME phase = "os", ~raced PROVE \A c \in Context : held[c] = {} /\ pc[c] = "idle"
      BY <2>1, <3>1 DEF WalkInv, PcInv, Context
    <3>2. ASSUME phase = "os", ~raced PROVE \A c \in Context : Open(c) = {}
      BY <3>1, <3>2, NowHas DEF Open, Opened
    <3>3. QED
      BY <2>2, <3>2
  <2>7. QED
    BY <2>4, <2>5, <2>6 DEF SharedIsMapped
<1>2. QED
  BY <1>1, MapInvariance, PTL

\* No page is lost: every stash belongs to a common buffer or to the AllocateBuffer that is
\* running, every header to a buffer, every bounce page to a mapping that will free it.
THEOREM NoPageIsLost == Spec => []PagesAccounted
<1>1. MapInv => PagesAccounted
  <2> SUFFICES ASSUME MapInv PROVE PagesAccounted
    OBVIOUS
  <2>1. TypeOK /\ MemInv /\ PageInv /\ BounceInv /\ OwnInv
    BY DEF MapInv, MemInv
  <2> DEFINE Given5 == {"clear", "copy", "link", "hook", "encrypt", "restore"}
             Bouncing == {m \in Held \cup AtWork(Given5) : info[m].kind # "Common"}
  <2>2. {p \in Page : use[p] = "stash"} = {stashOf[b] : b \in buffers} \cup AtWork({"allocate"})
    <3>1. \A p : p \in AtWork({"allocate"}) <=> pc["main"] = "allocate" /\ p = arg["main"]
      BY <2>1 DEF AtWork, Context, OwnInv
    <3>2. ASSUME NEW p \in Page, use[p] = "stash"
          PROVE  (\E b \in buffers : stashOf[b] = p) \/ p \in AtWork({"allocate"})
      BY <2>1, <3>1, <3>2 DEF PageInv
    <3>3. \A b \in buffers : stashOf[b] \in Page /\ use[stashOf[b]] = "stash"
      BY <2>1 DEF PageInv
    <3>4. \A p \in AtWork({"allocate"}) : p \in Page /\ use[p] = "stash"
      BY <2>1, <3>1 DEF PageInv
    <3>5. QED
      BY <3>2, <3>3, <3>4
  <2>3. {p \in Page : use[p] = "common"} = buffers
    BY <2>1, PageFacts DEF PageInv
  <2>4. {p \in Page : use[p] = "header"} = {b - 1 : b \in buffers}
    <3>1. \A p \in Page : use[p] = "header" => p + 1 \in buffers /\ p = (p + 1) - 1
      BY <2>1 DEF PageInv, Page
    <3>2. ASSUME NEW b \in buffers PROVE b - 1 \in Page /\ use[b - 1] = "header"
      <4>1. b - 1 \in Page /\ b \in Int
        BY <2>1, PageFacts DEF PageInv
      <4>2. (b - 1) + 1 = b
        BY <4>1
      <4>3. QED
        BY <2>1, <4>1, <4>2 DEF PageInv
    <3>3. QED
      BY <3>1, <3>2
  <2>5. ASSUME phase = "boot"
        PROVE  {p \in Page : use[p] = "bounce"} = {info[m].plain : m \in Bouncing}
    <3>1. \A m : m \in Held \cup AtWork(Given5) <=> \E c \in Context : m \in Plain(c)
      BY BothHave DEF Plain, Given
    <3>2. ASSUME NEW p \in Page, use[p] = "bounce" PROVE \E m \in Bouncing : info[m].plain = p
      <4>1. PICK c \in Context : \E m \in Plain(c) : info[m].kind # "Common" /\ info[m].plain = p
        BY <2>1, <2>5, <3>2 DEF BounceInv
      <4>2. PICK m \in Plain(c) : info[m].kind # "Common" /\ info[m].plain = p
        BY <4>1
      <4>3. m \in Bouncing
        BY <3>1, <4>2
      <4>4. QED
        BY <4>2, <4>3
    <3>3. ASSUME NEW m \in Bouncing
          PROVE  info[m].plain \in Page /\ use[info[m].plain] = "bounce"
      <4>1. PICK c \in Context : m \in Plain(c)
        BY <3>1
      <4>2. info[m].kind # "Common"
        OBVIOUS
      <4>3. QED
        BY <2>1, <4>1, <4>2 DEF MemInv, InfoInv
    <3> HIDE DEF Bouncing
    <3>4. QED
      BY <3>2, <3>3
  <2>6. QED
    BY <2>2, <2>3, <2>4, <2>5 DEF PagesAccounted
<1>2. QED
  BY <1>1, MapInvariance, PTL

\* What Map gave a device stays usable as long as the driver holds the mapping: the page is
\* shared, the device can address it, and no other mapping has it.
THEOREM MappingsStayValid == Spec => []DmaStaysValid
<1>1. MapInv => DmaStaysValid
  <2> SUFFICES ASSUME MapInv, NEW c \in Context, NEW m \in held[c]
               PROVE  /\ info[m].plain \in shared
                      /\ c \in Dac \/ info[m].plain < Top4G
                      /\ \A n \in Held \ {m} : info[n].plain # info[m].plain
    BY DEF DmaStaysValid
  <2>1. MemInv
    BY DEF MapInv
  <2>2. \A d \in Context : /\ held[d] \subseteq Open(d) /\ held[d] \subseteq Usable(d)
                           /\ Usable(d) \subseteq Plain(d)
    BY <2>1, SetFacts DEF MemInv
  <2>3. info[m].plain \in shared
    BY <2>1, <2>2 DEF MemInv, SharedInv
  <2>4. c \in Dac \/ info[m].plain < Top4G
    BY <2>1, <2>2 DEF MemInv, InfoInv
  <2>5. ASSUME NEW n \in Held, n # m PROVE info[n].plain # info[m].plain
    <3>1. PICK d \in Context : n \in held[d]
      BY DEF Held, Context
    <3>2. n \in Plain(d) /\ m \in Plain(c)
      BY <2>2, <3>1
    <3>3. QED
      BY <2>1, <2>5, <3>2 DEF MemInv, DistinctInv
  <2>6. QED
    BY <2>3, <2>4, <2>5
<1>2. QED
  BY <1>1, MapInvariance, PTL

-----------------------------------------------------------------------------
(* A set of numbers that is not empty has a least element.                 *)
LEMMA LeastNumber ==
    ASSUME NEW T \in SUBSET Nat, T # {}
    PROVE  \E x \in T : \A y \in T : ~ (y < x)
<1>1. \E x \in T : \A y \in T : ~ (<<y, x>> \in OpToRel(<, Nat))
  BY NatLessThanWellFounded, WFMin, T \subseteq Nat, Zenon
<1>2. \A x, y \in T : <<y, x>> \in OpToRel(<, Nat) <=> y < x
  BY DEF OpToRel
<1>3. QED
  BY <1>1, <1>2

(* What a walk of n steps from the head has met: the first entries of the  *)
(* list, and the head once it is round.                                    *)
LEMMA WalkMeets ==
    ASSUME NEW N \in Nat, NEW g \in [0 .. N + 1 -> Node], NEW back, Ring(list.fwd, back, N, g)
    PROVE  \A n \in Nat : n >= N => Walk[n] = {g[i] : i \in 1 .. N + 1}
<1> DEFINE Last(n) == IF n < N THEN n + 1 ELSE N + 1
           W == [n \in Nat |-> {g[i] : i \in 1 .. Last(n)}]
           Step(S) == S \cup {list.fwd[x] : x \in S \ {ListHead}}
<1>1. /\ g[0] = ListHead /\ g[N + 1] = ListHead
      /\ \A i \in 1 .. N : g[i] # ListHead
      /\ \A i \in 0 .. N : list.fwd[g[i]] = g[i + 1]
  BY IoMmuAssumption DEF Ring
<1>2. \A n \in Nat : Last(n) \in 1 .. N + 1
  OBVIOUS
<1>3. Last(0) = 1 /\ \A n \in Nat \ {0} : n - 1 \in Nat /\
         Last(n) = IF Last(n - 1) <= N THEN Last(n - 1) + 1 ELSE Last(n - 1)
  OBVIOUS
<1>4. \A n \in Nat : W[n] = {g[i] : i \in 1 .. Last(n)}
  OBVIOUS
<1> HIDE DEF Last, W
<1>5. W[0] = {list.fwd[ListHead]}
  <2>1. list.fwd[ListHead] = g[1]
    BY <1>1
  <2>2. W[0] = {g[i] : i \in 1 .. 1}
    BY <1>3, <1>4
  <2>3. QED
    BY <2>1, <2>2
<1>6. ASSUME NEW n \in Nat \ {0} PROVE W[n] = Step(W[n - 1])
  <2>1. PICK k \in 1 .. N + 1 : k = Last(n - 1)
    BY <1>2, <1>3
  <2>2. W[n - 1] = {g[i] : i \in 1 .. k}
    BY <1>3, <1>4, <2>1
  <2>3. CASE k <= N
    <3>1. W[n] = {g[i] : i \in 1 .. k + 1}
      BY <1>3, <1>4, <2>1, <2>3
    <3>2. {list.fwd[x] : x \in W[n - 1] \ {ListHead}} = {g[i + 1] : i \in 1 .. k}
      <4>1. \A i \in 1 .. k : g[i] # ListHead /\ list.fwd[g[i]] = g[i + 1]
        BY <1>1, <2>3
      <4>2. \A y : y \in {list.fwd[x] : x \in W[n - 1] \ {ListHead}}
                   <=> \E x \in W[n - 1] : x # ListHead /\ y = list.fwd[x]
        OBVIOUS
      <4>3. \A x : x \in W[n - 1] <=> \E i \in 1 .. k : x = g[i]
        BY <2>2
      <4>4. \A y : y \in {g[i + 1] : i \in 1 .. k} <=> \E i \in 1 .. k : y = g[i + 1]
        OBVIOUS
      <4>5. ASSUME NEW y
            PROVE  (\E x \in W[n - 1] : x # ListHead /\ y = list.fwd[x])
                   <=> \E i \in 1 .. k : y = g[i + 1]
        <5>1. ASSUME NEW x \in W[n - 1], y = list.fwd[x]
              PROVE  \E i \in 1 .. k : y = g[i + 1]
          <6>1. PICK i \in 1 .. k : x = g[i]
            BY <4>3, <5>1
          <6>2. QED
            BY <4>1, <5>1, <6>1
        <5>2. ASSUME NEW i \in 1 .. k, y = g[i + 1]
              PROVE  \E x \in W[n - 1] : x # ListHead /\ y = list.fwd[x]
          <6>1. g[i] \in W[n - 1] /\ g[i] # ListHead /\ y = list.fwd[g[i]]
            BY <4>1, <4>3, <5>2
          <6>2. QED
            BY <6>1
        <5>3. QED
          BY <5>1, <5>2
      <4>6. QED
        BY <4>2, <4>4, <4>5
    <3>3. \A i \in 1 .. k + 1 : i = 1 \/ (i - 1 \in 1 .. k /\ i = (i - 1) + 1)
      OBVIOUS
    <3>4. \A i \in 1 .. k : i \in 1 .. k + 1 /\ i + 1 \in 1 .. k + 1
      OBVIOUS
    <3>5. ASSUME NEW y \in W[n] PROVE y \in Step(W[n - 1])
      <4>1. PICK i \in 1 .. k + 1 : y = g[i]
        BY <3>1
      <4>2. CASE i = 1
        <5>1. 1 \in 1 .. k
          OBVIOUS
        <5>2. QED
          BY <2>2, <4>1, <4>2, <5>1
      <4>3. CASE i # 1
        <5>1. i - 1 \in 1 .. k /\ i = (i - 1) + 1
          BY <4>3
        <5>2. y \in {g[j + 1] : j \in 1 .. k}
          BY <4>1, <5>1
        <5>3. QED
          BY <3>2, <5>2
      <4>4. QED
        BY <4>2, <4>3
    <3>6. ASSUME NEW y \in Step(W[n - 1]) PROVE y \in W[n]
      <4>1. y \in {g[i] : i \in 1 .. k} \/ y \in {g[i + 1] : i \in 1 .. k}
        BY <2>2, <3>2
      <4>2. QED
        BY <3>1, <3>4, <4>1
    <3> HIDE DEF Step
    <3>7. QED
      BY <3>5, <3>6
  <2>4. CASE k = N + 1
    <3>1. W[n] = W[n - 1]
      BY <1>3, <1>4, <2>1, <2>2, <2>4
    <3>2. ASSUME NEW x \in W[n - 1], x # ListHead PROVE list.fwd[x] \in W[n - 1]
      <4>1. PICK i \in 1 .. N + 1 : x = g[i]
        BY <2>2, <2>4
      <4>2. i \in 0 .. N /\ i + 1 \in 1 .. N + 1
        <5>1. g[N + 1] = ListHead
          BY <1>1
        <5>2. i # N + 1
          BY <3>2, <4>1, <5>1
        <5>3. QED
          BY <1>1, <5>2
      <4>3. list.fwd[x] = g[i + 1]
        BY <1>1, <4>1, <4>2
      <4>4. QED
        BY <2>2, <2>4, <4>2, <4>3
    <3>3. QED
      BY <3>1, <3>2
  <2>5. QED
    BY <2>1, <2>3, <2>4
<1>7. W = [n \in Nat |-> IF n = 0 THEN {list.fwd[ListHead]} ELSE Step(W[n - 1])]
  <2> HIDE DEF Step
  <2>1. \A n \in Nat : W[n] = IF n = 0 THEN {list.fwd[ListHead]} ELSE Step(W[n - 1])
    BY <1>5, <1>6
  <2>2. W = [n \in Nat |-> W[n]]
    BY DEF W
  <2>3. QED
    BY <2>1, <2>2
<1>8. Walk = [n \in Nat |-> IF n = 0 THEN {list.fwd[ListHead]} ELSE Step(Walk[n - 1])]
  BY <1>7, Zenon DEF Walk
<1> HIDE DEF Step
<1>9. \A n \in Nat : Walk[n] = W[n]
  <2> DEFINE T == {n \in Nat : Walk[n] # W[n]}
  <2>1. ASSUME T # {} PROVE FALSE
    <3>1. T \in SUBSET Nat
      OBVIOUS
    <3>2. PICK x \in T : \A y \in T : ~ (y < x)
      BY <2>1, <3>1, LeastNumber
    <3>3. x \in Nat /\ Walk[x] # W[x]
      OBVIOUS
    <3>4. CASE x = 0
      BY <1>5, <1>8, <3>3, <3>4
    <3>5. CASE x # 0
      <4>1. x - 1 \in Nat /\ x - 1 < x
        BY <3>3, <3>5
      <4>2. Walk[x - 1] = W[x - 1]
        BY <3>2, <4>1
      <4>3. Walk[x] = Step(Walk[x - 1])
        BY <1>8, <3>3, <3>5
      <4>4. W[x] = Step(W[x - 1])
        BY <1>6, <3>3, <3>5
      <4>5. QED
        BY <3>3, <4>2, <4>3, <4>4
    <3>6. QED
      BY <3>4, <3>5
  <2>2. QED
    BY <2>1
<1>10. \A n \in Nat : n >= N => Last(n) = N + 1
  BY DEF Last
<1>11. QED
  BY <1>4, <1>9, <1>10

(* The list is no longer than the pool.                                    *)
LEMMA RingFits ==
    ASSUME NEW fwd, NEW back, NEW n \in Nat, NEW g, Ring(fwd, back, n, g)
    PROVE  Cardinality(Mapping) \in Nat /\ n <= Cardinality(Mapping)
<1> DEFINE f == [i \in 1 .. n |-> g[i]]
<1>1. f \in Injection(1 .. n, Mapping)
  BY DEF Ring, Injection, IsInjective
<1>2. IsFiniteSet(Mapping)
  BY IoMmuAssumption
<1>3. Cardinality(1 .. n) <= Cardinality(Mapping)
  BY <1>1, <1>2, FS_Injection
<1>4. Cardinality(1 .. n) = n
  BY FS_Interval
<1>5. Cardinality(Mapping) \in Nat
  BY <1>2, FS_CardinalityType
<1>6. QED
  BY <1>3, <1>4, <1>5

\* IoMmu.c:31-34: as long as no notification has called Map or Unmap inside a list operation of
\* main, mMapInfos is the full set of mappings in effect, at every step of both contexts, so the
\* tear-down, which only knows the list, misses none; and nobody follows a link to a MAP_INFO
\* that was freed or undone.
THEOREM ListIsComplete == Spec => []ListIsMappings
<1>1. MapInv => ListIsMappings
  <2> SUFFICES ASSUME MapInv, ~raced PROVE MapInfosIsFull
    BY DEF ListIsMappings, MapInv
  <2>1. TypeOK /\ MemInv /\ OwnInv /\ ListInv
    BY DEF MapInv, MemInv
  <2>2. PICK n \in Nat : \E g \in [0 .. n + 1 -> Node], b \in [Node -> Node] : Chain(n, g, b)
    BY <2>1 DEF ListInv, IsChain
  <2>3. PICK g \in [0 .. n + 1 -> Node], b \in [Node -> Node] : Chain(n, g, b)
    BY <2>2
  <2>4. Ring(list.fwd, b, n, g)
    BY <2>3 DEF Chain
  <2>5. Cardinality(Mapping) \in Nat /\ Cardinality(Mapping) >= n
    BY <2>4, RingFits
  <2>6. Walk[Cardinality(Mapping)] = {g[i] : i \in 1 .. n + 1}
    BY <2>4, <2>5, WalkMeets
  <2>7. g[n + 1] = ListHead /\ \A i \in 1 .. n : g[i] \in Mapping
    BY <2>4 DEF Ring
  <2>8. \A m : m \in Listed <=> m \in Mapping /\ \E i \in 1 .. n : g[i] = m
    <3>1. ASSUME NEW m \in Listed PROVE m \in Mapping /\ \E i \in 1 .. n : g[i] = m
      <4>1. m # ListHead /\ m \in {g[i] : i \in 1 .. n + 1}
        BY <2>6 DEF Listed
      <4>2. PICK i \in 1 .. n + 1 : m = g[i]
        BY <4>1
      <4>3. i \in 1 .. n
        BY <2>7, <4>1, <4>2
      <4>4. QED
        BY <2>7, <4>2, <4>3
    <3>2. ASSUME NEW i \in 1 .. n PROVE g[i] \in Listed
      <4>1. i \in 1 .. n + 1 /\ g[i] # ListHead
        BY <2>7, IoMmuAssumption
      <4>2. QED
        BY <2>6, <4>1 DEF Listed
    <3>3. QED
      BY <3>1, <3>2
  <2>9. \A m : m \in Held \cup AtWork({"encrypt", "restore", "unlink", "unhook"})
               <=> \E c \in Context : m \in InList(c)
    BY BothHave DEF InList, Undone
  <2>10. \A c \in Context : InList(c) \subseteq Mapping
    BY <2>1, SetFacts
  <2>11. \A m \in Mapping : (\E i \in 1 .. n : g[i] = m) <=> \E c \in Context : m \in InList(c)
    BY <2>3 DEF Chain
  <2>12. \A m : m \in Listed <=> m \in Held \cup AtWork({"encrypt", "restore", "unlink", "unhook"})
    BY <2>8, <2>9, <2>10, <2>11
  <2>13. Listed = Held \cup AtWork({"encrypt", "restore", "unlink", "unhook"})
    BY <2>12, Zenon
  <2>14. QED
    BY <2>13 DEF MapInfosIsFull
<1>2. QED
  BY <1>1, MapInvariance, PTL

-----------------------------------------------------------------------------
(* The protocol implements Dma.  The device is given what the buffer of a  *)
(* Read holds.                                                             *)
Copied(c) ==
    pc[c] \in {"link", "hook"} /\ info[arg[c]].kind = "Read" =>
        content[info[arg[c]].plain] = content[info[arg[c]].crypted]

CopyInv == \A c \in Context : Copied(c)

(* The two pages of a Read that d maps, of which nobody else has one.      *)
LEMMA ReadPages ==
    ASSUME TypeOK, PcInv, MemInv, NEW d \in Context,
           pc[d] \in {"link", "hook"}, info[arg[d]].kind = "Read"
    PROVE  /\ arg[d] \in Mapping /\ arg[d] \notin inPool
           /\ \A c \in Context : arg[d] \notin held[c]
           /\ \A c \in Context : c # d => arg[d] \notin Live(c)
           /\ info[arg[d]].plain \in Page /\ info[arg[d]].crypted \in Page
           /\ use[info[arg[d]].plain] = "bounce" /\ use[info[arg[d]].crypted] = "host"
           /\ info[arg[d]].crypted = HostPage[d]
           /\ \A c \in Context : \A n \in Plain(c) : n # arg[d] =>
                 info[n].plain # info[arg[d]].plain /\ info[n].plain # info[arg[d]].crypted
<1>1. pc[d] \in Given /\ pc[d] \in Working /\ phase = "boot"
  BY DEF Given, Working, PcInv, Context
<1>2. /\ arg[d] \in Mapping /\ arg[d] \notin inPool /\ arg[d] \in Live(d)
      /\ \A c \in Context : arg[d] \notin held[c]
      /\ \A c \in Context : c # d => arg[d] \notin Live(c)
  BY <1>1, AtWorkFacts DEF MemInv
<1>3. arg[d] \in Plain(d)
  BY <1>1, WorkIsPlain
<1>4. info[arg[d]].plain \in Page /\ info[arg[d]].crypted \in Page
  BY <1>3, PlainPages
<1>5. use[info[arg[d]].plain] = "bounce" /\ info[arg[d]].crypted = HostPage[d]
  BY <1>1, <1>2, <1>3 DEF MemInv, InfoInv
<1>6. use[info[arg[d]].crypted] = "host"
  BY <1>5 DEF MemInv, PageInv
<1>7. ASSUME NEW c \in Context, NEW n \in Plain(c), n # arg[d]
      PROVE  info[n].plain # info[arg[d]].plain /\ info[n].plain # info[arg[d]].crypted
  <2>1. info[n].plain # info[arg[d]].plain
    BY <1>3, <1>7 DEF MemInv, DistinctInv
  <2>2. use[info[n].plain] # "host"
    BY PlainUse
  <2>3. QED
    BY <1>6, <2>1, <2>2
<1>8. QED
  BY <1>2, <1>4, <1>5, <1>6, <1>7

(* What a step of c may write to: its own pages, and pages that no Read    *)
(* has.                                                                    *)
WritesOwn(c) ==
    \A p \in Page : \/ content'[p] = content[p]
                    \/ use[p] \in {"free", "stash", "common"}
                    \/ p = HostPage[c]
                    \/ \E n \in Plain(c) : p = info[n].plain

LEMMA OthersCopied ==
    ASSUME TypeOK, PcInv, MemInv, CopyInv, NEW c \in Context, WritesOwn(c),
           \A d \in Context : d # c => pc'[d] = pc[d] /\ arg'[d] = arg[d],
           \A m \in Mapping : info'[m] = info[m] \/ m \in inPool \/ m \in Live(c)
    PROVE  \A d \in Context : d # c => Copied(d)'
<1> SUFFICES ASSUME NEW d \in Context, d # c, pc[d] \in {"link", "hook"},
                    info'[arg[d]].kind = "Read"
             PROVE  content'[info'[arg[d]].plain] = content'[info'[arg[d]].crypted]
  BY DEF Copied
<1>1. info'[arg[d]] = info[arg[d]]
  <2>1. arg[d] \in Mapping /\ arg[d] \notin inPool /\ arg[d] \notin Live(c)
    BY AtWorkFacts DEF MemInv, Working
  <2>2. QED
    BY <2>1
<1>2. info[arg[d]].kind = "Read"
  BY <1>1
<1>3. /\ \A e \in Context : e # d => arg[d] \notin Live(e)
      /\ info[arg[d]].plain \in Page /\ info[arg[d]].crypted \in Page
      /\ use[info[arg[d]].plain] = "bounce" /\ use[info[arg[d]].crypted] = "host"
      /\ info[arg[d]].crypted = HostPage[d]
      /\ \A e \in Context : \A n \in Plain(e) : n # arg[d] =>
            info[n].plain # info[arg[d]].plain /\ info[n].plain # info[arg[d]].crypted
  BY <1>2, ReadPages
<1>4. \A n \in Plain(c) : n # arg[d]
  BY <1>3, SetFacts DEF MemInv
<1>5. HostPage[c] # HostPage[d] /\ use[HostPage[c]] = "host"
  BY IoMmuAssumption DEF MemInv, PageInv, Context
<1>6. content'[info[arg[d]].plain] = content[info[arg[d]].plain]
  BY <1>3, <1>4, <1>5 DEF WritesOwn
<1>7. content'[info[arg[d]].crypted] = content[info[arg[d]].crypted]
  BY <1>3, <1>4, <1>5 DEF WritesOwn
<1>8. content[info[arg[d]].plain] = content[info[arg[d]].crypted]
  BY <1>2 DEF CopyInv, Copied
<1>9. QED
  BY <1>1, <1>6, <1>7, <1>8

LEMMA MapCopyCopies ==
    ASSUME TypeOK, PcInv, MemInv, CopyInv, NEW c \in Context, MapCopy(c)
    PROVE  CopyInv'
<1> DEFINE i == info[arg[c]]
<1>1. /\ At(c, "copy")
      /\ content' = CASE i.kind = "Read"   -> [content EXCEPT ![i.plain] = content[i.crypted]]
                      [] i.kind = "Common" -> [content EXCEPT ![i.plain] =
                                                 content[stashOf[i.crypted]]]
                      [] i.kind = "Write"  -> content
      /\ Goto(c, "link")
      /\ UNCHANGED <<use, shared, stashOf, buffers, info, inPool, held, arg, node, raced, lost,
                       exitVars>>
  BY Zenon DEF MapCopy
<1>2. \A d \in Context : d # c => pc'[d] = pc[d]
  BY <1>1 DEF Goto, TypeOK
<1>3. pc[c] \in Given
  BY <1>1 DEF At, Given
<1>4. i.plain \in Page /\ i.crypted \in Page /\ i.kind \in Kind /\ arg[c] \in Plain(c)
  BY <1>3, WorkIsPlain, PlainPages
<1>5. ASSUME i.kind = "Read" PROVE content'[i.plain] = content'[i.crypted]
  <2>1. content' = [content EXCEPT ![i.plain] = content[i.crypted]]
    BY <1>1, <1>5
  <2>2. QED
    BY <1>4, <2>1 DEF TypeOK
<1>6. info' = info /\ arg' = arg
  BY <1>1
<1>7. WritesOwn(c)
  <2>1. \A p \in Page : content'[p] = content[p] \/ p = i.plain
    <3>1. content' = content \/ \E v : content' = [content EXCEPT ![i.plain] = v]
      BY <1>1, <1>4 DEF Kind
    <3>2. QED
      BY SMTT(40), <3>1 DEF TypeOK
  <2>2. QED
    BY <1>4, <2>1 DEF WritesOwn
<1>8. \A d \in Context : d # c => Copied(d)'
  BY <1>2, <1>6, <1>7, OthersCopied
<1>9. QED
  BY <1>5, <1>6, <1>8 DEF CopyInv, Copied

LEMMA DeviceKeepsCopies ==
    ASSUME TypeOK, PcInv, MemInv, CopyInv, NEW c \in Context, NEW m \in Mapping, NEW v \in Data,
           DeviceWrite(c, m, v)
    PROVE  CopyInv'
<1>1. /\ m \in held[c] /\ content' = [content EXCEPT ![info[m].plain] = v]
      /\ info' = info /\ pc' = pc /\ arg' = arg
  BY DEF DeviceWrite, mapVars, ctlVars
<1> SUFFICES ASSUME NEW d \in Context, pc[d] \in {"link", "hook"}, info[arg[d]].kind = "Read"
             PROVE  content'[info[arg[d]].plain] = content'[info[arg[d]].crypted]
  BY <1>1 DEF CopyInv, Copied
<1>2. m \in Plain(c)
  BY <1>1, SetFacts DEF MemInv
<1>3. /\ arg[d] # m /\ info[arg[d]].plain \in Page /\ info[arg[d]].crypted \in Page
      /\ info[m].plain # info[arg[d]].plain /\ info[m].plain # info[arg[d]].crypted
  BY <1>1, <1>2, ReadPages
<1>4. content[info[arg[d]].plain] = content[info[arg[d]].crypted]
  BY DEF CopyInv, Copied
<1>5. QED
  BY <1>1, <1>3, <1>4 DEF TypeOK

(* The steps of c that do not leave it in InsertHeadList.                  *)
LEMMA LeavesLink ==
    ASSUME TypeOK, PcInv, MemInv, CopyInv, NEW c \in Context, WritesOwn(c),
           NEW l, l \notin {"link", "hook"}, Goto(c, l),
           \A d \in Context : d # c => arg'[d] = arg[d],
           \A m \in Mapping : info'[m] = info[m] \/ m \in inPool \/ m \in Live(c)
    PROVE  CopyInv'
<1>1. pc'[c] = l /\ \A d \in Context : d # c => pc'[d] = pc[d]
  BY DEF Goto, TypeOK
<1>2. \A d \in Context : d # c => Copied(d)'
  BY <1>1, OthersCopied
<1>3. Copied(c)'
  BY <1>1 DEF Copied
<1>4. QED
  BY <1>2, <1>3 DEF CopyInv

LEMMA SamePages ==
    ASSUME NEW c, content' = content
    PROVE  WritesOwn(c)
  BY DEF WritesOwn

LEMMA OnePage ==
    ASSUME TypeOK, NEW c, NEW q, NEW v, content' = [content EXCEPT ![q] = v],
           \/ use[q] \in {"free", "stash", "common"}
           \/ q = HostPage[c]
           \/ \E n \in Plain(c) : q = info[n].plain
    PROVE  WritesOwn(c)
<1>1. \A p \in Page : p # q => content'[p] = content[p]
  BY DEF TypeOK
<1>2. QED
  BY <1>1 DEF WritesOwn

LEMMA MapCopied ==
    ASSUME TypeOK, PcInv, MemInv, CopyInv, NEW c \in Context,
           \/ \E kind \in Kind, h \in Page : MapInfo(c, kind, h)
           \/ MapBounce(c) \/ MapCommon(c) \/ MapFails(c) \/ MapClear(c) \/ MapReturn(c)
    PROVE  CopyInv'
<1>1. CASE \E kind \in Kind, h \in Page : MapInfo(c, kind, h)
  <2>1. PICK kind \in Kind, h \in Page : MapInfo(c, kind, h)
    BY <1>1
  <2>2. PICK m \in inPool :
            /\ info' = [info EXCEPT ![m] = [kind |-> kind, crypted |-> h, plain |-> NoPage]]
            /\ arg' = [arg EXCEPT ![c] = m]
    BY <2>1 DEF MapInfo
  <2>3. Goto(c, "map") /\ content' = content
    BY <2>1 DEF MapInfo, memVars
  <2>4. /\ \A d \in Context : d # c => arg'[d] = arg[d]
        /\ \A x \in Mapping : info'[x] = info[x] \/ x \in inPool
    BY <2>2 DEF TypeOK
  <2>5. QED
    BY <2>3, <2>4, LeavesLink, SamePages
<1>2. CASE MapBounce(c)
  <2>1. PICK p \in Bounce(c) : info' = [info EXCEPT ![arg[c]].plain = p]
    BY <1>2 DEF MapBounce
  <2>2. Goto(c, "clear") /\ content' = content /\ arg' = arg /\ pc[c] \in Working
    BY <1>2 DEF MapBounce, At, Working
  <2>3. \A x \in Mapping : info'[x] = info[x] \/ x \in Live(c)
    <3>1. arg[c] \in Live(c)
      BY <2>2, AtWorkFacts DEF MemInv
    <3>2. QED
      BY <2>1, <3>1 DEF TypeOK
  <2>4. QED
    BY <2>2, <2>3, LeavesLink, SamePages
<1>3. CASE MapCommon(c)
  <2> DEFINE h == info[arg[c]].crypted
  <2>1. /\ info' = [info EXCEPT ![arg[c]].plain = h]
        /\ content' = [content EXCEPT ![stashOf[h]] = content[h]]
        /\ Goto(c, "clear") /\ arg' = arg /\ pc[c] \in Working /\ info[arg[c]].kind = "Common"
    BY <1>3 DEF MapCommon, At, Working
  <2>2. arg[c] \in Live(c)
    BY <2>1, AtWorkFacts DEF MemInv
  <2>3. \A x \in Mapping : info'[x] = info[x] \/ x \in Live(c)
    BY <2>1, <2>2 DEF TypeOK
  <2>4. use[stashOf[h]] = "stash"
    BY <2>1, <2>2 DEF MemInv, InfoInv, PageInv
  <2>5. WritesOwn(c)
    BY <2>1, <2>4, OnePage
  <2>6. QED
    BY <2>1, <2>3, <2>5, LeavesLink
<1>4. CASE MapFails(c)
  <2>1. /\ info' = [info EXCEPT ![arg[c]] = NoInfo] /\ pc[c] \in Working
        /\ Goto(c, "idle") /\ arg' = [arg EXCEPT ![c] = NoPage] /\ content' = content
    BY <1>4 DEF MapFails, Return, At, Working, memVars
  <2>2. arg[c] \in Live(c)
    BY <2>1, AtWorkFacts DEF MemInv
  <2>3. /\ \A x \in Mapping : info'[x] = info[x] \/ x \in Live(c)
        /\ \A d \in Context : d # c => arg'[d] = arg[d]
    BY <2>1, <2>2 DEF TypeOK
  <2>4. QED
    BY <2>1, <2>3, LeavesLink, SamePages
<1>5. CASE MapClear(c)
  <2>1. /\ content' = [content EXCEPT ![info[arg[c]].plain] = Junk] /\ pc[c] \in Given
        /\ Goto(c, "copy") /\ arg' = arg /\ info' = info
    BY <1>5 DEF MapClear, At, Given, mapVars
  <2>2. arg[c] \in Plain(c)
    BY <2>1, WorkIsPlain
  <2>3. WritesOwn(c)
    BY <2>1, <2>2, OnePage
  <2>4. QED
    BY <2>1, <2>3, LeavesLink
<1>6. CASE MapReturn(c)
  <2>1. /\ Goto(c, "idle") /\ arg' = [arg EXCEPT ![c] = NoPage] /\ content' = content
        /\ info' = info
    BY <1>6 DEF MapReturn, Return, memVars
  <2>2. \A d \in Context : d # c => arg'[d] = arg[d]
    BY <2>1 DEF TypeOK
  <2>3. QED
    BY <2>1, <2>2, LeavesLink, SamePages
<1>7. QED
  BY <1>1, <1>2, <1>3, <1>4, <1>5, <1>6

LEMMA UnmapCopied ==
    ASSUME TypeOK, PcInv, MemInv, CopyInv, phase = "boot", NEW c \in Context,
           Unmap(c) \/ UnmapGoesOn(c)
    PROVE  CopyInv'
<1>1. CASE Unmap(c)
  <2>1. PICK m \in held[c] : UnmapStart(c, m)
    BY <1>1, Zenon DEF Unmap
  <2> DEFINE i == info[m]
  <2>2. /\ content' = CASE i.kind = "Read"   -> content
                        [] i.kind = "Write"  -> [content EXCEPT ![i.crypted] = content[i.plain]]
                        [] i.kind = "Common" -> [content EXCEPT ![stashOf[i.plain]] =
                                                   content[i.plain]]
        /\ arg' = [arg EXCEPT ![c] = m]
        /\ Goto(c, "encrypt")
        /\ UNCHANGED <<use, shared, stashOf, buffers, info, inPool, list, exitVars>>
    BY <2>1, Zenon DEF UnmapStart
  <2>3. m \in Plain(c) /\ m \in Live(c)
    BY SetFacts DEF MemInv
  <2>4. i.kind \in Kind
    BY <2>3, PlainPages
  <2>5. WritesOwn(c)
    <3>1. CASE i.kind = "Read"
      BY <2>2, <3>1, SamePages
    <3>2. CASE i.kind = "Write"
      <4>1. content' = [content EXCEPT ![i.crypted] = content[i.plain]]
        BY <2>2, <3>2
      <4>2. i.crypted = HostPage[c]
        BY <2>3, <3>2 DEF MemInv, InfoInv
      <4>3. QED
        BY <4>1, <4>2, OnePage
    <3>3. CASE i.kind = "Common"
      <4>1. content' = [content EXCEPT ![stashOf[i.plain]] = content[i.plain]]
        BY <2>2, <3>3
      <4>2. use[stashOf[i.plain]] = "stash"
        BY <2>3, <3>3 DEF MemInv, InfoInv, PageInv
      <4>3. QED
        BY <4>1, <4>2, OnePage
    <3>4. QED
      BY <2>4, <3>1, <3>2, <3>3 DEF Kind
  <2>6. info' = info /\ \A d \in Context : d # c => arg'[d] = arg[d]
    BY <2>2 DEF TypeOK
  <2>7. QED
    BY <2>2, <2>5, <2>6, LeavesLink
<1>2. CASE UnmapEncrypt(c)
  <2>1. /\ content' = [content EXCEPT ![info[arg[c]].plain] = Junk] /\ pc[c] \in Given
        /\ Goto(c, "restore") /\ arg' = arg /\ info' = info
    BY <1>2 DEF UnmapEncrypt, At, Given, mapVars
  <2>2. arg[c] \in Plain(c)
    BY <2>1, WorkIsPlain
  <2>3. WritesOwn(c)
    BY <2>1, <2>2, OnePage
  <2>4. QED
    BY <2>1, <2>3, LeavesLink
<1>3. CASE UnmapRestore(c)
  <2> DEFINE i == info[arg[c]]
  <2>1. /\ At(c, "restore")
        /\ content' = CASE i.kind = "Common" -> [content EXCEPT ![i.crypted] =
                                                   content[stashOf[i.crypted]]]
                        [] OTHER -> [content EXCEPT ![i.plain] =
                                       IF MemoryMapLocked THEN Zero ELSE Junk]
        /\ Goto(c, "unlink")
        /\ UNCHANGED <<shared, stashOf, buffers, mapVars, arg, node, raced, lost, exitVars>>
    BY <1>3, Zenon DEF UnmapRestore
  <2>2. pc[c] \in Given
    BY <2>1 DEF At, Given
  <2>3. arg[c] \in Plain(c) /\ arg[c] \in Live(c)
    BY <2>2, WorkIsPlain, SetFacts DEF MemInv
  <2>4. WritesOwn(c)
    <3>1. CASE i.kind = "Common"
      <4>1. content' = [content EXCEPT ![i.crypted] = content[stashOf[i.crypted]]]
        BY <2>1, <3>1
      <4>2. i.crypted \in buffers /\ i.crypted \in Page
        BY <2>3, <3>1, PageFacts DEF MemInv, InfoInv
      <4>3. use[i.crypted] = "common"
        BY <4>2 DEF MemInv, PageInv
      <4>4. QED
        BY <4>1, <4>3, OnePage
    <3>2. CASE i.kind # "Common"
      <4>1. content' = [content EXCEPT ![i.plain] = IF MemoryMapLocked THEN Zero ELSE Junk]
        BY <2>1, <3>2
      <4>2. QED
        BY <2>3, <4>1, OnePage
    <3>3. QED
      BY <3>1, <3>2
  <2>5. info' = info /\ arg' = arg
    BY <2>1 DEF mapVars
  <2>6. QED
    BY <2>1, <2>4, <2>5, LeavesLink
<1>4. CASE UnmapUnlink(c)
  <2>1. Goto(c, "unhook") /\ arg' = arg /\ info' = info /\ content' = content
    BY <1>4 DEF UnmapUnlink, memVars
  <2>2. QED
    BY <2>1, LeavesLink, SamePages
<1>5. CASE UnmapForget(c)
  <2>1. /\ Goto(c, "idle") /\ arg' = [arg EXCEPT ![c] = NoPage] /\ content' = content
        /\ info' = [info EXCEPT ![arg[c]] = NoInfo] /\ pc[c] \in Working
    BY <1>5 DEF UnmapForget, MemoryMapLocked, At, Return, Working, memVars
  <2>2. arg[c] \in Live(c)
    BY <2>1, AtWorkFacts DEF MemInv
  <2>3. /\ \A x \in Mapping : info'[x] = info[x] \/ x \in Live(c)
        /\ \A d \in Context : d # c => arg'[d] = arg[d]
    BY <2>1, <2>2 DEF TypeOK
  <2>4. QED
    BY <2>1, <2>3, LeavesLink, SamePages
<1>6. QED
  BY <1>1, <1>2, <1>3, <1>4, <1>5 DEF UnmapGoesOn

LEMMA CopyPreserved ==
    ASSUME MapInv, CopyInv, [Next]_vars
    PROVE  CopyInv'
<1>0. "main" \in Context /\ TypeOK /\ PcInv /\ MemInv
  BY DEF Context, MapInv, ExitInv
<1>1. CASE phase' # "boot"
  <2>1. PcInv'
    BY <1>0, PcPreserved
  <2>2. \A d \in Context : pc'[d] \notin {"link", "hook"}
    BY <1>1, <2>1 DEF PcInv, Context
  <2>3. QED
    BY <2>2 DEF CopyInv, Copied
<1>2. CASE AllocateBufferStash \/ AllocateBufferPages \/ AllocateBufferFails
  <2>1. /\ Goto("main", "allocate") \/ Goto("main", "idle")
        /\ content' = content /\ info' = info
        /\ \A d \in Context : d # "main" => arg'[d] = arg[d]
    BY <1>0, <1>2 DEF AllocateBufferStash, AllocateBufferPages, AllocateBufferFails, Return,
                      mapVars, TypeOK
  <2>2. QED
    BY <1>0, <2>1, LeavesLink, SamePages
<1>3. ASSUME pc' = pc, arg' = arg, info' = info, NEW c \in Context, pc[c] = "idle", WritesOwn(c)
      PROVE  CopyInv'
  <2>1. Goto(c, "idle")
    BY <1>0, <1>3 DEF Goto, TypeOK
  <2>2. QED
    BY <1>0, <1>3, <2>1, LeavesLink
<1>4. ASSUME NEW b \in Page, FreeBuffer(b) PROVE CopyInv'
  <2>1. /\ pc["main"] = "idle" /\ b \in buffers /\ pc' = pc /\ arg' = arg /\ info' = info
        /\ content' = [content EXCEPT ![stashOf[b]] = Junk, ![b] = Junk]
    BY <1>4 DEF FreeBuffer, Calls, ctlVars, mapVars
  <2>2. use[b] = "common" /\ use[stashOf[b]] = "stash"
    BY <1>0, <2>1 DEF MemInv, PageInv
  <2>3. \A p \in Page : p # b /\ p # stashOf[b] => content'[p] = content[p]
    BY <1>0, <2>1 DEF TypeOK
  <2>4. WritesOwn("main")
    BY <2>2, <2>3 DEF WritesOwn
  <2>5. QED
    BY <1>0, <1>3, <2>1, <2>4
<1>5. ASSUME NEW c \in Context, NEW h \in Page, NEW v \in Data, DriverWrite(c, h, v) PROVE CopyInv'
  <2>1. /\ pc[c] = "idle" /\ pc' = pc /\ arg' = arg /\ info' = info
        /\ content' = [content EXCEPT ![h] = v]
        /\ h = HostPage[c] \/ h \in buffers
    BY <1>5 DEF DriverWrite, Calls, ctlVars, mapVars
  <2>2. h = HostPage[c] \/ use[h] = "common"
    BY <1>0, <2>1 DEF MemInv, PageInv
  <2>3. WritesOwn(c)
    BY <1>0, <2>1, <2>2, OnePage
  <2>4. QED
    BY <1>3, <2>1, <2>3
<1>6. ASSUME NEW c \in Context, NEW m \in Mapping, NEW v \in Data, DeviceWrite(c, m, v)
      PROVE  CopyInv'
  BY <1>0, <1>6, DeviceKeepsCopies
<1>7. ASSUME content' = content, info' = info, arg' = arg, pc' = pc PROVE CopyInv'
  BY <1>7 DEF CopyInv, Copied
<1>8. ASSUME NEW c \in Context, Protocol(c), phase' = "boot" PROVE CopyInv'
  <2>1. CASE MapCopy(c)
    BY <1>0, <2>1, MapCopyCopies
  <2>2. CASE MapLink(c)
    <3>1. /\ pc[c] = "link" /\ Goto(c, "hook") /\ content' = content /\ info' = info /\ arg' = arg
      BY <2>2 DEF MapLink, At, memVars
    <3>2. pc'[c] = "hook" /\ \A d \in Context : d # c => pc'[d] = pc[d]
      BY <1>0, <3>1 DEF Goto, TypeOK
    <3>3. \A d \in Context : pc'[d] \in {"link", "hook"} => pc[d] \in {"link", "hook"}
      BY <3>1, <3>2
    <3>4. QED
      BY <3>1, <3>3 DEF CopyInv, Copied
  <2>3. CASE UnmapGoesOn(c)
    <3>1. phase = "boot"
      BY <1>0, <1>8, <2>3, UnmapSteps DEF exitVars
    <3>2. QED
      BY <1>0, <2>3, <3>1, UnmapCopied
  <2>4. CASE Unmap(c)
    <3>1. phase = "boot"
      BY <1>0, <2>4, BootSteps
    <3>2. QED
      BY <1>0, <2>4, <3>1, UnmapCopied
  <2>5. CASE Dangles(c)
    BY <1>7, <2>5 DEF Dangles, memVars, mapVars
  <2>6. QED
    BY <1>0, <1>8, <2>1, <2>2, <2>3, <2>4, <2>5, MapCopied DEF Protocol, UnmapGoesOn
<1>9. CASE UnmapAllNode \/ UnmapAllDone \/ IoMmuUnmapAllMappings
  <2>1. phase' # "boot"
    <3>1. CASE UnmapAllNode
      BY <1>0, <3>1, WalkStep DEF PcInv, exitVars
    <3>2. CASE UnmapAllDone
      BY <1>0, <3>2 DEF UnmapAllDone, At, PcInv, exitVars
    <3>3. CASE IoMmuUnmapAllMappings
      BY <3>3 DEF IoMmuUnmapAllMappings, Dispatch
    <3>4. QED
      BY <1>9, <3>1, <3>2, <3>3
  <2>2. QED
    BY <1>1, <2>1
<1>10. CASE \/ ExitBootServices \/ IoMmuExitBoot \/ ExitReturns \/ UNCHANGED vars
            \/ \E c \in Context : HaltDevice(c)
  BY <1>7, <1>10 DEF ExitBootServices, IoMmuExitBoot, ExitReturns, vars, HaltDevice, memVars,
               mapVars, ctlVars
<1>11. QED
  BY <1>1, <1>2, <1>4, <1>5, <1>6, <1>8, <1>9, <1>10 DEF Next, Exit

LEMMA InitCopy == Init => CopyInv
  BY DEF Init, CopyInv, Copied

(* What the driver finds on page p, and the device in window m: the view   *)
(* of DmaView.                                                             *)
Busy == {"clear", "copy", "encrypt", "restore"}

ConvBy(c, p) == pc[c] \in Busy /\ info[arg[c]].kind = "Common" /\ info[arg[c]].crypted = p

Visible(p) == use[p] \in {"host", "common"}
Cell(p)    == IF Converting(p) THEN content[stashOf[p]] ELSE content[p]
BufAt(p)   == IF use[p] \notin {"host", "common"} THEN "none"
              ELSE IF Converting(p) THEN content[stashOf[p]] ELSE content[p]
WinAt(m)   == IF m \in Held THEN [kind |-> info[m].kind, host |-> info[m].crypted,
                                  data |-> content[info[m].plain]]
              ELSE NoWindow

Seen == [p \in Page |-> BufAt(p)]
Win  == [m \in Mapping |-> WinAt(m)]

SameView == Seen' = Seen /\ Win' = Win

LEMMA Conversions == \A p : Converting(p) <=> \E c \in Context : ConvBy(c, p)
  BY DEF Converting, ConvBy, Busy

LEMMA ViewVars == SameView <=> UNCHANGED DmaView!dmavars
  BY DEF SameView, DmaView!dmavars, Seen, Win, BufAt, WinAt

(* The steps of Dma on the view.                                           *)
LEMMA AllocStep ==
    ASSUME NEW h \in Page, Seen[h] = "none", NEW v \in Data \cup {Junk},
           Seen' = [Seen EXCEPT ![h] = v], Win' = Win
    PROVE  DmaView!Alloc(h)
<1>1. \E d \in Data \cup {Junk} : Seen' = [Seen EXCEPT ![h] = d]
  OBVIOUS
<1>2. QED
  BY <1>1, Zenon DEF DmaView!Alloc, DmaView!Contents, Seen, Win, BufAt, WinAt

(* The mappings in effect of buffer h.                                     *)
HeldOf(h) == {m \in Mapping : Win[m] # NoWindow /\ Win[m].host = h}

LEMMA FreeStep ==
    ASSUME NEW h \in Page, Seen[h] # "none", HeldOf(h) = {},
           Seen' = [Seen EXCEPT ![h] = "none"], Win' = Win
    PROVE  DmaView!Free(h)
  BY Zenon DEF DmaView!Free, DmaView!Windows, HeldOf, Seen, Win, BufAt, WinAt

LEMMA DriverStep ==
    ASSUME NEW h \in Page, NEW v \in Data, Seen[h] # "none",
           \A m \in HeldOf(h) : Win[m].kind = "Common",
           Seen' = [Seen EXCEPT ![h] = v],
           Win' = [m \in Mapping |->
                      IF m \in HeldOf(h) THEN [Win[m] EXCEPT !.data = v] ELSE Win[m]]
    PROVE  DmaView!DriverWrite(h, v)
  BY Zenon DEF DmaView!DriverWrite, DmaView!Windows, HeldOf, Seen, Win, BufAt, WinAt

LEMMA MapStep ==
    ASSUME NEW m \in Mapping, NEW kind, NEW h \in Page, NEW v \in Data \cup {Junk},
           Win[m] = NoWindow, Seen[h] # "none", kind # "Write" => v = Seen[h],
           Win' = [Win EXCEPT ![m] = [kind |-> kind, host |-> h, data |-> v]], Seen' = Seen
    PROVE  DmaView!Map(m, kind, h)
<1>1. \E d \in Data \cup {Junk} :
         /\ kind # "Write" => d = Seen[h]
         /\ Win' = [Win EXCEPT ![m] = [kind |-> kind, host |-> h, data |-> d]]
  OBVIOUS
<1>2. QED
  BY <1>1, Zenon DEF DmaView!Map, DmaView!Contents, Seen, Win, BufAt, WinAt

LEMMA DeviceStep ==
    ASSUME NEW m \in Mapping, NEW v \in Data, Win[m] # NoWindow, Win[m].kind # "Read",
           Win' = [Win EXCEPT ![m].data = v],
           Seen' = IF Win[m].kind = "Common" THEN [Seen EXCEPT ![Win[m].host] = v] ELSE Seen
    PROVE  DmaView!DeviceWrite(m, v)
  BY Zenon DEF DmaView!DeviceWrite, Seen, Win, BufAt, WinAt

LEMMA UnmapStep ==
    ASSUME NEW m \in Mapping, Win[m] # NoWindow, Win' = [Win EXCEPT ![m] = NoWindow],
           Seen' = IF Win[m].kind = "Read" THEN Seen
                   ELSE [Seen EXCEPT ![Win[m].host] = Win[m].data]
    PROVE  DmaView!Unmap(m)
  BY Zenon DEF DmaView!Unmap, Seen, Win, BufAt, WinAt

LEMMA DmaSteps ==
    ASSUME \/ SameView \/ \E h \in Page : DmaView!Alloc(h) \/ DmaView!Free(h)
           \/ \E h \in Page, v \in Data : DmaView!DriverWrite(h, v)
           \/ \E m \in Mapping : DmaView!Unmap(m)
           \/ \E m \in Mapping, v \in Data : DmaView!DeviceWrite(m, v)
           \/ \E m \in Mapping, kind \in Kind, h \in Page : DmaView!Map(m, kind, h)
    PROVE  [DmaView!Next]_(DmaView!dmavars)
<1>1. SUFFICES ASSUME ~UNCHANGED DmaView!dmavars PROVE DmaView!Next
  OBVIOUS
<1>2. ~SameView
  BY <1>1, ViewVars
<1>3. DmaView!BufferStep \/ DmaView!WindowStep
  BY <1>2 DEF DmaView!BufferStep, DmaView!WindowStep, Kind
<1>4. QED
  BY <1>1, <1>3 DEF DmaView!Next
(* The pages of the view.                                                  *)
LEMMA ConvFacts ==
    ASSUME TypeOK, MemInv, NEW c \in Context, NEW p, ConvBy(c, p)
    PROVE  /\ arg[c] \in Plain(c) /\ arg[c] \in Live(c) /\ \A d \in Context : arg[c] \notin held[d]
           /\ p \in buffers /\ p \in Page /\ use[p] = "common"
           /\ stashOf[p] \in Page /\ use[stashOf[p]] = "stash"
<1>1. pc[c] \in Given /\ pc[c] \in Working /\ info[arg[c]].kind = "Common"
      /\ info[arg[c]].crypted = p
  BY DEF ConvBy, Busy, Given, Working
<1>2. /\ arg[c] \in Plain(c) /\ arg[c] \in Live(c) /\ \A d \in Context : arg[c] \notin held[d]
  BY <1>1, WorkIsPlain, AtWorkFacts DEF MemInv
<1>3. p \in buffers
  BY <1>1, <1>2 DEF MemInv, InfoInv
<1>4. p \in Page
  BY <1>3 DEF TypeOK
<1>5. QED
  BY <1>2, <1>3, <1>4 DEF MemInv, PageInv

(* A live mapping that no context converts keeps its data in the buffer.   *)
LEMMA NotConverting ==
    ASSUME TypeOK, MemInv, NEW c \in Context, NEW m \in Live(c),
           \A d \in Context : pc[d] \in Busy => arg[d] # m
    PROVE  ~Converting(info[m].crypted)
<1>1. ASSUME NEW d \in Context, ConvBy(d, info[m].crypted) PROVE FALSE
  <2>1. arg[d] \in Live(d)
    BY <1>1, ConvFacts
  <2>2. info[arg[d]].crypted = info[m].crypted /\ pc[d] \in Busy
    BY <1>1 DEF ConvBy
  <2>3. arg[d] = m
    BY <2>1, <2>2 DEF MemInv, DistinctInv
  <2>4. QED
    BY <2>2, <2>3
<1>2. QED
  BY <1>1, Conversions

LEMMA HeldFacts ==
    ASSUME TypeOK, MemInv, NEW m \in Held
    PROVE  /\ \E e \in Context : m \in held[e] /\ m \in Live(e) /\ m \in Plain(e)
           /\ m \in Mapping /\ m \notin inPool
           /\ info[m].kind \in Kind /\ info[m].crypted \in Page /\ info[m].plain \in Page
           /\ use[info[m].plain] \in {"bounce", "common"}
           /\ use[info[m].crypted] \in {"host", "common"}
           /\ ~Converting(info[m].crypted)
           /\ \A d \in Context : pc[d] \in Working => arg[d] # m
           /\ info[m].kind = "Common" => /\ info[m].plain = info[m].crypted
                                         /\ info[m].crypted \in buffers
           /\ info[m].kind # "Common" => /\ use[info[m].crypted] = "host"
                                         /\ use[info[m].plain] = "bounce"
<1>1. PICK e \in Context : m \in held[e]
  BY DEF Held, Context
<1>2. m \in Live(e) /\ m \in Plain(e) /\ m \in Mapping
  BY <1>1, SetFacts DEF MemInv
<1>3. m \notin inPool
  BY <1>2 DEF MemInv, OwnInv
<1>4. info[m].kind \in Kind /\ info[m].crypted \in Page /\ info[m].plain \in Page
  BY <1>2, PlainPages
<1>5. use[info[m].plain] \in {"bounce", "common"}
  BY <1>2, PlainUse
<1>6. \A d \in Context : pc[d] \in Working => arg[d] # m
  BY <1>1, AtWorkFacts DEF MemInv
<1>7. \A d \in Context : pc[d] \in Busy => arg[d] # m
  BY <1>6 DEF Working, Busy
<1>8. ~Converting(info[m].crypted)
  BY <1>2, <1>7, NotConverting
<1>9. info[m].kind = "Common" => /\ info[m].plain = info[m].crypted
                                 /\ info[m].crypted \in buffers
  BY <1>2 DEF MemInv, InfoInv
<1>10. info[m].kind # "Common" => /\ use[info[m].crypted] = "host"
                                  /\ use[info[m].plain] = "bounce"
  BY <1>2 DEF MemInv, InfoInv, PageInv
<1>11. use[info[m].crypted] \in {"host", "common"}
  BY <1>4, <1>9, <1>10 DEF MemInv, PageInv
<1>12. QED
  BY <1>1, <1>2, <1>3, <1>4, <1>5, <1>6, <1>8, <1>9, <1>10, <1>11

(* The page of a mapping in effect is no other mapping's.                  *)
LEMMA HeldApart ==
    ASSUME TypeOK, MemInv, NEW m \in Held, NEW c \in Context, NEW n \in Plain(c), n # m
    PROVE  info[m].plain # info[n].plain
<1>1. PICK e \in Context : m \in Plain(e)
  BY HeldFacts
<1>2. QED
  BY <1>1 DEF MemInv, DistinctInv

LEMMA HeldIs == \A m : m \in Held <=> \E c \in Context : m \in held[c]
  BY DEF Held, Context

(* The view stays when no cell that the driver or a device sees changes.   *)
LEMMA Unseen ==
    ASSUME \A p \in Page : Visible(p)' <=> Visible(p),
           \A p \in Page : Visible(p) => Cell(p)' = Cell(p)
    PROVE  Seen' = Seen
<1>1. \A p \in Page : BufAt(p)' = BufAt(p)
  <2> SUFFICES ASSUME NEW p \in Page PROVE BufAt(p)' = BufAt(p)
    OBVIOUS
  <2>1. Visible(p)' <=> Visible(p)
    OBVIOUS
  <2>2. CASE Visible(p)
    BY <2>1, <2>2 DEF Visible, Cell, BufAt
  <2>3. CASE ~Visible(p)
    BY <2>1, <2>3 DEF Visible, BufAt
  <2>4. QED
    BY <2>2, <2>3
<1>2. QED
  BY <1>1, Zenon DEF Seen

LEMMA WindowsStay ==
    ASSUME held' = held,
           \A m \in Held : info'[m] = info[m] /\ content'[info[m].plain] = content[info[m].plain]
    PROVE  Win' = Win
<1>1. Held' = Held
  BY DEF Held
<1>2. \A m \in Mapping : WinAt(m)' = WinAt(m)
  BY <1>1 DEF WinAt, NoWindow
<1>3. QED
  BY <1>2, Zenon DEF Win

LEMMA CellIs ==
    ASSUME NEW p
    PROVE  /\ Converting(p) => Cell(p) = content[stashOf[p]]
           /\ ~Converting(p) => Cell(p) = content[p]
  BY DEF Cell

LEMMA CellThen ==
    ASSUME NEW p
    PROVE  /\ Converting(p)' => Cell(p)' = content'[stashOf'[p]]
           /\ ~Converting(p)' => Cell(p)' = content'[p]
  BY DEF Cell
(* A step of c does not change what the other context converts.            *)
LEMMA ConvStays ==
    ASSUME NEW c \in Context, NEW p,
           \A d \in Context : d # c =>
               /\ pc'[d] = pc[d] /\ arg'[d] = arg[d]
               /\ pc[d] \in Busy => info'[arg[d]] = info[arg[d]],
           ConvBy(c, p)' <=> ConvBy(c, p)
    PROVE  Converting(p)' <=> Converting(p)
<1>1. \A d \in Context : ConvBy(d, p)' <=> ConvBy(d, p)
  BY DEF ConvBy
<1>2. Converting(p)' <=> \E d \in Context : ConvBy(d, p)'
  BY DEF Converting, ConvBy, Busy
<1>3. QED
  BY <1>1, <1>2, Conversions

(* When c works on a mapping, no other context converts its buffer.        *)
LEMMA ConvMine ==
    ASSUME TypeOK, MemInv, NEW c \in Context, pc[c] \in Working, NEW d \in Context, d # c
    PROVE  ~ConvBy(d, info[arg[c]].crypted)
<1>1. SUFFICES ASSUME ConvBy(d, info[arg[c]].crypted) PROVE FALSE
  OBVIOUS
<1>2. arg[d] \in Live(d) /\ info[arg[d]].crypted = info[arg[c]].crypted
  BY <1>1, ConvFacts DEF ConvBy
<1>3. arg[c] \in Live(c) /\ arg[c] \notin Live(d)
  BY AtWorkFacts DEF MemInv
<1>4. QED
  BY <1>2, <1>3 DEF MemInv, DistinctInv

LEMMA QuietView ==
    ASSUME content' = content, stashOf' = stashOf, held' = held,
           \A p \in Page : Visible(p)' <=> Visible(p),
           \A p \in Page : Converting(p)' <=> Converting(p),
           \A m \in Held : info'[m] = info[m]
    PROVE  SameView
<1>1. \A p \in Page : Cell(p)' = Cell(p)
  BY CellIs, CellThen
<1>2. Seen' = Seen
  BY <1>1, Unseen
<1>3. Win' = Win
  BY WindowsStay
<1>4. QED
  BY <1>2, <1>3 DEF SameView

(* A page is written that neither the driver nor a device sees.            *)
LEMMA WriteView ==
    ASSUME TypeOK, NEW q \in Page, NEW v, content' = [content EXCEPT ![q] = v],
           stashOf' = stashOf, held' = held,
           \A p \in Page : Visible(p)' <=> Visible(p),
           \A p \in Page : Converting(p)' <=> Converting(p),
           \A m \in Held : info'[m] = info[m] /\ info[m].plain \in Page /\ info[m].plain # q,
           \A p \in Page : Visible(p) => /\ Converting(p) => stashOf[p] \in Page /\ stashOf[p] # q
                                         /\ ~Converting(p) => p # q
    PROVE  SameView
<1>1. \A p \in Page : p # q => content'[p] = content[p]
  BY DEF TypeOK
<1>2. \A p \in Page : Visible(p) => Cell(p)' = Cell(p)
  BY <1>1, CellIs, CellThen
<1>3. Seen' = Seen
  BY <1>2, Unseen
<1>4. Win' = Win
  BY <1>1, WindowsStay
<1>5. QED
  BY <1>3, <1>4 DEF SameView

LEMMA AllocateView ==
    ASSUME TypeOK, MemInv, AllocateBufferStash \/ AllocateBufferFails
    PROVE  SameView
<1>1. PICK p \in Page, u \in {"free", "stash"}, l \in {"idle", "allocate"} :
         /\ use[p] \in {"free", "stash"} /\ use' = [use EXCEPT ![p] = u]
         /\ pc["main"] \in {"idle", "allocate"} /\ pc' = [pc EXCEPT !["main"] = l]
         /\ \A d \in Context : d # "main" => arg'[d] = arg[d]
         /\ content' = content /\ stashOf' = stashOf /\ held' = held /\ info' = info
  <2>1. CASE AllocateBufferStash
    BY <2>1 DEF AllocateBufferStash, Calls, Goto, Free, mapVars, TypeOK
  <2>2. CASE AllocateBufferFails
    <3>1. pc["main"] = "allocate" /\ arg["main"] \in Page /\ use[arg["main"]] = "stash"
      BY <2>2 DEF AllocateBufferFails, At, MemInv, PageInv
    <3>2. QED
      BY <2>2, <3>1 DEF AllocateBufferFails, Return, Goto, mapVars, TypeOK
  <2>3. QED
    BY <2>1, <2>2
<1>2. \A q \in Page : Visible(q)' <=> Visible(q)
  BY <1>1 DEF Visible, TypeOK
<1>3. "main" \in Context /\ pc'["main"] = l
  BY <1>1 DEF Context, TypeOK
<1>4. \A q \in Page : ~ConvBy("main", q) /\ ~ConvBy("main", q)'
  BY <1>1, <1>3 DEF ConvBy, Busy
<1>5. \A d \in Context : d # "main" => pc'[d] = pc[d] /\ arg'[d] = arg[d]
  BY <1>1 DEF TypeOK
<1>6. \A q \in Page : Converting(q)' <=> Converting(q)
  BY <1>1, <1>3, <1>4, <1>5, ConvStays
<1>7. QED
  BY <1>1, <1>2, <1>6, QuietView

(* A step of c that changes no more than a MAP_INFO which is not in effect *)
(* and a page that nobody sees.                                            *)
LEMMA InfoView ==
    ASSUME TypeOK, MemInv, NEW c \in Context, NEW m, m \notin Held,
           \A d \in Context : d # c => m \notin Live(d) /\ pc'[d] = pc[d] /\ arg'[d] = arg[d],
           \A p \in Page : ConvBy(c, p)' <=> ConvBy(c, p),
           \A n \in Mapping : n # m => info'[n] = info[n],
           content' = content, stashOf' = stashOf, held' = held,
           \A p \in Page : Visible(p)' <=> Visible(p)
    PROVE  SameView
<1>1. \A d \in Context : d # c /\ pc[d] \in Busy => info'[arg[d]] = info[arg[d]]
  <2>1. \A d \in Context : pc[d] \in Busy => arg[d] \in Live(d) /\ arg[d] \in Mapping
    BY AtWorkFacts DEF Busy, Working, MemInv
  <2>2. QED
    BY <2>1
<1>2. \A q \in Page : Converting(q)' <=> Converting(q)
  BY <1>1, ConvStays
<1>3. \A n \in Held : info'[n] = info[n]
  BY HeldFacts
<1>4. QED
  BY <1>2, <1>3, QuietView

LEMMA IdleConverts ==
    ASSUME NEW c, pc[c] \notin Busy, pc'[c] \notin Busy, NEW p
    PROVE  ConvBy(c, p)' <=> ConvBy(c, p)
  BY DEF ConvBy

(* What c works on is not in effect, and is no other context's.            *)
LEMMA WorkApart ==
    ASSUME TypeOK, MemInv, NEW c \in Context, pc[c] \in Working
    PROVE  /\ arg[c] \in Mapping /\ arg[c] \notin Held
           /\ \A d \in Context : d # c => arg[c] \notin Live(d)
  BY AtWorkFacts, HeldIs DEF MemInv

LEMMA MapInfoView ==
    ASSUME TypeOK, MemInv, NEW c \in Context, NEW kind \in Kind, NEW h \in Page,
           MapInfo(c, kind, h)
    PROVE  SameView
<1>1. PICK m \in inPool :
         /\ info' = [info EXCEPT ![m] = [kind |-> kind, crypted |-> h, plain |-> NoPage]]
         /\ arg' = [arg EXCEPT ![c] = m]
  BY DEF MapInfo
<1>2. /\ pc[c] = "idle" /\ pc' = [pc EXCEPT ![c] = "map"]
      /\ use' = use /\ content' = content /\ stashOf' = stashOf /\ held' = held
  BY DEF MapInfo, Calls, Goto, memVars
<1>3. m \in Mapping /\ \A d \in Context : m \notin Live(d)
  BY <1>1 DEF TypeOK, MemInv, OwnInv
<1>4. m \notin Held
  BY HeldFacts
<1>5. \A n \in Mapping : n # m => info'[n] = info[n]
  BY <1>1 DEF TypeOK
<1>6. \A d \in Context : d # c => pc'[d] = pc[d] /\ arg'[d] = arg[d]
  BY <1>1, <1>2 DEF TypeOK
<1>7. \A p \in Page : ConvBy(c, p)' <=> ConvBy(c, p)
  BY <1>2, IdleConverts DEF Busy, TypeOK
<1>8. \A p \in Page : Visible(p)' <=> Visible(p)
  BY <1>2 DEF Visible
<1>9. QED
  BY <1>2, <1>3, <1>4, <1>5, <1>6, <1>7, <1>8, InfoView

LEMMA MapFailsView ==
    ASSUME TypeOK, MemInv, NEW c \in Context, MapFails(c)
    PROVE  SameView
<1> DEFINE m == arg[c]
<1>1. /\ pc[c] = "map" /\ pc' = [pc EXCEPT ![c] = "idle"]
      /\ arg' = [arg EXCEPT ![c] = NoPage] /\ info' = [info EXCEPT ![m] = NoInfo]
      /\ use' = use /\ content' = content /\ stashOf' = stashOf /\ held' = held
  BY DEF MapFails, At, Return, Goto, memVars
<1>2. m \in Mapping /\ m \notin Held /\ \A d \in Context : d # c => m \notin Live(d)
  BY <1>1, WorkApart DEF Working
<1>3. \A n \in Mapping : n # m => info'[n] = info[n]
  BY <1>1 DEF TypeOK
<1>4. \A d \in Context : d # c => pc'[d] = pc[d] /\ arg'[d] = arg[d]
  BY <1>1 DEF TypeOK
<1>5. \A p \in Page : ConvBy(c, p)' <=> ConvBy(c, p)
  BY <1>1, IdleConverts DEF Busy, TypeOK
<1>6. \A p \in Page : Visible(p)' <=> Visible(p)
  BY <1>1 DEF Visible
<1>7. QED
  BY <1>1, <1>2, <1>3, <1>4, <1>5, <1>6, InfoView

LEMMA MapBounceView ==
    ASSUME TypeOK, MemInv, NEW c \in Context, MapBounce(c)
    PROVE  SameView
<1> DEFINE m == arg[c]
<1>1. /\ pc[c] = "map" /\ pc' = [pc EXCEPT ![c] = "clear"] /\ info[m].kind # "Common"
      /\ arg' = arg /\ content' = content /\ stashOf' = stashOf /\ held' = held
  BY DEF MapBounce, At, Goto
<1>2. PICK p \in Page : /\ use[p] = "free" /\ use' = [use EXCEPT ![p] = "bounce"]
                        /\ info' = [info EXCEPT ![m].plain = p]
  BY DEF MapBounce, Bounce, Free
<1>3. m \in Mapping /\ m \notin Held /\ \A d \in Context : d # c => m \notin Live(d)
  BY <1>1, WorkApart DEF Working
<1>4. \A n \in Mapping : n # m => info'[n] = info[n]
  BY <1>2 DEF TypeOK
<1>5. \A d \in Context : d # c => pc'[d] = pc[d] /\ arg'[d] = arg[d]
  BY <1>1 DEF TypeOK
<1>6. info'[m].kind # "Common"
  BY <1>1, <1>2, <1>3 DEF TypeOK
<1>7. \A q \in Page : ConvBy(c, q)' <=> ConvBy(c, q)
  BY <1>1, <1>6 DEF ConvBy
<1>8. \A q \in Page : Visible(q)' <=> Visible(q)
  BY <1>2 DEF Visible, TypeOK
<1>9. QED
  BY <1>1, <1>3, <1>4, <1>5, <1>7, <1>8, InfoView
LEMMA ConvPages ==
    ASSUME TypeOK, MemInv, NEW p, Converting(p)
    PROVE  p \in buffers /\ use[p] = "common" /\ stashOf[p] \in Page /\ use[stashOf[p]] = "stash"
<1>1. PICK c \in Context : ConvBy(c, p)
  BY Conversions
<1>2. QED
  BY <1>1, ConvFacts

LEMMA ThenConverts == \A p : Converting(p)' <=> \E c \in Context : ConvBy(c, p)'
  BY DEF Converting, ConvBy, Busy

(* MapClear and UnmapEncrypt: the conversion destroys what the page holds, *)
(* which is a bounce page, or a buffer whose data is in the stash.         *)
LEMMA JunkView ==
    ASSUME TypeOK, MemInv, NEW c \in Context, MapClear(c) \/ UnmapEncrypt(c)
    PROVE  SameView
<1> DEFINE m == arg[c]
           q == info[m].plain
<1>1. /\ pc[c] \in {"clear", "encrypt"} /\ content' = [content EXCEPT ![q] = Junk]
      /\ arg' = arg /\ use' = use /\ stashOf' = stashOf /\ held' = held /\ info' = info
  BY DEF MapClear, UnmapEncrypt, At, mapVars
<1>2. \A d \in Context : pc'[d] = IF d = c THEN IF pc[c] = "clear" THEN "copy" ELSE "restore"
                                  ELSE pc[d]
  BY DEF MapClear, UnmapEncrypt, At, Goto, TypeOK
<1>3. m \in Plain(c) /\ m \notin Held
  BY <1>1, WorkIsPlain, WorkApart DEF Given, Working
<1>4. q \in Page /\ use[q] \in {"bounce", "common"}
  BY <1>3, PlainUse
<1>5. use[q] = "common" => ConvBy(c, q)
  BY <1>1, <1>3 DEF MemInv, InfoInv, ConvBy, Busy
<1>6. \A n \in Held : info[n].plain \in Page /\ info[n].plain # q
  BY <1>3, HeldFacts, HeldApart
<1>7. \A p \in Page : ConvBy(c, p)' <=> ConvBy(c, p)
  BY <1>1, <1>2 DEF ConvBy, Busy
<1>8. \A p \in Page : Converting(p)' <=> Converting(p)
  BY <1>1, <1>2, <1>7, ConvStays
<1>9. \A p \in Page : Visible(p) => /\ Converting(p) => stashOf[p] \in Page /\ stashOf[p] # q
                                    /\ ~Converting(p) => p # q
  BY <1>4, <1>5, ConvPages, Conversions DEF Visible
<1>10. \A p \in Page : Visible(p)' <=> Visible(p)
  BY <1>1 DEF Visible
<1>11. QED
  BY <1>1, <1>4, <1>6, <1>8, <1>9, <1>10, WriteView

(* The data of a common buffer goes to its stash, or comes back: the       *)
(* driver finds it where it looks.                                         *)
LEMMA MoveView ==
    ASSUME TypeOK, MemInv, NEW h \in buffers,
           \A p \in Page : p # h => (Converting(p)' <=> Converting(p)),
           \/ /\ ~Converting(h) /\ Converting(h)'
              /\ content' = [content EXCEPT ![stashOf[h]] = content[h]]
           \/ /\ Converting(h) /\ ~Converting(h)'
              /\ content' = [content EXCEPT ![h] = content[stashOf[h]]],
           use' = use, stashOf' = stashOf, held' = held,
           \A m \in Held : info'[m] = info[m] /\ info[m].plain # h
    PROVE  SameView
<1>1. h \in Page /\ stashOf[h] \in Page /\ use[h] = "common" /\ use[stashOf[h]] = "stash"
  BY DEF TypeOK, MemInv, PageInv
<1>2. \A p \in Page : p # h /\ p # stashOf[h] => content'[p] = content[p]
  BY <1>1 DEF TypeOK
<1>3. Cell(h)' = Cell(h)
  BY <1>1, CellIs, CellThen DEF TypeOK
<1>4. ASSUME NEW p \in Page, p # h, Visible(p) PROVE Cell(p)' = Cell(p)
  <2>1. CASE Converting(p)
    <3>1. p \in buffers /\ stashOf[p] \in Page /\ use[stashOf[p]] = "stash"
      BY <2>1, ConvPages
    <3>2. stashOf[p] # stashOf[h] /\ stashOf[p] # h
      BY <1>1, <1>4, <3>1 DEF MemInv, PageInv
    <3>3. QED
      BY <1>2, <1>4, <2>1, <3>1, <3>2, CellIs, CellThen
  <2>2. CASE ~Converting(p)
    <3>1. p # stashOf[h]
      BY <1>1, <1>4 DEF Visible
    <3>2. QED
      BY <1>2, <1>4, <2>2, <3>1, CellIs, CellThen
  <2>3. QED
    BY <2>1, <2>2
<1>5. Seen' = Seen
  <2>1. \A p \in Page : Visible(p)' <=> Visible(p)
    BY DEF Visible
  <2>2. QED
    BY <1>3, <1>4, <2>1, Unseen
<1>6. Win' = Win
  <2>1. \A m \in Held : info[m].plain \in Page /\ info[m].plain # stashOf[h]
    BY <1>1, HeldFacts
  <2>2. QED
    BY <1>2, <2>1, WindowsStay
<1>7. QED
  BY <1>5, <1>6 DEF SameView

(* The buffer c works on is in no window.                                  *)
LEMMA WorkUnseen ==
    ASSUME TypeOK, MemInv, NEW c \in Context, pc[c] \in Working, info[arg[c]].kind = "Common"
    PROVE  /\ info[arg[c]].crypted \in buffers
           /\ \A m \in Held : info[m].plain # info[arg[c]].crypted
<1>1. arg[c] \in Live(c) /\ \A d \in Context : arg[c] \notin held[d]
  BY AtWorkFacts DEF MemInv
<1>2. info[arg[c]].crypted \in buffers
  BY <1>1 DEF MemInv, InfoInv
<1>3. use[info[arg[c]].crypted] = "common"
  BY <1>2 DEF MemInv, PageInv, TypeOK
<1>4. ASSUME NEW m \in Held, info[m].plain = info[arg[c]].crypted PROVE FALSE
  <2>1. info[m].crypted = info[arg[c]].crypted
    BY <1>3, <1>4, HeldFacts
  <2>2. PICK e \in Context : m \in held[e] /\ m \in Live(e)
    BY HeldFacts
  <2>3. m = arg[c]
    BY <1>1, <2>1, <2>2 DEF MemInv, DistinctInv
  <2>4. QED
    BY <1>1, <2>2, <2>3
<1>5. QED
  BY <1>2, <1>4

LEMMA MapCommonView ==
    ASSUME TypeOK, MemInv, NEW c \in Context, MapCommon(c)
    PROVE  SameView
<1> DEFINE m == arg[c]
<1>h. PICK h : h = info[m].crypted
  OBVIOUS
<1>1. /\ pc[c] = "map" /\ info[m].kind = "Common" /\ info' = [info EXCEPT ![m].plain = h]
      /\ content' = [content EXCEPT ![stashOf[h]] = content[h]]
      /\ pc' = [pc EXCEPT ![c] = "clear"]
      /\ arg' = arg /\ use' = use /\ stashOf' = stashOf /\ held' = held
  BY <1>h DEF MapCommon, At, Goto
<1>2. m \in Mapping /\ m \notin Held /\ \A d \in Context : d # c => m \notin Live(d)
  BY <1>1, WorkApart DEF Working
<1>3. h \in buffers /\ \A n \in Held : info[n].plain # h
  BY <1>h, <1>1, WorkUnseen DEF Working
<1>4. \A n \in Mapping : n # m => info'[n] = info[n]
  BY <1>1 DEF TypeOK
<1>5. info'[m].kind = "Common" /\ info'[m].crypted = h
  BY <1>h, <1>1, <1>2 DEF TypeOK
<1>6. pc'[c] = "clear" /\ \A d \in Context : d # c => pc'[d] = pc[d] /\ arg'[d] = arg[d]
  BY <1>1 DEF TypeOK
<1>7. \A d \in Context : d # c /\ pc[d] \in Busy => info'[arg[d]] = info[arg[d]]
  <2>1. \A d \in Context : pc[d] \in Busy => arg[d] \in Live(d) /\ arg[d] \in Mapping
    BY AtWorkFacts DEF Busy, Working, MemInv
  <2>2. QED
    BY <1>2, <1>4, <2>1
<1>8. \A p \in Page : p # h => (ConvBy(c, p)' <=> ConvBy(c, p))
  BY <1>1, <1>5 DEF ConvBy, Busy
<1>9. \A p \in Page : p # h => (Converting(p)' <=> Converting(p))
  BY <1>6, <1>7, <1>8, ConvStays
<1>10. Converting(h)'
  <2>1. ConvBy(c, h)'
    BY <1>1, <1>5, <1>6 DEF ConvBy, Busy
  <2>2. QED
    BY <2>1, ThenConverts
<1>11. ~Converting(h)
  <2>1. ~ConvBy(c, h)
    BY <1>1 DEF ConvBy, Busy
  <2>2. QED
    BY <1>h, <1>1, <2>1, ConvMine, Conversions DEF Working
<1>12. \A n \in Held : info'[n] = info[n]
  BY <1>2, <1>4, HeldFacts
<1>13. QED
  BY <1>1, <1>3, <1>9, <1>10, <1>11, <1>12, MoveView

(* A mapping that c works on and converts no more after the step.          *)
LEMMA LeavesBuffer ==
    ASSUME TypeOK, MemInv, NEW c \in Context, NEW h, pc[c] \in Busy, info[arg[c]].kind = "Common",
           info[arg[c]].crypted = h, pc'[c] \notin Busy,
           \A d \in Context : d # c => pc'[d] = pc[d] /\ arg'[d] = arg[d],
           \A n \in Mapping : n # arg[c] => info'[n] = info[n]
    PROVE  /\ Converting(h) /\ ~Converting(h)'
           /\ \A p \in Page : p # h => (Converting(p)' <=> Converting(p))
<1>1. ConvBy(c, h) /\ ~ConvBy(c, h)' /\ \A p : p # h => ~ConvBy(c, p) /\ ~ConvBy(c, p)'
  BY DEF ConvBy
<1>2. \A d \in Context : d # c /\ pc[d] \in Busy => info'[arg[d]] = info[arg[d]]
  <2>1. \A d \in Context : pc[d] \in Busy => arg[d] \in Live(d) /\ arg[d] \in Mapping
    BY AtWorkFacts DEF Busy, Working, MemInv
  <2>2. \A d \in Context : d # c => arg[c] \notin Live(d)
    BY AtWorkFacts DEF Busy, Working, MemInv
  <2>3. QED
    BY <2>1, <2>2
<1>3. \A p \in Page : p # h => (Converting(p)' <=> Converting(p))
  BY <1>1, <1>2, ConvStays
<1>4. \A d \in Context : d # c => ~ConvBy(d, h)
  BY ConvMine DEF Busy, Working
<1>5. \A d \in Context : d # c => ~ConvBy(d, h)'
  BY <1>2, <1>4 DEF ConvBy
<1>6. QED
  BY <1>1, <1>3, <1>5, Conversions, ThenConverts

LEMMA MapCopyView ==
    ASSUME TypeOK, MemInv, NEW c \in Context, MapCopy(c)
    PROVE  SameView
<1> DEFINE m == arg[c]
<1>h. PICK h : h = info[m].crypted
  OBVIOUS
<1>q. PICK q : q = info[m].plain
  OBVIOUS
<1>1. /\ At(c, "copy")
      /\ content' = CASE info[m].kind = "Read"   -> [content EXCEPT ![q] = content[h]]
                      [] info[m].kind = "Common" -> [content EXCEPT ![q] = content[stashOf[h]]]
                      [] info[m].kind = "Write"  -> content
      /\ Goto(c, "link")
      /\ UNCHANGED <<use, shared, stashOf, buffers, info, inPool, held, arg, node, raced, lost,
                       exitVars>>
  BY <1>h, <1>q, Zenon DEF MapCopy
<1>2. /\ pc[c] = "copy" /\ use' = use /\ stashOf' = stashOf /\ info' = info /\ held' = held
      /\ arg' = arg /\ pc' = [pc EXCEPT ![c] = "link"]
  BY <1>1 DEF At, Goto
<1>3. pc'[c] = "link" /\ \A d \in Context : d # c => pc'[d] = pc[d]
  BY <1>2 DEF TypeOK
<1>4. m \in Plain(c) /\ m \notin Held /\ info[m].kind \in Kind /\ q \in Page
      /\ (info[m].kind = "Common" => q = h)
  BY <1>h, <1>q, <1>2, WorkIsPlain, WorkApart, PlainPages DEF Given, Working
<1>5. CASE info[m].kind = "Common"
  <2>1. content' = [content EXCEPT ![h] = content[stashOf[h]]]
    BY <1>1, <1>4, <1>5
  <2>2. h \in buffers /\ \A n \in Held : info[n].plain # h
    BY <1>h, <1>2, <1>5, WorkUnseen DEF Working
  <2>3. /\ Converting(h) /\ ~Converting(h)'
        /\ \A p \in Page : p # h => (Converting(p)' <=> Converting(p))
    BY <1>h, <1>2, <1>3, <1>5, LeavesBuffer DEF Busy
  <2>4. QED
    BY <1>2, <2>1, <2>2, <2>3, MoveView
<1>6. CASE info[m].kind # "Common"
  <2>1. \A p \in Page : ConvBy(c, p)' <=> ConvBy(c, p)
    BY <1>2, <1>6 DEF ConvBy
  <2>2. \A p \in Page : Converting(p)' <=> Converting(p)
    BY <1>2, <1>3, <2>1, ConvStays
  <2>3. use[q] = "bounce"
    BY <1>q, <1>4, <1>6 DEF MemInv, InfoInv
  <2>4. \A n \in Held : info[n].plain \in Page /\ info[n].plain # q
    BY <1>q, <1>4, HeldFacts, HeldApart
  <2>5. \A p \in Page : Visible(p) => /\ Converting(p) => stashOf[p] \in Page /\ stashOf[p] # q
                                      /\ ~Converting(p) => p # q
    BY <2>3, ConvPages DEF Visible
  <2>6. \A p \in Page : Visible(p)' <=> Visible(p)
    BY <1>2 DEF Visible
  <2>7. CASE info[m].kind = "Read"
    <3>1. content' = [content EXCEPT ![q] = content[h]]
      BY <1>1, <2>7
    <3>2. QED
      BY <1>2, <1>4, <2>2, <2>4, <2>5, <2>6, <3>1, WriteView
  <2>8. CASE info[m].kind = "Write"
    <3>1. content' = content
      BY <1>1, <2>8
    <3>2. QED
      BY <1>2, <2>2, <2>6, <3>1, QuietView
  <2>9. QED
    BY <1>4, <1>6, <2>7, <2>8 DEF Kind
<1>7. QED
  BY <1>5, <1>6

LEMMA UnmapRestoreView ==
    ASSUME TypeOK, MemInv, NEW c \in Context, UnmapRestore(c)
    PROVE  SameView
<1> DEFINE m == arg[c]
<1>h. PICK h : h = info[m].crypted
  OBVIOUS
<1>q. PICK q : q = info[m].plain
  OBVIOUS
<1>1. /\ At(c, "restore")
      /\ content' = CASE info[m].kind = "Common" -> [content EXCEPT ![h] = content[stashOf[h]]]
                      [] OTHER -> [content EXCEPT ![q] = IF MemoryMapLocked THEN Zero ELSE Junk]
      /\ use' = IF info[m].kind = "Common" \/ MemoryMapLocked THEN use
                ELSE [use EXCEPT ![q] = "free"]
      /\ Goto(c, "unlink") /\ UNCHANGED <<stashOf, mapVars, arg>>
  BY <1>h, <1>q, Zenon DEF UnmapRestore
<1>2. pc[c] = "restore" /\ stashOf' = stashOf /\ held' = held /\ info' = info /\ arg' = arg
  BY <1>1 DEF At, mapVars
<1>3. pc'[c] = "unlink" /\ \A d \in Context : d # c => pc'[d] = pc[d] /\ arg'[d] = arg[d]
  BY <1>1, <1>2 DEF Goto, TypeOK
<1>4. m \in Plain(c) /\ m \notin Held /\ info[m].kind \in Kind /\ q \in Page
  BY <1>q, <1>2, WorkIsPlain, WorkApart, PlainPages DEF Given, Working
<1>5. \A n \in Held : info'[n] = info[n]
  BY <1>2
<1>6. CASE info[m].kind = "Common"
  <2>1. content' = [content EXCEPT ![h] = content[stashOf[h]]] /\ use' = use
    BY <1>1, <1>6
  <2>2. h \in buffers /\ \A n \in Held : info[n].plain # h
    BY <1>h, <1>2, <1>6, WorkUnseen DEF Working
  <2>3. /\ Converting(h) /\ ~Converting(h)'
        /\ \A p \in Page : p # h => (Converting(p)' <=> Converting(p))
    BY <1>h, <1>2, <1>3, <1>6, LeavesBuffer DEF Busy
  <2>4. QED
    BY <1>2, <1>5, <2>1, <2>2, <2>3, MoveView
<1>7. CASE info[m].kind # "Common"
  <2>1. \A p \in Page : ~ConvBy(c, p)' /\ ~ConvBy(c, p)
    BY <1>3, <1>7 DEF ConvBy, Busy
  <2>2. \A d \in Context : d # c /\ pc[d] \in Busy => info'[arg[d]] = info[arg[d]]
    BY <1>2
  <2>3. \A p \in Page : Converting(p)' <=> Converting(p)
    BY <1>3, <2>1, <2>2, ConvStays
  <2>4. use[q] = "bounce"
    BY <1>q, <1>4, <1>7 DEF MemInv, InfoInv
  <2>5. \A n \in Held : info[n].plain \in Page /\ info[n].plain # q
    BY <1>q, <1>4, HeldFacts, HeldApart
  <2>6. \A p \in Page : Visible(p) => /\ Converting(p) => stashOf[p] \in Page /\ stashOf[p] # q
                                      /\ ~Converting(p) => p # q
    BY <2>4, ConvPages DEF Visible
  <2>7. \A p \in Page : Visible(p)' <=> Visible(p)
    <3>1. use' = use \/ use' = [use EXCEPT ![q] = "free"]
      BY <1>1
    <3>2. QED
      BY <2>4, <3>1 DEF Visible, TypeOK
  <2>8. PICK v : content' = [content EXCEPT ![q] = v]
    BY <1>1, <1>7
  <2>9. QED
    BY <1>2, <1>4, <1>5, <2>3, <2>5, <2>6, <2>7, <2>8, WriteView
<1>8. QED
  BY <1>6, <1>7

(* The steps that the driver and the device see.                           *)
LEMMA BufIs ==
    ASSUME NEW p
    PROVE  /\ Visible(p) => BufAt(p) = Cell(p)
           /\ ~Visible(p) => BufAt(p) = "none"
  BY DEF BufAt, Cell, Visible

LEMMA BufThen ==
    ASSUME NEW p
    PROVE  /\ Visible(p)' => BufAt(p)' = Cell(p)'
           /\ ~Visible(p)' => BufAt(p)' = "none"
  BY DEF BufAt, Cell, Visible

LEMMA SeenExcept ==
    ASSUME NEW h \in Page, NEW v, BufAt(h)' = v,
           \A p \in Page : p # h => BufAt(p)' = BufAt(p)
    PROVE  Seen' = [Seen EXCEPT ![h] = v]
<1>1. Seen' = [p \in Page |-> BufAt(p)']
  BY Zenon DEF Seen
<1>2. [Seen EXCEPT ![h] = v] = [p \in Page |-> IF p = h THEN v ELSE BufAt(p)]
  BY Zenon DEF Seen
<1>3. \A p \in Page : BufAt(p)' = IF p = h THEN v ELSE BufAt(p)
  OBVIOUS
<1>4. QED
  BY <1>1, <1>2, <1>3, Zenon

LEMMA WinExcept ==
    ASSUME NEW m \in Mapping, NEW w, WinAt(m)' = w,
           \A n \in Mapping : n # m => WinAt(n)' = WinAt(n)
    PROVE  Win' = [Win EXCEPT ![m] = w]
<1>1. Win' = [n \in Mapping |-> WinAt(n)']
  BY Zenon DEF Win
<1>2. [Win EXCEPT ![m] = w] = [n \in Mapping |-> IF n = m THEN w ELSE WinAt(n)]
  BY Zenon DEF Win
<1>3. \A n \in Mapping : WinAt(n)' = IF n = m THEN w ELSE WinAt(n)
  OBVIOUS
<1>4. QED
  BY <1>1, <1>2, <1>3, Zenon

LEMMA SeenAt == \A p \in Page : Seen[p] = BufAt(p)
  BY DEF Seen

LEMMA WinIs ==
    ASSUME TypeOK, NEW m \in Mapping
    PROVE  /\ m \in Held => /\ Win[m] # NoWindow
                            /\ Win[m] = [kind |-> info[m].kind, host |-> info[m].crypted,
                                         data |-> content[info[m].plain]]
           /\ m \notin Held => Win[m] = NoWindow
<1>1. Win[m] = WinAt(m)
  BY DEF Win
<1>2. ASSUME m \in Held PROVE WinAt(m) # NoWindow
  <2>1. WinAt(m) = [kind |-> info[m].kind, host |-> info[m].crypted,
                    data |-> content[info[m].plain]]
    BY <1>2 DEF WinAt
  <2>2. WinAt(m).kind = info[m].kind /\ NoWindow.kind = "none"
    BY <2>1 DEF NoWindow
  <2>3. info[m].kind # "none"
    BY InfoType DEF Kind
  <2>4. QED
    BY <2>2, <2>3
<1>3. QED
  BY <1>1, <1>2 DEF WinAt

LEMMA WinFields ==
    ASSUME TypeOK, NEW m \in Mapping, m \in Held
    PROVE  /\ Win[m].kind = info[m].kind /\ Win[m].host = info[m].crypted
           /\ Win[m].data = content[info[m].plain]
<1>1. Win[m] = [kind |-> info[m].kind, host |-> info[m].crypted, data |-> content[info[m].plain]]
  BY WinIs
<1>2. QED
  BY <1>1

(* The windows of a buffer.                                                *)
LEMMA HeldOfIs ==
    ASSUME TypeOK, MemInv, NEW h
    PROVE  HeldOf(h) = {m \in Held : info[m].crypted = h}
<1>1. \A m \in Mapping : Win[m] # NoWindow <=> m \in Held
  BY WinIs
<1>2. \A m \in Mapping : m \in Held => Win[m].host = info[m].crypted
  BY WinFields
<1>3. \A m \in Held : m \in Mapping
  BY HeldFacts
<1>4. QED
  BY <1>1, <1>2, <1>3 DEF HeldOf

(* A cell that the driver sees holds data.                                 *)
LEMMA CellHolds ==
    ASSUME TypeOK, MemInv, NEW p \in Page
    PROVE  Cell(p) \in Data \cup {Junk} /\ Cell(p) # "none"
<1>1. CASE Converting(p)
  <2>1. stashOf[p] \in Page
    BY <1>1, ConvPages
  <2>2. content[stashOf[p]] \in Data \cup {Junk}
    BY <2>1, PageHolds
  <2>3. QED
    BY <1>1, <2>2, CellIs, IoMmuAssumption
<1>2. CASE ~Converting(p)
  BY <1>2, PageHolds, CellIs, IoMmuAssumption
<1>3. QED
  BY <1>1, <1>2

(* When the driver in main calls, nobody converts.                         *)
LEMMA MainCalls ==
    ASSUME Calls("main") \/ At("main", "allocate"), NEW p
    PROVE  ~Converting(p)
  BY DEF Calls, At, Runs, Converting, Context

LEMMA AllocatePagesView ==
    ASSUME TypeOK, MemInv, AllocateBufferPages
    PROVE  \E h \in Page : DmaView!Alloc(h)
<1>1. PICK p \in Page :
         /\ use[p] = "free" /\ p + 1 \in Page /\ use[p + 1] = "free"
         /\ use' = [use EXCEPT ![p] = "header", ![p + 1] = "common"]
         /\ stashOf' = [stashOf EXCEPT ![p + 1] = arg["main"]]
  BY DEF AllocateBufferPages, Free
<1>2. /\ At("main", "allocate") /\ content' = content /\ held' = held /\ info' = info
      /\ pc' = [pc EXCEPT !["main"] = "idle"]
  BY DEF AllocateBufferPages, Return, Goto, mapVars
<1>3. PICK h \in Page : h = p + 1
  BY <1>1
<1>4. p # h
  BY <1>3 DEF Page
<1>5. /\ use[h] = "free" /\ use'[h] = "common" /\ use'[p] = "header"
      /\ \A q \in Page : q # h /\ q # p => use'[q] = use[q]
  BY <1>1, <1>3, <1>4 DEF TypeOK
<1>6. \A q \in Page : ~Converting(q)
  BY <1>2, MainCalls
<1>7. \A d \in Context : pc'[d] \notin Busy
  <2>1. pc["timer"] = "idle"
    BY <1>2 DEF At, Runs
  <2>2. QED
    BY <1>2, <2>1 DEF Context, TypeOK, Busy
<1>8. \A q \in Page : ~Converting(q)'
  BY <1>7, ThenConverts DEF ConvBy
<1>9. \A q \in Page : Cell(q)' = content[q] /\ Cell(q) = content[q]
  BY <1>2, <1>6, <1>8, CellIs, CellThen
<1>10. BufAt(h)' = content[h]
  BY <1>5, <1>9, BufThen DEF Visible
<1>11. \A q \in Page : q # h => BufAt(q)' = BufAt(q)
  <2>1. \A q \in Page : q # h => (Visible(q)' <=> Visible(q))
    BY <1>1, <1>5 DEF Visible
  <2>2. QED
    BY <1>9, <2>1, BufIs, BufThen
<1>12. Seen' = [Seen EXCEPT ![h] = content[h]]
  BY <1>10, <1>11, SeenExcept
<1>13. Win' = Win
  BY <1>2, WindowsStay
<1>14. Seen[h] = "none"
  BY <1>5, SeenAt, BufIs DEF Visible
<1>15. content[h] \in Data \cup {Junk}
  BY PageHolds
<1>16. DmaView!Alloc(h)
  BY <1>12, <1>13, <1>14, <1>15, AllocStep
<1>17. QED
  BY <1>16

LEMMA FreeBufferView ==
    ASSUME TypeOK, MemInv, NEW b \in Page, FreeBuffer(b)
    PROVE  DmaView!Free(b)
<1> DEFINE s == stashOf[b]
<1>1. /\ Calls("main") /\ b \in buffers /\ ~InUse(b)
      /\ use' = [use EXCEPT ![s] = "free", ![b - 1] = "free", ![b] = "free"]
      /\ content' = [content EXCEPT ![s] = Junk, ![b] = Junk]
      /\ held' = held /\ info' = info /\ pc' = pc /\ arg' = arg
  BY DEF FreeBuffer, mapVars, ctlVars
<1>2. /\ b - 1 \in Page /\ use[b - 1] = "header" /\ use[b] = "common"
      /\ s \in Page /\ use[s] = "stash"
  <2>1. b - 1 \in Page /\ use[b] = "common" /\ s \in Page /\ use[s] = "stash"
    BY <1>1 DEF MemInv, PageInv
  <2>2. (b - 1) + 1 = b
    BY DEF Page
  <2>3. QED
    BY <1>1, <2>1, <2>2 DEF MemInv, PageInv
<1>3. PICK a \in Page : a = b - 1 /\ use[a] = "header"
  BY <1>2
<1>4. /\ use'[b] = "free" /\ use'[a] = "free" /\ use'[s] = "free"
      /\ \A q \in Page : q # b /\ q # a /\ q # s => use'[q] = use[q]
  BY <1>1, <1>2, <1>3 DEF TypeOK
<1>5. \A q \in Page : q # b /\ q # s => content'[q] = content[q]
  BY <1>1, <1>2 DEF TypeOK
<1>6. \A q \in Page : ~Converting(q)
  BY <1>1, MainCalls
<1>7. \A q \in Page : ~Converting(q)'
  BY <1>1, <1>6, Conversions, ThenConverts DEF ConvBy
<1>8. BufAt(b)' = "none"
  BY <1>4, BufThen DEF Visible
<1>9. \A q \in Page : q # b => BufAt(q)' = BufAt(q)
  <2>1. ASSUME NEW q \in Page, q # b, Visible(q) PROVE BufAt(q)' = BufAt(q)
    <3>1. q # a /\ q # s
      BY <1>2, <1>3, <2>1 DEF Visible
    <3>2. Visible(q)' /\ content'[q] = content[q]
      BY <1>4, <1>5, <2>1, <3>1 DEF Visible
    <3>3. QED
      BY <1>6, <1>7, <2>1, <3>2, BufIs, BufThen, CellIs, CellThen
  <2>2. ASSUME NEW q \in Page, q # b, ~Visible(q) PROVE BufAt(q)' = BufAt(q)
    <3>1. ~Visible(q)'
      BY <1>4, <2>2 DEF Visible
    <3>2. QED
      BY <2>2, <3>1, BufIs, BufThen
  <2>3. QED
    BY <2>1, <2>2
<1>10. Seen' = [Seen EXCEPT ![b] = "none"]
  BY <1>8, <1>9, SeenExcept
<1>11. \A m \in Held : info[m].crypted # b
  BY <1>1, HeldIs DEF InUse
<1>12. \A m \in Held : info[m].plain \in Page /\ info[m].plain # b /\ info[m].plain # s
  BY <1>2, <1>11, HeldFacts
<1>13. Win' = Win
  BY <1>1, <1>5, <1>12, WindowsStay
<1>14. HeldOf(b) = {}
  BY <1>11, HeldOfIs
<1>15. Seen[b] # "none"
  BY <1>2, SeenAt, BufIs, CellHolds DEF Visible
<1>16. QED
  BY <1>10, <1>13, <1>14, <1>15, FreeStep

LEMMA MapReturnView ==
    ASSUME TypeOK, MemInv, CopyInv, NEW c \in Context, MapReturn(c)
    PROVE  \E m \in Mapping, kind \in Kind, h \in Page : DmaView!Map(m, kind, h)
<1>m. PICK m : m = arg[c]
  OBVIOUS
<1>1. /\ pc[c] = "hook" /\ pc' = [pc EXCEPT ![c] = "idle"] /\ arg' = [arg EXCEPT ![c] = NoPage]
      /\ held' = [held EXCEPT ![c] = @ \cup {m}]
      /\ use' = use /\ content' = content /\ stashOf' = stashOf /\ info' = info
  BY <1>m DEF MapReturn, At, Return, Goto, memVars
<1>2. m \in Plain(c) /\ m \in Live(c) /\ m \in Mapping /\ m \notin Held
  BY <1>m, <1>1, WorkIsPlain, WorkApart, AtWorkFacts DEF Given, Working, MemInv
<1>3. PICK h \in Page, kind \in Kind, q \in Page :
         h = info[m].crypted /\ kind = info[m].kind /\ q = info[m].plain
  BY <1>2, PlainPages
<1>4. \A d \in Context : d # c => pc'[d] = pc[d] /\ arg'[d] = arg[d]
  BY <1>1 DEF TypeOK
<1>5. \A p \in Page : Converting(p)' <=> Converting(p)
  <2>1. pc[c] \notin Busy /\ pc'[c] \notin Busy
    BY <1>1 DEF Busy, TypeOK
  <2>2. \A p \in Page : ConvBy(c, p)' <=> ConvBy(c, p)
    BY <2>1, IdleConverts
  <2>3. QED
    BY <1>1, <1>4, <2>2, ConvStays
<1>6. Seen' = Seen
  <2>1. \A p \in Page : Cell(p)' = Cell(p)
    BY <1>1, <1>5, CellIs, CellThen
  <2>2. \A p \in Page : Visible(p)' <=> Visible(p)
    BY <1>1 DEF Visible
  <2>3. QED
    BY <2>1, <2>2, Unseen
<1>7. Held' = Held \cup {m}
  <2>1. \A n : n \in Held' <=> \E d \in Context : n \in held'[d]
    BY DEF Held, Context
  <2>2. \A d \in Context : held'[d] = IF d = c THEN held[c] \cup {m} ELSE held[d]
    BY <1>1 DEF TypeOK
  <2>3. QED
    BY <2>1, <2>2, HeldIs
<1>8. Win' = [Win EXCEPT ![m] = [kind |-> kind, host |-> h, data |-> content[q]]]
  <2>1. WinAt(m)' = [kind |-> kind, host |-> h, data |-> content[q]]
    BY <1>1, <1>3, <1>7 DEF WinAt
  <2>2. \A n \in Mapping : n # m => WinAt(n)' = WinAt(n)
    BY <1>1, <1>7 DEF WinAt, NoWindow
  <2>3. QED
    BY <1>2, <2>1, <2>2, WinExcept
<1>9. Win[m] = NoWindow
  BY <1>2, WinIs
<1>10. Visible(h)
  BY <1>2, <1>3 DEF MemInv, InfoInv, PageInv, Visible
<1>11. ~Converting(h)
  <2>1. \A d \in Context : pc[d] \in Busy => arg[d] # m
    <3>1. \A d \in Context : pc[d] \in Busy => arg[d] \in Live(d)
      BY AtWorkFacts DEF Busy, Working, MemInv
    <3>2. \A d \in Context : d # c => m \notin Live(d)
      BY <1>m, <1>1, WorkApart DEF Working
    <3>3. QED
      BY <1>1, <3>1, <3>2 DEF Busy
  <2>2. QED
    BY <1>2, <1>3, <2>1, NotConverting
<1>12. Seen[h] = content[h]
  BY <1>10, <1>11, SeenAt, BufIs, CellIs
<1>13. kind # "Write" => content[q] = Seen[h]
  <2>1. kind = "Common" => q = h
    BY <1>2, <1>3 DEF MemInv, InfoInv
  <2>2. kind = "Read" => content[q] = content[h]
    BY <1>m, <1>1, <1>3 DEF CopyInv, Copied
  <2>3. QED
    BY <1>3, <1>12, <2>1, <2>2 DEF Kind
<1>14. Seen[h] # "none" /\ content[q] \in Data \cup {Junk}
  BY <1>10, <1>3, SeenAt, BufIs, CellHolds, PageHolds
<1>15. DmaView!Map(m, kind, h)
  BY <1>2, <1>6, <1>8, <1>9, <1>13, <1>14, MapStep
<1>16. QED
  BY <1>2, <1>15

LEMMA UnmapStartView ==
    ASSUME TypeOK, MemInv, NEW c \in Context, NEW m \in Held, UnmapStart(c, m),
           pc[c] \in {"idle", "walk"}
    PROVE  DmaView!Unmap(m)
<1>1. PICK h \in Page, kind \in Kind, q \in Page :
         h = info[m].crypted /\ kind = info[m].kind /\ q = info[m].plain
  BY HeldFacts
<1>2. /\ content' = CASE kind = "Read"   -> content
                      [] kind = "Write"  -> [content EXCEPT ![h] = content[q]]
                      [] kind = "Common" -> [content EXCEPT ![stashOf[q]] = content[q]]
      /\ arg' = [arg EXCEPT ![c] = m]
      /\ held' = [d \in Context |-> held[d] \ {m}]
      /\ Goto(c, "encrypt")
      /\ UNCHANGED <<use, shared, stashOf, buffers, info, inPool, list, exitVars>>
  BY <1>1, Zenon DEF UnmapStart
<1>3. use' = use /\ stashOf' = stashOf /\ info' = info
  BY <1>2
<1>4. /\ pc'[c] = "encrypt" /\ arg'[c] = m
      /\ \A d \in Context : d # c => pc'[d] = pc[d] /\ arg'[d] = arg[d]
  BY <1>2 DEF Goto, TypeOK
<1>5. Held' = Held \ {m}
  <2>1. \A n : n \in Held' <=> \E d \in Context : n \in held'[d]
    BY DEF Held, Context
  <2>2. \A d \in Context : held'[d] = held[d] \ {m}
    BY <1>2
  <2>3. QED
    BY <2>1, <2>2, HeldIs
<1>6. /\ m \in Mapping /\ use[q] \in {"bounce", "common"} /\ use[h] \in {"host", "common"}
      /\ ~Converting(h) /\ (kind = "Common" => q = h /\ h \in buffers)
      /\ (kind # "Common" => use[h] = "host" /\ use[q] = "bounce")
  BY <1>1, HeldFacts
<1>7. /\ Win[m] # NoWindow /\ Win[m].kind = kind /\ Win[m].host = h /\ Win[m].data = content[q]
  BY <1>1, <1>6, WinIs, WinFields
<1>8. kind = "Common" => /\ stashOf[h] \in Page /\ use[stashOf[h]] = "stash"
                         /\ \A p \in buffers : stashOf[p] = stashOf[h] => p = h
  BY <1>6 DEF MemInv, PageInv
<1>9. \A p \in Page : p # h \/ kind # "Common" => (Converting(p)' <=> Converting(p))
  <2>1. ~ (pc[c] \in Busy)
    BY DEF Busy
  <2>2. \A p \in Page : p # h \/ kind # "Common" => ~ConvBy(c, p)' /\ ~ConvBy(c, p)
    BY <1>1, <1>3, <1>4, <2>1 DEF ConvBy
  <2>3. QED
    BY <1>3, <1>4, <2>2, ConvStays
<1>10. kind = "Common" => Converting(h)'
  <2>1. kind = "Common" => ConvBy(c, h)'
    BY <1>1, <1>3, <1>4 DEF ConvBy, Busy
  <2>2. QED
    BY <2>1, ThenConverts
<1>11. \A p \in Page : use[p] \in {"bounce", "common"} => content'[p] = content[p]
  <2>1. CASE kind = "Read"
    BY <1>2, <2>1
  <2>2. CASE kind = "Write"
    <3>1. content' = [content EXCEPT ![h] = content[q]]
      BY <1>2, <2>2
    <3>2. QED
      BY <1>6, <2>2, <3>1 DEF TypeOK
  <2>3. CASE kind = "Common"
    <3>1. content' = [content EXCEPT ![stashOf[h]] = content[q]]
      BY <1>2, <1>6, <2>3
    <3>2. QED
      BY <1>8, <2>3, <3>1 DEF TypeOK
  <2>4. QED
    BY <2>1, <2>2, <2>3 DEF Kind
<1>12. Win' = [Win EXCEPT ![m] = NoWindow]
  <2>1. WinAt(m)' = NoWindow
    BY <1>5 DEF WinAt, NoWindow
  <2>2. ASSUME NEW n \in Mapping, n # m PROVE WinAt(n)' = WinAt(n)
    <3>1. n \in Held => content'[info[n].plain] = content[info[n].plain]
      BY <1>11, HeldFacts
    <3>2. n \in Held' <=> n \in Held
      BY <1>5, <2>2
    <3>3. QED
      BY <1>3, <3>1, <3>2 DEF WinAt, NoWindow
  <2>3. QED
    BY <1>6, <2>1, <2>2, WinExcept
<1>13. \A p \in Page : Visible(p)' <=> Visible(p)
  BY <1>3 DEF Visible
<1>14. Visible(h)
  BY <1>6 DEF Visible
<1>15. CASE kind = "Read"
  <2>1. content' = content
    BY <1>2, <1>15
  <2>2. \A p \in Page : Cell(p)' = Cell(p)
    BY <1>3, <1>9, <1>15, <2>1, CellIs, CellThen
  <2>3. Seen' = Seen
    BY <1>13, <2>2, Unseen
  <2>4. QED
    BY <1>6, <1>7, <1>12, <1>15, <2>3, UnmapStep
<1>16. ASSUME kind # "Read",
              BufAt(h)' = content[q], \A p \in Page : p # h => BufAt(p)' = BufAt(p)
       PROVE  DmaView!Unmap(m)
  <2>1. Seen' = [Seen EXCEPT ![h] = content[q]]
    BY <1>16, SeenExcept
  <2>2. Seen' = IF Win[m].kind = "Read" THEN Seen ELSE [Seen EXCEPT ![Win[m].host] = Win[m].data]
    BY <1>7, <1>16, <2>1
  <2>3. QED
    BY <1>6, <1>7, <1>12, <2>2, UnmapStep
<1>17. CASE kind = "Write"
  <2>1. content' = [content EXCEPT ![h] = content[q]]
    BY <1>2, <1>17
  <2>2. content'[h] = content[q] /\ \A p \in Page : p # h => content'[p] = content[p]
    BY <2>1 DEF TypeOK
  <2>3. ~Converting(h)'
    BY <1>6, <1>9, <1>17
  <2>4. BufAt(h)' = content[q]
    BY <1>13, <1>14, <2>2, <2>3, BufThen, CellThen
  <2>5. ASSUME NEW p \in Page, p # h, Visible(p) PROVE Cell(p)' = Cell(p)
    <3>1. CASE Converting(p)
      <4>1. stashOf[p] \in Page /\ use[stashOf[p]] = "stash"
        BY <3>1, ConvPages
      <4>2. stashOf[p] # h
        BY <1>6, <4>1
      <4>3. QED
        BY <1>3, <1>9, <2>2, <2>5, <3>1, <4>1, <4>2, CellIs, CellThen
    <3>2. CASE ~Converting(p)
      BY <1>3, <1>9, <2>2, <2>5, <3>2, CellIs, CellThen
    <3>3. QED
      BY <3>1, <3>2
  <2>6. \A p \in Page : p # h => BufAt(p)' = BufAt(p)
    BY <1>13, <2>5, BufIs, BufThen
  <2>7. QED
    BY <1>16, <1>17, <2>4, <2>6
<1>18. CASE kind = "Common"
  <2>1. content' = [content EXCEPT ![stashOf[h]] = content[q]]
    BY <1>2, <1>6, <1>18
  <2>2. /\ content'[stashOf[h]] = content[q]
        /\ \A p \in Page : p # stashOf[h] => content'[p] = content[p]
    BY <1>8, <1>18, <2>1 DEF TypeOK
  <2>3. BufAt(h)' = content[q]
    BY <1>3, <1>10, <1>13, <1>14, <1>18, <2>2, BufThen, CellThen
  <2>4. ASSUME NEW p \in Page, p # h, Visible(p) PROVE Cell(p)' = Cell(p)
    <3>1. CASE Converting(p)
      <4>1. p \in buffers /\ stashOf[p] \in Page
        BY <3>1, ConvPages
      <4>2. stashOf[p] # stashOf[h]
        BY <1>8, <1>18, <2>4, <4>1
      <4>3. QED
        BY <1>3, <1>9, <2>2, <2>4, <3>1, <4>1, <4>2, CellIs, CellThen
    <3>2. CASE ~Converting(p)
      <4>1. p # stashOf[h]
        BY <1>8, <1>18, <2>4 DEF Visible
      <4>2. QED
        BY <1>3, <1>9, <2>2, <2>4, <3>2, <4>1, CellIs, CellThen
    <3>3. QED
      BY <3>1, <3>2
  <2>5. \A p \in Page : p # h => BufAt(p)' = BufAt(p)
    BY <1>13, <2>4, BufIs, BufThen
  <2>6. QED
    BY <1>16, <1>18, <2>3, <2>5
<1>19. QED
  BY <1>15, <1>17, <1>18 DEF Kind

LEMMA DriverWriteView ==
    ASSUME TypeOK, MemInv, NEW c \in Context, NEW h \in Page, NEW v \in Data,
           DriverWrite(c, h, v)
    PROVE  DmaView!DriverWrite(h, v)
<1>1. /\ Calls(c) /\ content' = [content EXCEPT ![h] = v]
      /\ use' = use /\ stashOf' = stashOf /\ info' = info /\ held' = held
      /\ pc' = pc /\ arg' = arg
  BY DEF DriverWrite, mapVars, ctlVars
<1>2. \/ use[h] = "host" /\ \A m \in Held : info[m].crypted # h
      \/ use[h] = "common" /\ \A p : ~Converting(p)
  <2>1. CASE h = HostPage[c] /\ ~InUse(h)
    BY <2>1, HeldIs DEF InUse, MemInv, PageInv
  <2>2. CASE c = "main" /\ h \in buffers
    BY <1>1, <2>2, MainCalls DEF MemInv, PageInv
  <2>3. QED
    BY <2>1, <2>2 DEF DriverWrite
<1>3. content'[h] = v /\ \A p \in Page : p # h => content'[p] = content[p]
  BY <1>1 DEF TypeOK
<1>4. \A p : Converting(p)' <=> Converting(p)
  BY <1>1, Conversions, ThenConverts DEF ConvBy
<1>5. Visible(h) /\ ~Converting(h) /\ \A p \in Page : Visible(p)' <=> Visible(p)
  BY <1>1, <1>2, ConvPages DEF Visible
<1>6. BufAt(h)' = v
  BY <1>3, <1>4, <1>5, BufThen, CellThen
<1>7. ASSUME NEW p \in Page, p # h, Visible(p) PROVE Cell(p)' = Cell(p)
  <2>1. CASE Converting(p)
    <3>1. stashOf[p] \in Page /\ stashOf[p] # h
      BY <1>2, <2>1, ConvPages
    <3>2. QED
      BY <1>1, <1>3, <1>4, <2>1, <3>1, CellIs, CellThen
  <2>2. CASE ~Converting(p)
    BY <1>3, <1>4, <1>7, <2>2, CellIs, CellThen
  <2>3. QED
    BY <2>1, <2>2
<1>8. Seen' = [Seen EXCEPT ![h] = v]
  <2>1. \A p \in Page : p # h => BufAt(p)' = BufAt(p)
    BY <1>5, <1>7, BufIs, BufThen
  <2>2. QED
    BY <1>6, <2>1, SeenExcept
<1>9. HeldOf(h) = {m \in Held : info[m].crypted = h}
  BY HeldOfIs
<1>10. \A m \in HeldOf(h) : m \in Mapping /\ info[m].kind = "Common" /\ info[m].plain = h
  BY <1>2, <1>9, HeldFacts
<1>11. \A m \in HeldOf(h) : Win[m].kind = "Common"
  BY <1>9, <1>10, WinFields
<1>12. Win' = [m \in Mapping |-> IF m \in HeldOf(h) THEN [Win[m] EXCEPT !.data = v] ELSE Win[m]]
  <2>1. Held' = Held
    BY <1>1 DEF Held
  <2>2. ASSUME NEW m \in Mapping, m \in HeldOf(h) PROVE WinAt(m)' = [Win[m] EXCEPT !.data = v]
    <3>1. WinAt(m)' = [kind |-> info[m].kind, host |-> info[m].crypted, data |-> v]
      BY <1>1, <1>3, <1>9, <1>10, <2>1, <2>2 DEF WinAt
    <3>2. Win[m] = [kind |-> info[m].kind, host |-> info[m].crypted,
                    data |-> content[info[m].plain]]
      BY <1>9, <2>2, WinIs
    <3>3. QED
      BY <3>1, <3>2
  <2>3. ASSUME NEW m \in Mapping, m \notin HeldOf(h) PROVE WinAt(m)' = Win[m]
    <3>1. m \in Held => info[m].plain \in Page /\ info[m].plain # h
      <4>1. m \in Held => info[m].crypted # h
        BY <1>9, <2>3
      <4>2. QED
        BY <1>2, <4>1, HeldFacts
    <3>2. WinAt(m)' = WinAt(m)
      BY <1>1, <1>3, <2>1, <3>1 DEF WinAt, NoWindow
    <3>3. QED
      BY <3>2 DEF Win
  <2>4. Win' = [m \in Mapping |-> WinAt(m)']
    BY Zenon DEF Win
  <2>5. \A m \in Mapping :
           WinAt(m)' = IF m \in HeldOf(h) THEN [Win[m] EXCEPT !.data = v] ELSE Win[m]
    BY <2>2, <2>3
  <2>6. QED
    BY <2>4, <2>5, Zenon
<1>13. Seen[h] # "none"
  BY <1>5, SeenAt, BufIs, CellHolds
<1>14. QED
  BY <1>8, <1>11, <1>12, <1>13, DriverStep

LEMMA DeviceWriteView ==
    ASSUME TypeOK, MemInv, NEW c \in Context, NEW m \in Mapping, NEW v \in Data,
           DeviceWrite(c, m, v)
    PROVE  DmaView!DeviceWrite(m, v)
<1>1. m \in Held
  BY HeldIs DEF DeviceWrite
<1>2. PICK h \in Page, kind \in Kind, q \in Page :
         h = info[m].crypted /\ kind = info[m].kind /\ q = info[m].plain
  BY <1>1, HeldFacts
<1>3. /\ kind # "Read" /\ content' = [content EXCEPT ![q] = v]
      /\ use' = use /\ stashOf' = stashOf /\ info' = info /\ held' = held
      /\ pc' = pc /\ arg' = arg
  BY <1>2 DEF DeviceWrite, mapVars, ctlVars
<1>4. /\ use[q] \in {"bounce", "common"} /\ use[h] \in {"host", "common"} /\ ~Converting(h)
      /\ (kind = "Common" => q = h) /\ (kind # "Common" => use[q] = "bounce")
  BY <1>1, <1>2, HeldFacts
<1>5. content'[q] = v /\ \A p \in Page : p # q => content'[p] = content[p]
  BY <1>3 DEF TypeOK
<1>6. \A p : Converting(p)' <=> Converting(p)
  BY <1>3, Conversions, ThenConverts DEF ConvBy
<1>7. \A p \in Page : Visible(p)' <=> Visible(p)
  BY <1>3 DEF Visible
<1>8. ASSUME NEW p \in Page, Visible(p), p # q PROVE Cell(p)' = Cell(p)
  <2>1. CASE Converting(p)
    <3>1. stashOf[p] \in Page /\ stashOf[p] # q
      BY <1>4, <2>1, ConvPages
    <3>2. QED
      BY <1>3, <1>5, <1>6, <2>1, <3>1, CellIs, CellThen
  <2>2. CASE ~Converting(p)
    BY <1>5, <1>6, <1>8, <2>2, CellIs, CellThen
  <2>3. QED
    BY <2>1, <2>2
<1>9. Win[m] # NoWindow /\ Win[m].kind = kind /\ Win[m].host = h
  BY <1>1, <1>2, WinIs, WinFields
<1>10. Seen' = IF Win[m].kind = "Common" THEN [Seen EXCEPT ![Win[m].host] = v] ELSE Seen
  <2>1. CASE kind = "Common"
    <3>1. BufAt(h)' = v
      BY <1>4, <1>5, <1>6, <1>7, <2>1, BufThen, CellThen DEF Visible
    <3>2. \A p \in Page : p # h => BufAt(p)' = BufAt(p)
      BY <1>4, <1>7, <1>8, <2>1, BufIs, BufThen
    <3>3. Seen' = [Seen EXCEPT ![h] = v]
      BY <3>1, <3>2, SeenExcept
    <3>4. QED
      BY <1>9, <2>1, <3>3
  <2>2. CASE kind # "Common"
    <3>1. \A p \in Page : Visible(p) => Cell(p)' = Cell(p)
      BY <1>4, <1>8, <2>2 DEF Visible
    <3>2. Seen' = Seen
      BY <1>7, <3>1, Unseen
    <3>3. QED
      BY <1>9, <2>2, <3>2
  <2>3. QED
    BY <2>1, <2>2
<1>11. Win' = [Win EXCEPT ![m].data = v]
  <2>1. Held' = Held
    BY <1>3 DEF Held
  <2>2. WinAt(m)' = [Win[m] EXCEPT !.data = v]
    <3>1. WinAt(m)' = [kind |-> kind, host |-> h, data |-> v]
      BY <1>1, <1>2, <1>3, <1>5, <2>1 DEF WinAt
    <3>2. Win[m] = [kind |-> info[m].kind, host |-> info[m].crypted,
                    data |-> content[info[m].plain]]
      BY <1>1, WinIs
    <3>3. QED
      BY <1>2, <3>1, <3>2
  <2>3. ASSUME NEW n \in Mapping, n # m PROVE WinAt(n)' = WinAt(n)
    <3>1. n \in Held => info[n].plain \in Page /\ info[n].plain # q
      <4>1. PICK e \in Context : m \in Plain(e)
        BY <1>1, HeldFacts
      <4>2. n \in Held => info[n].plain # info[m].plain
        BY <2>3, <4>1, HeldApart
      <4>3. QED
        BY <1>2, <4>2, HeldFacts
    <3>2. QED
      BY <1>3, <1>5, <2>1, <3>1 DEF WinAt, NoWindow
  <2>4. PICK w : w = [Win[m] EXCEPT !.data = v]
    OBVIOUS
  <2>5. Win' = [Win EXCEPT ![m] = w]
    BY <2>2, <2>3, <2>4, WinExcept
  <2>6. QED
    BY <2>4, <2>5
<1>12. QED
  BY <1>3, <1>9, <1>10, <1>11, DeviceStep

(* The steps of ExitBootServices but for the rounds of the tear-down.      *)
LEMMA ExitView ==
    ASSUME TypeOK, \/ ExitBootServices \/ IoMmuExitBoot \/ IoMmuUnmapAllMappings
                   \/ UnmapAllDone \/ ExitReturns \/ UNCHANGED vars
                   \/ \E c \in Context : HaltDevice(c)
    PROVE  SameView
<1>1. use' = use /\ content' = content /\ stashOf' = stashOf /\ info' = info /\ held' = held
  BY DEF ExitBootServices, IoMmuExitBoot, IoMmuUnmapAllMappings, UnmapAllDone, ExitReturns,
         HaltDevice, vars, memVars, mapVars
<1>2. \/ pc' = pc /\ arg' = arg
      \/ /\ pc["main"] \in {"idle", "walk"}
         /\ pc'["main"] \in {"idle", "walk"}
         /\ \A d \in Context : d # "main" => pc'[d] = pc[d] /\ arg'[d] = arg[d]
  <2>1. CASE IoMmuUnmapAllMappings \/ UnmapAllDone
    BY <2>1 DEF IoMmuUnmapAllMappings, UnmapAllDone, Dispatch, At, Return, Goto, TypeOK, Context
  <2>2. CASE ~(IoMmuUnmapAllMappings \/ UnmapAllDone)
    BY <2>2 DEF ExitBootServices, IoMmuExitBoot, ExitReturns, HaltDevice, vars, ctlVars
  <2>3. QED
    BY <2>1, <2>2
<1>3. \A p \in Page : Converting(p)' <=> Converting(p)
  <2>1. CASE pc' = pc /\ arg' = arg
    BY <1>1, <2>1, Conversions, ThenConverts DEF ConvBy
  <2>2. CASE ~(pc' = pc /\ arg' = arg)
    <3>1. "main" \in Context /\ pc["main"] \notin Busy /\ pc'["main"] \notin Busy
      BY <1>2, <2>2 DEF Busy, Context
    <3>2. \A p \in Page : ConvBy("main", p)' <=> ConvBy("main", p)
      BY <3>1, IdleConverts
    <3>3. QED
      BY <1>1, <1>2, <2>2, <3>1, <3>2, ConvStays
  <2>3. QED
    BY <2>1, <2>2
<1>4. \A p \in Page : Visible(p)' <=> Visible(p)
  BY <1>1 DEF Visible
<1>5. QED
  BY <1>1, <1>3, <1>4, QuietView

(* The stores of the list operations, and what a dangling link stops.      *)
LEMMA LinksView ==
    ASSUME TypeOK, MemInv, NEW c \in Context, MapLink(c) \/ UnmapUnlink(c) \/ Dangles(c)
    PROVE  SameView
<1>1. /\ use' = use /\ content' = content /\ stashOf' = stashOf /\ info' = info /\ held' = held
      /\ arg' = arg
  BY DEF MapLink, UnmapUnlink, Dangles, memVars, mapVars
<1>2. \/ pc' = pc
      \/ /\ pc[c] \notin Busy /\ pc'[c] \notin Busy
         /\ \A d \in Context : d # c => pc'[d] = pc[d]
  BY DEF MapLink, UnmapUnlink, Dangles, At, Goto, Busy, TypeOK
<1>3. \A p \in Page : ConvBy(c, p)' <=> ConvBy(c, p)
  BY <1>1, <1>2 DEF ConvBy
<1>4. \A p \in Page : Converting(p)' <=> Converting(p)
  BY <1>1, <1>2, <1>3, ConvStays
<1>5. \A p \in Page : Visible(p)' <=> Visible(p)
  BY <1>1 DEF Visible
<1>6. QED
  BY <1>1, <1>4, <1>5, QuietView

LEMMA UnmapForgetView ==
    ASSUME TypeOK, MemInv, NEW c \in Context, UnmapForget(c)
    PROVE  SameView
<1> DEFINE m == arg[c]
<1>1. /\ pc[c] = "unhook" /\ pc'[c] \in {"walk", "idle"}
      /\ use' = use /\ content' = content /\ stashOf' = stashOf /\ held' = held
  BY DEF UnmapForget, At, Return, Goto, memVars, TypeOK
<1>2. m \in Mapping /\ m \notin Held /\ \A d \in Context : d # c => m \notin Live(d)
  BY <1>1, WorkApart DEF Working
<1>3. \A n \in Mapping : n # m => info'[n] = info[n]
  BY DEF UnmapForget, TypeOK
<1>4. \A d \in Context : d # c => pc'[d] = pc[d] /\ arg'[d] = arg[d]
  BY DEF UnmapForget, Return, Goto, TypeOK
<1>5. \A p \in Page : ConvBy(c, p)' <=> ConvBy(c, p)
  BY <1>1, IdleConverts DEF Busy
<1>6. \A p \in Page : Visible(p)' <=> Visible(p)
  BY <1>1 DEF Visible
<1>7. QED
  BY <1>1, <1>2, <1>3, <1>4, <1>5, <1>6, InfoView

LEMMA DmaStep ==
    ASSUME MapInv, CopyInv, [Next]_vars
    PROVE  [DmaView!Next]_(DmaView!dmavars)
<1>0. TypeOK /\ PcInv /\ MemInv
  BY DEF MapInv, ExitInv
<1>1. CASE AllocateBufferStash \/ AllocateBufferFails
  BY <1>0, <1>1, AllocateView, DmaSteps
<1>2. CASE AllocateBufferPages
  BY <1>0, <1>2, AllocatePagesView, DmaSteps
<1>3. CASE \E b \in Page : FreeBuffer(b)
  BY <1>0, <1>3, FreeBufferView, DmaSteps
<1>4. CASE \E c \in Context, h \in Page, d \in Data : DriverWrite(c, h, d)
  BY <1>0, <1>4, DriverWriteView, DmaSteps
<1>5. CASE \E c \in Context, m \in Mapping, d \in Data : DeviceWrite(c, m, d)
  BY <1>0, <1>5, DeviceWriteView, DmaSteps
<1>6. ASSUME NEW c \in Context, NEW m \in Held, UnmapStart(c, m), pc[c] \in {"idle", "walk"}
      PROVE  [DmaView!Next]_(DmaView!dmavars)
  <2>1. DmaView!Unmap(m) /\ m \in Mapping
    BY <1>0, <1>6, UnmapStartView, HeldFacts
  <2>2. QED
    BY <2>1, DmaSteps
<1>7. ASSUME NEW c \in Context, Protocol(c) PROVE [DmaView!Next]_(DmaView!dmavars)
  <2>1. CASE \E kind \in Kind, h \in Page : MapInfo(c, kind, h)
    BY <1>0, <2>1, MapInfoView, DmaSteps
  <2>2. CASE MapBounce(c)
    BY <1>0, <2>2, MapBounceView, DmaSteps
  <2>3. CASE MapCommon(c)
    BY <1>0, <2>3, MapCommonView, DmaSteps
  <2>4. CASE MapFails(c)
    BY <1>0, <2>4, MapFailsView, DmaSteps
  <2>5. CASE MapClear(c) \/ UnmapEncrypt(c)
    BY <1>0, <2>5, JunkView, DmaSteps
  <2>6. CASE MapCopy(c)
    BY <1>0, <2>6, MapCopyView, DmaSteps
  <2>7. CASE MapReturn(c)
    BY <1>0, <2>7, MapReturnView, DmaSteps
  <2>8. CASE Unmap(c)
    <3>1. pc[c] = "idle" /\ \E m \in held[c] : UnmapStart(c, m)
      BY <2>8, Zenon DEF Unmap, Calls
    <3>2. QED
      BY <1>6, <3>1, HeldIs
  <2>9. CASE UnmapRestore(c)
    BY <1>0, <2>9, UnmapRestoreView, DmaSteps
  <2>10. CASE MapLink(c) \/ UnmapUnlink(c) \/ Dangles(c)
    BY <1>0, <2>10, LinksView, DmaSteps
  <2>11. CASE UnmapForget(c)
    BY <1>0, <2>11, UnmapForgetView, DmaSteps
  <2>12. QED
    BY <1>7, <2>1, <2>2, <2>3, <2>4, <2>5, <2>6, <2>7, <2>8, <2>9, <2>10, <2>11 DEF Protocol
<1>8. CASE UnmapAllNode
  <2>1. pc["main"] = "walk" /\ node # ListHead /\ UnmapStart("main", node) /\ "main" \in Context
    BY <1>8, Zenon DEF UnmapAllNode, At, Context
  <2>2. \E e \in Context : node \in held[e]
    BY <1>0, <1>8, WalkHeld
  <2>3. QED
    BY <1>6, <2>1, <2>2, HeldIs
<1>9. CASE \/ ExitBootServices \/ IoMmuExitBoot \/ IoMmuUnmapAllMappings
           \/ UnmapAllDone \/ ExitReturns \/ UNCHANGED vars
           \/ \E c \in Context : HaltDevice(c)
  BY <1>0, <1>9, ExitView, DmaSteps
<1>10. QED
  BY <1>1, <1>2, <1>3, <1>4, <1>5, <1>7, <1>8, <1>9 DEF Next, Exit

LEMMA DmaInit == Init => DmaView!Init
<1> SUFFICES ASSUME Init PROVE DmaView!Init
  OBVIOUS
<1>0. TypeOK /\ MemInv
  BY InitType, InitMem
<1>1. \A p \in Page : BufAt(p) \in Data \cup {Junk} \cup {"none"}
  BY <1>0, BufIs, CellHolds
<1>2. Seen \in [Page -> Data \cup {Junk} \cup {"none"}]
  BY <1>1 DEF Seen
<1>3. Held = {}
  BY DEF Init, Held, Context
<1>4. Win = [m \in Mapping |-> NoWindow]
  BY <1>3 DEF Win, WinAt
<1>5. QED
  BY <1>2, <1>4, Zenon DEF DmaView!Init, DmaView!Contents, Seen, Win, BufAt, WinAt

\* For any memory and any number of mappings the protocol implements Dma: conversions, stash
\* and bounce pages are invisible to the driver and the device at every step of Map, Unmap and
\* the tear-down, whatever notification runs between two of them, the stores of a list
\* operation included (a mapping that falls off the list stays usable for its driver).
THEOREM DmaRefinement == Spec => ImplementsDma
<1>1. Spec => DmaView!Init
  BY DmaInit, PTL DEF Spec
<1>2. MapInv /\ CopyInv /\ [Next]_vars => CopyInv'
  BY CopyPreserved
<1>3. Spec => []CopyInv
  BY <1>2, InitCopy, MapInvariance, PTL DEF Spec
<1>4. MapInv /\ CopyInv /\ [Next]_vars => [DmaView!Next]_(DmaView!dmavars)
  BY DmaStep
<1>5. Spec => [][DmaView!Next]_(DmaView!dmavars)
  BY <1>3, <1>4, MapInvariance, PTL DEF Spec
<1>6. QED
  BY <1>1, <1>5 DEF ImplementsDma, DmaView!Spec

-----------------------------------------------------------------------------
(* Why the tear-down ends.  The notification of IoMmuDxe is still to come; *)
(* how far IoMmuUnmapAllMappings is with a mapping.                        *)
Early == \E i \in 1 .. Len(queue) : queue[i] = "IoMmuExitBoot"

Stage ==
    CASE pc["main"] = "encrypt" -> 5
      [] pc["main"] = "restore" -> 4
      [] pc["main"] = "unlink"  -> 3
      [] pc["main"] = "unhook"  -> 2
      [] pc["main"] = "walk"    -> 1
      [] OTHER -> 0

(* Four measures, in this order: one decreases, and none before it grows.  *)
Nearer ==
    \/ Early /\ ~Early'
    \/ (Early' => Early) /\ Len(queue) \in Nat /\ Len(queue') < Len(queue)
    \/ queue' = queue /\ Held' \subseteq Held /\ Held' # Held
    \/ queue' = queue /\ Held' = Held /\ Stage' < Stage

(* What is left of the queue when its first notification has run.          *)
LEMMA Dispatched ==
    ASSUME QueueInv, NEW e, Dispatch(e)
    PROVE  /\ phase = "exit" /\ pc["main"] = "idle"
           /\ queue \in Seq(Notifications \cup {UnmapAll})
           /\ Len(queue) \in Nat \ {0} /\ queue[1] = e
           /\ Tail(queue) \in Seq(Notifications \cup {UnmapAll})
           /\ Len(Tail(queue)) = Len(queue) - 1
           /\ \A i \in 1 .. Len(queue) - 1 : Tail(queue)[i] = queue[i + 1]
<1>1. phase = "exit" /\ pc["main"] = "idle" /\ queue # <<>> /\ Head(queue) = e
  BY DEF Dispatch
<1>2. queue \in Seq(Notifications \cup {UnmapAll})
  BY <1>1 DEF QueueInv
<1>3. QED
  BY <1>1, <1>2

LEMMA DispatchNearer ==
    ASSUME QueueInv, NEW e, Dispatch(e), queue' = Tail(queue)
    PROVE  Nearer
<1>1. /\ queue \in Seq(Notifications \cup {UnmapAll})
      /\ Len(queue) \in Nat \ {0}
      /\ Len(queue') = Len(queue) - 1
      /\ \A i \in 1 .. Len(queue) - 1 : queue'[i] = queue[i + 1]
  BY Dispatched
<1>2. ASSUME Early' PROVE Early
  <2>1. PICK i \in 1 .. Len(queue') : queue'[i] = "IoMmuExitBoot"
    BY <1>2 DEF Early
  <2>2. i \in 1 .. Len(queue) - 1 /\ i + 1 \in 1 .. Len(queue)
    BY <1>1, <2>1
  <2>3. queue[i + 1] = "IoMmuExitBoot"
    BY <1>1, <2>1, <2>2
  <2>4. QED
    BY <2>2, <2>3 DEF Early
<1>3. Len(queue) \in Nat /\ Len(queue') < Len(queue)
  BY <1>1
<1>4. QED
  BY <1>2, <1>3 DEF Nearer

(* IoMmuExitBoot makes its own event the last one, and is in the queue     *)
(* only once.                                                              *)
LEMMA SignalNearer ==
    ASSUME QueueInv, IoMmuExitBoot
    PROVE  Nearer
<1> DEFINE n == Len(queue)
           tail == Tail(queue)
<1>1. Dispatch("IoMmuExitBoot") /\ queue' = Append(tail, UnmapAll)
  BY DEF IoMmuExitBoot, UnmapAll
<1>2. /\ phase = "exit"
      /\ n \in Nat \ {0} /\ queue[1] = "IoMmuExitBoot"
      /\ tail \in Seq(Notifications \cup {UnmapAll})
      /\ Len(tail) = n - 1
      /\ \A i \in 1 .. n - 1 : tail[i] = queue[i + 1]
  BY <1>1, Dispatched
<1>3. /\ Len(queue') = Len(tail) + 1
      /\ \A i \in 1 .. Len(tail) : queue'[i] = tail[i]
      /\ queue'[Len(tail) + 1] = UnmapAll
  <2>1. UnmapAll \in Notifications \cup {UnmapAll}
    OBVIOUS
  <2> DEFINE S == Notifications \cup {UnmapAll}
             e == UnmapAll
  <2>2. tail \in Seq(S) /\ e \in S
    BY <1>2, <2>1
  <2> HIDE DEF tail, S, e
  <2>3. /\ Len(Append(tail, e)) = Len(tail) + 1
        /\ \A i \in 1 .. Len(tail) : Append(tail, e)[i] = tail[i]
        /\ Append(tail, e)[Len(tail) + 1] = e
    BY <2>2, AppendProperties, SMTT(40)
  <2>4. queue' = Append(tail, e)
    BY <1>1, Zenon DEF e
  <2>5. e = UnmapAll
    BY Zenon DEF e
  <2>6. QED
    BY <2>3, <2>4, <2>5, Zenon
<1>4. \A i, j \in 1 .. n : queue[i] = "IoMmuExitBoot" /\ queue[j] = "IoMmuExitBoot" => i = j
  BY <1>2, ZenonT(60) DEF QueueInv
<1> HIDE DEF n, tail
<1>5. 1 \in 1 .. n
  BY <1>2
<1>6. Early
  BY <1>2, <1>5 DEF Early, n
<1>7. n - 1 + 1 = n
  BY <1>2
<1>8. Len(queue') = n /\ queue'[n] = UnmapAll
  BY <1>2, <1>3, <1>7, Zenon
<1>9. ASSUME NEW i \in 1 .. n - 1 PROVE queue'[i] # "IoMmuExitBoot"
  <2>1. i + 1 \in 1 .. n /\ i + 1 # 1
    BY <1>2, <1>9
  <2>2. queue'[i] = tail[i]
    BY <1>2, <1>3
  <2>3. tail[i] = queue[i + 1]
    BY <1>2
  <2>4. queue[i + 1] # "IoMmuExitBoot"
    BY <1>2, <1>4, <1>5, <2>1, Zenon
  <2>5. QED
    BY <2>2, <2>3, <2>4
<1>10. ASSUME NEW i \in 1 .. n PROVE queue'[i] # "IoMmuExitBoot"
  <2>1. i = n \/ i \in 1 .. n - 1
    BY <1>2, <1>10
  <2>2. UnmapAll # "IoMmuExitBoot"
    BY DEF UnmapAll
  <2>3. QED
    BY <1>8, <1>9, <2>1, <2>2
<1>11. ~Early'
  BY <1>8, <1>10 DEF Early
<1>12. QED
  BY <1>6, <1>11 DEF Nearer

(* The steps of the tear-down.                                             *)
LEMMA TearDownNearer ==
    ASSUME MapInv, phase = "exit", Protocol("main") \/ Exit
    PROVE  Nearer \/ phase' = "os" \/ (raced /\ lost')
<1>0. TypeOK /\ PcInv /\ QueueInv /\ MemInv /\ "main" \in Context
  BY DEF MapInv, ExitInv, Context
<1>1. CASE UnmapGoesOn("main")
  <2>1. /\ queue' = queue /\ held' = held
        /\ \/ pc["main"] = "encrypt" /\ pc'["main"] = "restore"
           \/ pc["main"] = "restore" /\ pc'["main"] = "unlink"
           \/ pc["main"] = "unlink" /\ pc'["main"] = "unhook"
           \/ pc["main"] = "unhook" /\ pc'["main"] = "walk"
    <3>1. CASE UnmapEncrypt("main")
      BY <1>0, <3>1 DEF UnmapEncrypt, At, Goto, PcInv, mapVars, exitVars
    <3>2. CASE UnmapRestore("main")
      <4>1. At("main", "restore") /\ Goto("main", "unlink") /\ UNCHANGED <<mapVars, exitVars>>
        BY <3>2, Zenon DEF UnmapRestore
      <4>2. QED
        BY <1>0, <4>1 DEF At, Goto, PcInv, mapVars, exitVars
    <3>3. CASE UnmapUnlink("main")
      BY <1>0, <3>3 DEF UnmapUnlink, At, Goto, PcInv, exitVars
    <3>4. CASE UnmapForget("main")
      BY <1>0, <3>4 DEF UnmapForget, MemoryMapLocked, At, Goto, PcInv, exitVars
    <3>5. QED
      BY <1>1, <3>1, <3>2, <3>3, <3>4 DEF UnmapGoesOn
  <2>2. Held' = Held /\ Stage' < Stage
    BY <2>1 DEF Held, Stage
  <2>3. QED
    BY <2>1, <2>2 DEF Nearer
<1>2. CASE Dangles("main")
  <2>1. lost'
    BY <1>2 DEF Dangles
  <2>2. raced
    <3>1. SUFFICES ASSUME ~raced PROVE FALSE
      OBVIOUS
    <3>2. ListInv /\ AloneInv /\ WalkInv
      BY <3>1 DEF MapInv
    <3>3. Runs("main") /\ Dangling("main")
      BY <1>2 DEF Dangles
    <3>4. QED
      BY <1>0, <3>2, <3>3, NoLinkDangles
  <2>3. QED
    BY <2>1, <2>2
<1>3. CASE UnmapAllNode
  <2>1. /\ At("main", "walk") /\ node # ListHead
        /\ held' = [d \in Context |-> held[d] \ {node}] /\ UNCHANGED exitVars
    BY <1>3, Zenon DEF UnmapAllNode, UnmapStart
  <2>2. pc["main"] = "walk" /\ queue' = queue
    BY <2>1 DEF At, exitVars
  <2>3. \E e \in Context : node \in held[e]
    BY <1>0, <1>3, WalkHeld
  <2>4. Held' = Held \ {node}
    BY <2>1 DEF Held, Context
  <2>5. node \in Held
    BY <2>3, HeldIs
  <2>6. QED
    BY <2>2, <2>4, <2>5 DEF Nearer
<1>4. CASE UnmapAllDone
  <2>1. pc["main"] = "walk" /\ pc'["main"] = "idle" /\ queue' = queue /\ held' = held
    BY <1>0, <1>4 DEF UnmapAllDone, At, Return, Goto, PcInv, mapVars, exitVars
  <2>2. Held' = Held /\ Stage' < Stage
    BY <2>1 DEF Held, Stage
  <2>3. QED
    BY <2>1, <2>2 DEF Nearer
<1>5. CASE \E c \in Context : HaltDevice(c)
  BY <1>0, <1>5, DispatchNearer DEF HaltDevice
<1>6. CASE IoMmuUnmapAllMappings
  BY SMTT(40), <1>0, <1>6, DispatchNearer DEF IoMmuUnmapAllMappings
<1>7. CASE IoMmuExitBoot
  BY <1>0, <1>7, SignalNearer
<1>8. CASE ExitReturns
  BY <1>8 DEF ExitReturns
<1>9. CASE Protocol("main") /\ ~UnmapGoesOn("main") /\ ~Dangles("main")
  <2>1. phase = "boot"
    BY <1>0, <1>9, BootSteps DEF Protocol, UnmapGoesOn
  <2>2. QED
    BY <2>1
<1>10. QED
  BY <1>1, <1>2, <1>3, <1>4, <1>5, <1>6, <1>7, <1>8, <1>9 DEF Exit

(* Nobody else brings it back.                                             *)
LEMMA OthersKeepOut ==
    ASSUME MapInv, phase = "exit", [Next]_vars, ~Protocol("main"), ~Exit
    PROVE  UNCHANGED <<queue, held, pc>>
<1>1. PcInv
  BY DEF MapInv, ExitInv
<1>2. ASSUME NEW c \in Context, UnmapGoesOn(c) PROVE FALSE
  <2>1. c = "main"
    BY <1>1, <1>2, UnmapSteps
  <2>2. QED
    BY <1>2, <2>1 DEF Protocol, UnmapGoesOn
<1>3. ~ExitBootServices
  BY DEF ExitBootServices
<1>4. UNCHANGED <<pc, held, inPool, exitVars>>
  BY <1>1, <1>2, <1>3, Steps DEF Exit
<1>5. QED
  BY <1>4 DEF exitVars

\* Once ExitBootServices has begun, every step of it or of IoMmuUnmapAllMappings
\* brings the tear-down nearer to its end: IoMmuExitBoot has signalled its event, a
\* notification has run, a mapping is undone, or the unmapping of one is further;
\* a device that still writes sets none of them back.  The queue and the mappings
\* are finite, so the tear-down has finitely many steps.  The one exception is a walk
\* that meets a stale link, and only a notification inside an earlier list operation
\* leaves one.
THEOREM TearDownGoesOn ==
    Spec => [][phase = "exit" =>
                  IF Protocol("main") \/ Exit THEN Nearer \/ phase' = "os" \/ (raced /\ lost')
                  ELSE UNCHANGED <<queue, held, pc>>]_vars
<1>1. MapInv /\ [Next]_vars =>
         [phase = "exit" =>
             IF Protocol("main") \/ Exit THEN Nearer \/ phase' = "os" \/ (raced /\ lost')
             ELSE UNCHANGED <<queue, held, pc>>]_vars
  BY TearDownNearer, OthersKeepOut
<1>2. QED
  BY <1>1, MapInvariance, PTL DEF Spec
=============================================================================
