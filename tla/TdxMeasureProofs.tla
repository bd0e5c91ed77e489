--------------------------- MODULE TdxMeasureProofs ---------------------------
(***************************************************************************)
(* The event log, the registers and the final events table agree, for any  *)
(* number of measurements, any lengths of the log areas, any callers and   *)
(* any failures.                                                           *)
(***************************************************************************)
EXTENDS TdxMeasure, SequenceTheorems, TLAPS

Kinds == {"none", "Sec", "NoAction", "PlatformId", "Event", "Variable", "Separator", "Action",
          "PostCode", "Devices", "BootOrder", "BootVariable"}
Silent == {"NoAction", "PlatformId"}

EventType == [kind : Kinds, mr : 0 .. RTMR_COUNT, size : 1 .. 2, extendOnly : BOOLEAN]
CallType == [id : Nat, step : {"none", "extend", "log", "get"}, event : EventType]

(* Where a call is, and how many measurements there will be.               *)
CallInv ==
    /\ todo \in [Context -> Seq(EventType)]
    /\ call \in [Context -> CallType]
    /\ calls \in Nat /\ calls + Len(todo["main"]) + Len(todo["notify"]) <= MaxCalls
    /\ \A c \in Context :
          /\ call[c].id <= calls
          /\ call[c].step \in {"none", "get"} => call[c].id = 0
          /\ call[c].step = "extend" => call[c].id # 0
          /\ call[c].id # 0 => call[c].event.kind \notin Silent
          /\ call[c].id # 0 /\ call[c].step = "log" => ~call[c].event.extendOnly

(* mExtendBuffer has the digest of the call that began last, and that call *)
(* came into every other one that is not over.                             *)
BufferInv ==
    /\ buffer = calls
    /\ overlap \subseteq 1 .. calls
    /\ \A c \in Context : call[c].id # 0 =>
          call[c].id = calls \/ (call[c].id \in overlap /\ calls \in overlap)
    /\ \A c, d \in Context : c # d /\ call[c].id # 0 /\ call[d].id # 0 => call[c].id \in overlap

(* SEC and the set-up of the log run alone.                                *)
PhaseInv ==
    /\ phase \in {"sec", "sync", "dxe", "exit", "os"}
    /\ phase \in {"sec", "sync"} =>
          call["notify"] = NoCall /\ todo["notify"] = <<>> /\ ~getEventLogCalled
    /\ phase = "sync" => call["main"] = NoCall /\ todo["main"] = <<>>
    /\ phase = "sec" =>
          /\ log = NoArea /\ final = NoArea /\ unlogged.full = {}
          /\ \A i \in 1 .. Len(todo["main"]) : todo["main"][i] = Measure("Sec", 0)
          /\ call["main"].step # "none" =>
                call["main"].event = Measure("Sec", 0) /\ call["main"].id # 0
    /\ phase \notin {"sec", "sync"} => hobs = <<>>

(* The log areas and the HOBs.                                             *)
AreaInv ==
    /\ log \in AreaType /\ final \in AreaType /\ hobs \in Seq(EntryType)
    /\ log.size <= log.laml /\ final.size <= final.laml
    /\ log.offset > 0 \/ log.laml = 0
    /\ final.offset = 0
    /\ \A i \in 1 .. Len(hobs) : hobs[i].size = 1
    /\ log.tail # <<>> => log.last + log.tail[Len(log.tail)].size = log.size
    /\ \A i \in 1 .. Len(log.tail) : log.tail[i].id <= calls
    /\ \A i \in 1 .. Len(hobs) : hobs[i].id \in 1 .. calls

(* A digest that no other call can have disturbed.                         *)
Pure(id) == id # 0 /\ id \notin overlap

Increases(s) ==
    \A i, j \in 1 .. Len(s) : i < j /\ Pure(s[i].id) /\ Pure(s[j].id) => s[i].id < s[j].id

Below(s, n) == \A i \in 1 .. Len(s) : Pure(s[i].id) => s[i].id < n

(* What extended the registers, before and after a call does.              *)
InRegisters(c) ==
    /\ call[c].step = "extend" => \A i \in 1 .. Len(rtmr) : rtmr[i].id < call[c].id
    /\ call[c].step = "log" =>
          /\ \E i \in 1 .. Len(rtmr) : rtmr[i].mr = call[c].event.mr /\ rtmr[i].id = call[c].id
          /\ \A i \in 1 .. Len(rtmr) : rtmr[i].id = call[c].id => rtmr[i].mr = call[c].event.mr

RegInv ==
    /\ rtmr \in Seq([mr : 0 .. RTMR_COUNT - 1, id : Call])
    /\ \A i \in 1 .. Len(rtmr) : rtmr[i].id <= calls
    /\ Increases(rtmr)
    /\ \A c \in Context : Pure(call[c].id) => InRegisters(c)

(* The order of the log and of the events still in HOBs.                   *)
OrderInv ==
    /\ unlogged \in [full : SUBSET (1 .. calls), dropped : SUBSET Nat, unwanted : SUBSET Nat]
    /\ Increases(log.tail)
    /\ Increases(hobs)
    /\ \A j \in 1 .. Len(hobs) : Pure(hobs[j].id) => Below(log.tail, hobs[j].id)
    /\ \A c \in Context : Pure(call[c].id) =>
          Below(log.tail, call[c].id) /\ Below(hobs, call[c].id)
    /\ \A n \in unlogged.full : Pure(n) => Below(log.tail, n)

(* Every digest of a register is accounted for, and the log has no other.  *)
Lost == unlogged.full \cup unlogged.dropped \cup unlogged.unwanted

InLog(s, x) == \E j \in 1 .. Len(s) : s[j].mr - 1 = x.mr /\ s[j].id = x.id
InReg(e) == \E i \in 1 .. Len(rtmr) : rtmr[i].mr = e.mr - 1 /\ rtmr[i].id = e.id

AccountInv ==
    /\ \A i \in 1 .. Len(rtmr) :
          \/ rtmr[i].id \in overlap \cup Lost
          \/ \E c \in Context : call[c].id = rtmr[i].id
          \/ InLog(log.tail, rtmr[i]) \/ InLog(hobs, rtmr[i])
    /\ \A j \in 1 .. Len(log.tail) : Pure(log.tail[j].id) => InReg(log.tail[j])
    /\ \A j \in 1 .. Len(hobs) : Pure(hobs[j].id) => InReg(hobs[j])
    /\ unlogged.full # {} => log.truncated

(* The final events table is a piece of the log.                           *)
TailInv ==
    /\ table \in BOOLEAN /\ getEventLogCalled \in BOOLEAN
    /\ mark.tail \in Nat /\ mark.head \in Nat /\ numberOfEvents \in Nat
    /\ mark.tail + Len(final.tail) <= Len(log.tail)
    /\ mark.head <= log.head
    /\ \A i \in 1 .. Len(final.tail) : final.tail[i] = log.tail[mark.tail + i]
    /\ ~final.truncated /\ getEventLogCalled /\ table =>
          mark.tail + Len(final.tail) = Len(log.tail)
    /\ log.head = mark.head \/ ~getEventLogCalled => numberOfEvents = Len(final.tail)
    /\ ~getEventLogCalled => mark = [head |-> 0, tail |-> 0] /\ final.tail = <<>>

(* The events that neither the caller of GetEventLog nor the table has.    *)
GapInv ==
    /\ seen.tail \in Nat
    /\ \A c \in Context : call[c].step = "get" => seen.asked
    /\ getEventLogCalled =>
          seen.asked /\ seen.tail <= mark.tail /\ (seen.tail < mark.tail => seen.inside)
    /\ seen.asked /\ ~getEventLogCalled =>
          /\ seen.tail <= Len(log.tail)
          /\ seen.tail < Len(log.tail) => seen.inside
          /\ \/ /\ call["main"].step = "get"
                /\ call["notify"].step \in {"extend", "log"} => seen.inside
             \/ call["notify"].step = "get"

MeasureInv ==
    /\ CallInv
    /\ BufferInv
    /\ PhaseInv
    /\ AreaInv
    /\ RegInv
    /\ OrderInv
    /\ TailInv
    /\ AccountInv

-----------------------------------------------------------------------------
(* Sequences.                                                              *)
LEMMA Appended ==
    ASSUME NEW S, NEW s \in Seq(S), NEW e \in S
    PROVE  /\ Append(s, e) \in Seq(S) /\ Append(s, e) # <<>>
           /\ Len(s) \in Nat /\ Len(Append(s, e)) = Len(s) + 1
           /\ Append(s, e)[Len(s) + 1] = e
           /\ \A i \in 1 .. Len(s) : Append(s, e)[i] = s[i]
  OBVIOUS

LEMMA Elements ==
    ASSUME NEW S, NEW s \in Seq(S)
    PROVE  /\ Len(s) \in Nat /\ DOMAIN s = 1 .. Len(s)
           /\ \A i \in 1 .. Len(s) : s[i] \in S
           /\ s = <<>> <=> Len(s) = 0
  OBVIOUS

LEMMA Rest ==
    ASSUME NEW S, NEW s \in Seq(S), s # <<>>
    PROVE  /\ Len(s) \in Nat /\ Len(s) > 0 /\ Tail(s) \in Seq(S) /\ Len(Tail(s)) = Len(s) - 1
           /\ Head(s) = s[1] /\ Head(s) \in S
           /\ \A i \in 1 .. Len(Tail(s)) : i + 1 \in 1 .. Len(s) /\ Tail(s)[i] = s[i + 1]
  BY HeadTailProperties

(* The measurements that the model makes.                                  *)
LEMMA MeasureType ==
    ASSUME NEW kind \in Kinds, NEW mr \in 0 .. RTMR_COUNT
    PROVE  /\ Measure(kind, mr) \in EventType
           /\ Measure(kind, mr).kind = kind /\ Measure(kind, mr).mr = mr
           /\ ~Measure(kind, mr).extendOnly
  BY DEF Measure, EventType

LEMMA PcrType == \A pcr : MapPcrToMrIndex(pcr) \in 0 .. RTMR_COUNT
  BY DEF MapPcrToMrIndex, RTMR_COUNT

LEMMA SecMeasure == Measure("Sec", 0) \in EventType /\ Measure("Sec", 0).size = 1
                    /\ Measure("Sec", 0).kind = "Sec" /\ ~Measure("Sec", 0).extendOnly
  BY DEF Measure, EventType, Kinds, LongEvents, RTMR_COUNT

LEMMA NoCallIs == NoCall \in CallType /\ NoCall.id = 0 /\ NoCall.step = "none"
<1>1. Measure("none", 0) \in EventType
  BY MeasureType DEF Kinds, RTMR_COUNT
<1>2. QED
  BY <1>1 DEF NoCall, CallType

LEMMA NoAreaIs ==
    /\ NoArea \in AreaType /\ NoArea.tail = <<>> /\ NoArea.size = 0 /\ NoArea.laml = 0
    /\ NoArea.head = 0 /\ NoArea.offset = 0 /\ ~NoArea.truncated
  BY DEF NoArea, AreaType

LEMMA ContextIs == "main" \in Context /\ "notify" \in Context
                   /\ \A c \in Context : c = "main" \/ c = "notify"
  BY DEF Context

LEMMA InitMeasure == Init => MeasureInv
<1> SUFFICES ASSUME Init PROVE MeasureInv
  OBVIOUS
<1>1. PICK settings \in 0 .. 2 :
         todo = [c \in Context |-> IF c = "notify" THEN <<>>
                                   ELSE [i \in 1 .. 2 + settings |->
                                           Measure("Sec", MapPcrToMrIndex(1))]]
  BY DEF Init
<1>2. MapPcrToMrIndex(1) = 0
  BY DEF MapPcrToMrIndex
<1> DEFINE s == [i \in 1 .. 2 + settings |-> Measure("Sec", 0)]
<1>3. s \in Seq(EventType) /\ Len(s) = 2 + settings
      /\ \A i \in 1 .. Len(s) : s[i] = Measure("Sec", 0)
  BY SecMeasure
<1>4. todo["main"] = s /\ todo["notify"] = <<>> /\ todo \in [Context -> Seq(EventType)]
  BY <1>1, <1>2, <1>3 DEF Context
<1> HIDE DEF s
<1>5. call = [c \in Context |-> NoCall] /\ calls = 0 /\ buffer = 0 /\ overlap = {}
      /\ rtmr = <<>> /\ hobs = <<>> /\ log = NoArea /\ final = NoArea /\ phase = "sec"
      /\ unlogged = [full |-> {}, dropped |-> {}, unwanted |-> {}]
      /\ mark = [head |-> 0, tail |-> 0] /\ numberOfEvents = 0 /\ ~getEventLogCalled
      /\ getEventLogCalled \in BOOLEAN /\ table \in BOOLEAN
  BY DEF Init
<1>6. \A c \in Context : call[c] = NoCall
  BY <1>5
<1>7. CallInv
  BY <1>3, <1>4, <1>5, <1>6, NoCallIs, MeasureAssumption DEF CallInv
<1>8. BufferInv
  BY <1>5, <1>6, NoCallIs DEF BufferInv
<1>9. PhaseInv
  BY <1>3, <1>4, <1>5, <1>6, NoCallIs, ContextIs DEF PhaseInv
<1>10. AreaInv
  BY <1>5, NoAreaIs DEF AreaInv
<1>11. RegInv
  BY <1>5, <1>6, NoCallIs DEF RegInv, Increases, Pure
<1>12. OrderInv
  BY <1>5, <1>6, NoCallIs, NoAreaIs DEF OrderInv, Increases, Below
<1>13. TailInv
  BY <1>5, NoAreaIs DEF TailInv
<1>14. AccountInv
  BY <1>5, NoAreaIs DEF AccountInv
<1>15. QED
  BY <1>7, <1>8, <1>9, <1>10, <1>11, <1>12, <1>13, <1>14 DEF MeasureInv

-----------------------------------------------------------------------------
(* The steps that say what is measured next.                               *)
LEMMA LaterPhase ==
    ASSUME PhaseInv, phase \notin {"sec", "sync"}, phase' \in {"dxe", "exit", "os"}, hobs' = hobs
    PROVE  PhaseInv'
  BY DEF PhaseInv

LEMMA Schedules ==
    ASSUME MeasureInv, todo' \in [Context -> Seq(EventType)],
           calls + Len(todo'["main"]) + Len(todo'["notify"]) <= MaxCalls, PhaseInv',
           UNCHANGED <<regVars, lossVars, logVars, callVars, table, getEventLogCalled, mark>>
    PROVE  MeasureInv'
<1>1. /\ rtmr' = rtmr /\ buffer' = buffer /\ hobs' = hobs /\ unlogged' = unlogged
      /\ log' = log /\ final' = final /\ numberOfEvents' = numberOfEvents
      /\ call' = call /\ calls' = calls /\ overlap' = overlap /\ table' = table
      /\ getEventLogCalled' = getEventLogCalled /\ mark' = mark
  BY DEF regVars, lossVars, logVars, callVars
<1>2. CallInv'
  BY <1>1 DEF MeasureInv, CallInv
<1>3. BufferInv'
  BY <1>1 DEF MeasureInv, BufferInv
<1>4. AreaInv'
  BY <1>1 DEF MeasureInv, AreaInv
<1>5. RegInv'
  BY <1>1 DEF MeasureInv, RegInv, InRegisters, Increases, Pure, Call
<1>6. OrderInv'
  BY <1>1 DEF MeasureInv, OrderInv, Increases, Below, Pure
<1>7. TailInv'
  BY <1>1 DEF MeasureInv, TailInv
<1>8. AccountInv'
  BY <1>1 DEF MeasureInv, AccountInv, Lost, InLog, InReg, Pure
<1>9. QED
  BY <1>2, <1>3, <1>4, <1>5, <1>6, <1>7, <1>8 DEF MeasureInv

LEMMA ToMeasure ==
    ASSUME CallInv, NEW c \in Context, NEW s \in Seq(EventType), Measures(c, s)
    PROVE  /\ todo' \in [Context -> Seq(EventType)]
           /\ calls + Len(todo'["main"]) + Len(todo'["notify"]) <= MaxCalls
<1>1. /\ todo' = [todo EXCEPT ![c] = s] /\ calls + Len(todo["main"]) + Len(s) <= MaxCalls
      /\ todo[c] = <<>> /\ (c = "main" => todo["notify"] = <<>>)
  BY DEF Measures, Room, Idle, Runs
<1>2. todo' \in [Context -> Seq(EventType)]
  BY <1>1 DEF CallInv
<1>3. /\ c = "main" => todo'["main"] = s /\ todo'["notify"] = <<>>
      /\ c = "notify" => todo'["notify"] = s /\ todo'["main"] = todo["main"]
  BY <1>1, ContextIs DEF CallInv
<1>4. Len(<<>>) = 0 /\ Len(s) \in Nat /\ Len(todo["main"]) \in Nat /\ calls \in Nat
      /\ MaxCalls \in Nat
  BY Elements, ContextIs, MeasureAssumption DEF CallInv
<1>5. CASE c = "main"
  <2>1. todo'["main"] = s /\ Len(todo'["notify"]) = 0 /\ Len(todo["main"]) = 0
    BY <1>1, <1>3, <1>4, <1>5
  <2>2. calls + Len(s) + 0 <= MaxCalls
    <3>1. calls + Len(todo["main"]) + Len(s) <= MaxCalls
      BY <1>1
    <3>2. calls + 0 + Len(s) <= MaxCalls
      BY <2>1, <3>1
    <3>3. QED
      BY <1>4, <3>2
  <2>3. calls + Len(todo'["main"]) + Len(todo'["notify"]) <= MaxCalls
    BY <2>1, <2>2
  <2>4. QED
    BY <1>2, <2>3
<1>6. CASE c = "notify"
  BY <1>1, <1>2, <1>3, <1>4, <1>6
<1>7. QED
  BY <1>5, <1>6, ContextIs

LEMMA Singles ==
    ASSUME NEW kind \in Kinds, NEW mr \in 0 .. RTMR_COUNT
    PROVE  <<Measure(kind, mr)>> \in Seq(EventType)
  BY MeasureType

LEMMA SeparatorType == \A mr \in 0 .. RTMR_COUNT : Separator(mr) \in Seq(EventType)
  BY Singles DEF Separator, Kinds

LEMMA ActionType == \A pcr : Action(pcr) \in Seq(EventType)
  BY Singles, PcrType DEF Action, Kinds

LEMMA Options == \A s \in Seq(EventType) : \A t \in Optional(s) : t \in Seq(EventType)
<1>1. <<>> \in Seq(EventType)
  OBVIOUS
<1>2. QED
  BY <1>1, Zenon DEF Optional

(* The handlers of TdTcg2Dxe.                                              *)
LEMMA HandlersSchedule ==
    ASSUME MeasureInv, \/ MeasureSecureBootPolicy \/ InstallAcpiTable \/ OnReadyToBoot
                       \/ OnExitBootServices \/ OnExitBootServicesFailed
    PROVE  MeasureInv'
<1>0. CallInv /\ PhaseInv /\ "main" \in Context
  BY ContextIs DEF MeasureInv
<1>1. /\ phase = "dxe" /\ phase' \in {"dxe", "exit"}
      /\ UNCHANGED <<regVars, lossVars, logVars, callVars, table, getEventLogCalled, mark>>
  BY DEF MeasureSecureBootPolicy, InstallAcpiTable, OnReadyToBoot, OnExitBootServices,
         OnExitBootServicesFailed, setupVars
<1>2. \E s \in Seq(EventType) : Measures("main", s)
  <2>1. CASE MeasureSecureBootPolicy
    <3>1. PICK debugger \in Optional(Action(7)) :
             Measures("main", debugger \o <<Measure("Variable", MapPcrToMrIndex(7))>>
                                       \o Separator(MapPcrToMrIndex(7)))
      BY <2>1 DEF MeasureSecureBootPolicy
    <3>2. debugger \in Seq(EventType)
      BY <3>1, ActionType, Options
    <3>3. <<Measure("Variable", MapPcrToMrIndex(7))>> \in Seq(EventType)
      BY Singles, PcrType DEF Kinds
    <3>4. Separator(MapPcrToMrIndex(7)) \in Seq(EventType)
      BY SeparatorType, PcrType
    <3>5. debugger \o <<Measure("Variable", MapPcrToMrIndex(7))>> \in Seq(EventType)
      BY <3>2, <3>3, ConcatProperties
    <3>6. debugger \o <<Measure("Variable", MapPcrToMrIndex(7))>>
             \o Separator(MapPcrToMrIndex(7)) \in Seq(EventType)
      BY <3>4, <3>5, ConcatProperties
    <3>7. QED
      BY <3>1, <3>6
  <2>2. CASE InstallAcpiTable
    <3>1. <<Measure("PostCode", MapPcrToMrIndex(1))>> \in Seq(EventType)
      BY Singles, PcrType DEF Kinds
    <3>2. QED
      BY <2>2, <3>1 DEF InstallAcpiTable
  <2>3. CASE OnReadyToBoot
    <3> DEFINE D == <<Measure("Devices", MapPcrToMrIndex(1))>>
               B == <<Measure("BootOrder", MapPcrToMrIndex(5)),
                      Measure("BootVariable", MapPcrToMrIndex(5))>>
    <3>1. D \in Seq(EventType)
      BY Singles, PcrType DEF Kinds
    <3>2. B \in Seq(EventType)
      <4>1. /\ Measure("BootOrder", MapPcrToMrIndex(5)) \in EventType
            /\ Measure("BootVariable", MapPcrToMrIndex(5)) \in EventType
        BY MeasureType, PcrType DEF Kinds
      <4>2. QED
        BY <4>1
    <3>3. CASE bootAttempts = 0
      <4>1. PICK handoff \in Optional(D), boot \in Optional(B) :
               Measures("main", handoff \o boot \o Action(4) \o Separator(1))
        BY <2>3, <3>3 DEF OnReadyToBoot
      <4> HIDE DEF D, B
      <4>2. handoff \in Seq(EventType) /\ boot \in Seq(EventType)
        BY <3>1, <3>2, <4>1, Options
      <4>3. handoff \o boot \in Seq(EventType)
        BY <4>2, ConcatProperties
      <4>4. handoff \o boot \o Action(4) \in Seq(EventType)
        BY <4>3, ActionType, ConcatProperties
      <4>5. Separator(1) \in Seq(EventType)
        BY SeparatorType DEF RTMR_COUNT
      <4>6. handoff \o boot \o Action(4) \o Separator(1) \in Seq(EventType)
        BY <4>4, <4>5, ConcatProperties
      <4>7. QED
        BY <4>1, <4>6
    <3>4. CASE bootAttempts # 0
      <4>1. Measures("main", Action(4) \o Action(4))
        BY <2>3, <3>4 DEF OnReadyToBoot
      <4>2. Action(4) \o Action(4) \in Seq(EventType)
        BY ActionType, ConcatProperties
      <4>3. QED
        BY <4>1, <4>2
    <3>5. QED
      BY <3>3, <3>4
  <2>4. CASE OnExitBootServices
    <3>1. Action(5) \o Action(5) \in Seq(EventType)
      BY ActionType, ConcatProperties
    <3>2. QED
      BY <2>4, <3>1 DEF OnExitBootServices
  <2>5. CASE OnExitBootServicesFailed
    BY <2>5, ActionType DEF OnExitBootServicesFailed
  <2>6. QED
    BY <2>1, <2>2, <2>3, <2>4, <2>5
<1>3. PhaseInv'
  BY <1>0, <1>1, LaterPhase DEF lossVars
<1>4. QED
  BY <1>0, <1>1, <1>2, <1>3, ToMeasure, Schedules

LEMMA CallerSchedules ==
    ASSUME MeasureInv, NEW c \in Context, NEW kind \in CallerKinds, NEW mr \in CallerMr,
           NEW extendOnly \in BOOLEAN, TdHashLogExtendEvent(c, kind, mr, extendOnly)
    PROVE  MeasureInv'
<1> DEFINE e == [Measure(kind, mr) EXCEPT !.extendOnly = extendOnly]
<1>1. /\ phase = "dxe" /\ phase' = "dxe" /\ mr <= 4 /\ Measures(c, <<e>>)
      /\ UNCHANGED <<regVars, lossVars, logVars, callVars, table, getEventLogCalled, mark>>
  BY DEF TdHashLogExtendEvent
<1>2. Measure(kind, mr) \in EventType
  BY <1>1, MeasureType, MeasureAssumption, SMTT(40) DEF CallerKinds, Kinds, RTMR_COUNT
<1>3. e \in EventType
  BY <1>2 DEF EventType
<1> HIDE DEF e
<1>4. <<e>> \in Seq(EventType)
  BY <1>3
<1>5. PhaseInv'
  BY <1>1, LaterPhase DEF lossVars, MeasureInv
<1>6. QED
  BY <1>1, <1>4, <1>5, ToMeasure, Schedules DEF MeasureInv

LEMMA PhaseMoves ==
    ASSUME MeasureInv, InstallEfiTdProtocol \/ ExitReturns \/ UNCHANGED vars
    PROVE  MeasureInv'
<1>1. /\ todo' = todo
      /\ UNCHANGED <<regVars, lossVars, logVars, callVars, table, getEventLogCalled, mark>>
  BY DEF InstallEfiTdProtocol, ExitReturns, vars, setupVars
<1>2. PhaseInv'
  <2>1. CASE InstallEfiTdProtocol \/ ExitReturns
    BY <2>1 DEF MeasureInv, PhaseInv, InstallEfiTdProtocol, ExitReturns, lossVars
  <2>2. CASE UNCHANGED vars
    BY <2>2 DEF MeasureInv, PhaseInv, vars, callVars, setupVars, logVars, lossVars
  <2>3. QED
    BY <2>1, <2>2
<1>3. QED
  BY <1>1, <1>2, Schedules DEF MeasureInv, CallInv

-----------------------------------------------------------------------------
(* What the sequences have.                                                *)
LEMMA IdsAre ==
    ASSUME MeasureInv
    PROVE  /\ log.tail \in Seq(EntryType) /\ final.tail \in Seq(EntryType)
           /\ Len(log.tail) \in Nat /\ Len(final.tail) \in Nat /\ Len(hobs) \in Nat
           /\ Len(rtmr) \in Nat /\ calls \in Nat
           /\ \A i \in 1 .. Len(log.tail) : log.tail[i].id \in Nat /\ log.tail[i].id <= calls
           /\ \A i \in 1 .. Len(hobs) : hobs[i].id \in Nat /\ hobs[i].id <= calls
           /\ \A i \in 1 .. Len(rtmr) : rtmr[i].id \in Nat /\ rtmr[i].id <= calls /\ rtmr[i].id > 0
           /\ \A c \in Context : call[c].id \in Nat /\ call[c].event \in EventType
<1>1. log.tail \in Seq(EntryType) /\ final.tail \in Seq(EntryType) /\ hobs \in Seq(EntryType)
  BY DEF MeasureInv, AreaInv, AreaType
<1>2. \A e \in EntryType : e.id \in Nat
  BY MeasureAssumption DEF EntryType, Call
<1>3. \A e \in [mr : 0 .. RTMR_COUNT - 1, id : Call] : e.id \in Nat /\ e.id > 0
  BY MeasureAssumption DEF Call
<1>4. /\ Len(log.tail) \in Nat /\ Len(final.tail) \in Nat /\ Len(hobs) \in Nat
      /\ \A i \in 1 .. Len(log.tail) : log.tail[i] \in EntryType
      /\ \A i \in 1 .. Len(hobs) : hobs[i] \in EntryType
  BY <1>1, Elements
<1>5. Len(rtmr) \in Nat /\ \A i \in 1 .. Len(rtmr) :
         rtmr[i] \in [mr : 0 .. RTMR_COUNT - 1, id : Call] /\ rtmr[i].id <= calls
  <2>1. /\ rtmr \in Seq([mr : 0 .. RTMR_COUNT - 1, id : Call])
        /\ \A i \in 1 .. Len(rtmr) : rtmr[i].id <= calls
    BY DEF MeasureInv, RegInv
  <2>2. QED
    BY <2>1, Elements
<1>6. \A c \in Context : call[c].id \in Nat /\ call[c].event \in EventType
  BY DEF MeasureInv, CallInv, CallType
<1>7. /\ calls \in Nat /\ \A i \in 1 .. Len(log.tail) : log.tail[i].id <= calls
      /\ \A i \in 1 .. Len(hobs) : hobs[i].id <= calls
  <2>1. calls \in Nat /\ \A i \in 1 .. Len(hobs) : hobs[i].id \in 1 .. calls
    BY Zenon DEF MeasureInv, CallInv, AreaInv
  <2>2. \A i \in 1 .. Len(log.tail) : log.tail[i].id <= calls
    BY Zenon DEF MeasureInv, AreaInv
  <2>3. QED
    BY <2>1, <2>2
<1>8. QED
  BY <1>1, <1>2, <1>3, <1>4, <1>5, <1>6, <1>7

(* Calls that begin, and calls that end without an effect.                 *)
LEMMA CallMoves ==
    ASSUME MeasureInv, CallInv', BufferInv', PhaseInv', calls <= calls',
           overlap \subseteq overlap',
           UNCHANGED <<rtmr, hobs, unlogged, logVars, table, getEventLogCalled, mark>>,
           \A d \in Context : Pure(call[d].id)' =>
              call'[d] = call[d] \/ (call'[d].id > calls /\ call'[d].step = "extend"),
           \A d \in Context : \A i \in 1 .. Len(rtmr) : rtmr[i].id = call[d].id =>
              call'[d].id = call[d].id \/ call[d].id \in overlap'
    PROVE  MeasureInv'
<1>1. /\ rtmr' = rtmr /\ hobs' = hobs /\ unlogged' = unlogged /\ log' = log /\ final' = final
      /\ numberOfEvents' = numberOfEvents /\ table' = table /\ mark' = mark
      /\ getEventLogCalled' = getEventLogCalled
  BY DEF logVars
<1>2. calls \in Nat /\ calls' \in Nat
  BY DEF MeasureInv, CallInv
<1>3. \A id : Pure(id)' => Pure(id)
  BY DEF Pure
<1>4. AreaInv'
  <2>1. /\ \A i \in 1 .. Len(log.tail) : log.tail[i].id <= calls'
        /\ \A i \in 1 .. Len(hobs) : hobs[i].id \in 1 .. calls'
    BY <1>2, IdsAre, SMTT(40) DEF MeasureInv, AreaInv
  <2>2. QED
    BY <1>1, <2>1 DEF MeasureInv, AreaInv
<1>5. RegInv'
  <2>1. \A i \in 1 .. Len(rtmr) : rtmr[i].id \in Nat /\ rtmr[i].id <= calls
    BY IdsAre
  <2>2. \A i \in 1 .. Len(rtmr) : rtmr[i].id <= calls'
    BY <1>2, <2>1
  <2>3. Increases(rtmr)'
    BY <1>1, <1>3 DEF MeasureInv, RegInv, Increases
  <2>4. ASSUME NEW c \in Context, Pure(call[c].id)'
        PROVE  InRegisters(c)'
    <3>1. CASE call'[c] = call[c]
      <4>1. Pure(call[c].id)
        BY <1>3, <2>4, <3>1 DEF Pure
      <4>2. QED
        BY <1>1, <3>1, <4>1 DEF MeasureInv, RegInv, InRegisters
    <3>2. CASE call'[c].id > calls /\ call'[c].step = "extend"
      <4>1. call'[c].id \in Nat
        BY DEF CallInv, CallType
      <4>2. QED
        BY <1>1, <1>2, <2>1, <3>2, <4>1 DEF InRegisters
    <3>3. QED
      BY <2>4, <3>1, <3>2
  <2>5. (rtmr \in Seq([mr : 0 .. RTMR_COUNT - 1, id : Call]))'
    BY <1>1, Zenon DEF MeasureInv, RegInv, Call
  <2>6. (\A i \in 1 .. Len(rtmr) : rtmr[i].id <= calls)'
    BY <1>1, <2>2
  <2>7. QED
    BY <2>3, <2>4, <2>5, <2>6, Zenon DEF RegInv
<1>6. OrderInv'
  <2>1. \A n \in Nat : n > calls => Below(log.tail, n)' /\ Below(hobs, n)'
    BY <1>1, <1>2, IdsAre, SMTT(40) DEF Below
  <2>2. \A s, n : Below(s, n) => \A i \in 1 .. Len(s) : Pure(s[i].id)' => s[i].id < n
    BY <1>3 DEF Below
  <2>3. \A s : Increases(s) => \A i, j \in 1 .. Len(s) :
           i < j /\ Pure(s[i].id)' /\ Pure(s[j].id)' => s[i].id < s[j].id
    BY <1>3 DEF Increases
  <2>4. Increases(log.tail)' /\ Increases(hobs)'
    BY <1>1, <2>3 DEF MeasureInv, OrderInv, Increases
  <2>5. (\A j \in 1 .. Len(hobs) : Pure(hobs[j].id) => Below(log.tail, hobs[j].id))'
    BY <1>1, <1>3, <2>2 DEF MeasureInv, OrderInv, Below
  <2>6. (\A n \in unlogged.full : Pure(n) => Below(log.tail, n))'
    BY <1>1, <1>3, <2>2 DEF MeasureInv, OrderInv, Below
  <2>7. ASSUME NEW c \in Context, Pure(call[c].id)'
        PROVE  Below(log.tail, call[c].id)' /\ Below(hobs, call[c].id)'
    <3>1. CASE call'[c] = call[c]
      <4>1. Pure(call[c].id)
        BY <1>3, <2>7, <3>1 DEF Pure
      <4>2. Below(log.tail, call[c].id) /\ Below(hobs, call[c].id)
        BY <4>1 DEF MeasureInv, OrderInv
      <4>3. QED
        BY <1>1, <2>2, <3>1, <4>2 DEF Below
    <3>2. CASE call'[c].id > calls
      <4>1. call'[c].id \in Nat
        BY DEF CallInv, CallType
      <4>2. QED
        BY <1>1, <2>1, <3>2, <4>1 DEF Below
    <3>3. QED
      BY <2>7, <3>1, <3>2
  <2>8. (unlogged \in [full : SUBSET (1 .. calls), dropped : SUBSET Nat, unwanted : SUBSET Nat])'
    <3>1. 1 .. calls \subseteq 1 .. calls'
      BY <1>2
    <3>2. unlogged \in [full : SUBSET (1 .. calls), dropped : SUBSET Nat, unwanted : SUBSET Nat]
      BY DEF MeasureInv, OrderInv
    <3>3. QED
      BY <1>1, <3>1, <3>2
  <2>9. QED
    BY <2>4, <2>5, <2>6, <2>7, <2>8 DEF OrderInv
<1>7. TailInv'
  BY <1>1 DEF MeasureInv, TailInv
<1>8. AccountInv'
  <2>1. Lost' = Lost
    BY <1>1 DEF Lost
  <2>2. \A i \in 1 .. Len(rtmr) :
          \/ rtmr[i].id \in overlap' \cup Lost
          \/ \E c \in Context : call'[c].id = rtmr[i].id
          \/ InLog(log.tail, rtmr[i]) \/ InLog(hobs, rtmr[i])
    BY DEF MeasureInv, AccountInv
  <2>3. \A e : InReg(e)' <=> InReg(e)
    BY <1>1 DEF InReg
  <2>4. /\ \A j \in 1 .. Len(log.tail) : Pure(log.tail[j].id) => InReg(log.tail[j])
        /\ \A j \in 1 .. Len(hobs) : Pure(hobs[j].id) => InReg(hobs[j])
        /\ unlogged.full # {} => log.truncated
    BY DEF MeasureInv, AccountInv
  <2>5. (\A i \in 1 .. Len(rtmr) :
           \/ rtmr[i].id \in overlap \cup Lost
           \/ \E c \in Context : call[c].id = rtmr[i].id
           \/ InLog(log.tail, rtmr[i]) \/ InLog(hobs, rtmr[i]))'
    BY <1>1, <2>1, <2>2 DEF InLog
  <2>6. /\ (\A j \in 1 .. Len(log.tail) : Pure(log.tail[j].id) => InReg(log.tail[j]))'
        /\ (\A j \in 1 .. Len(hobs) : Pure(hobs[j].id) => InReg(hobs[j]))'
    BY <1>1, <1>3, <2>3, <2>4
  <2>7. QED
    BY <1>1, <2>4, <2>5, <2>6 DEF AccountInv
<1>9. QED
  BY <1>4, <1>5, <1>6, <1>7, <1>8 DEF MeasureInv

LEMMA CallBound ==
    ASSUME MeasureInv
    PROVE  calls \in 0 .. MaxCalls /\ \A c \in Context : call[c].id \in Call \cup {0}
<1>1. MaxCalls \in Nat /\ calls \in Nat
      /\ calls + Len(todo["main"]) + Len(todo["notify"]) <= MaxCalls
  BY MeasureAssumption DEF MeasureInv, CallInv
<1>2. Len(todo["main"]) \in Nat /\ Len(todo["notify"]) \in Nat
  BY Elements, ContextIs DEF MeasureInv, CallInv
<1>3. \A a, b \in Nat : calls + a + b <= MaxCalls => calls <= MaxCalls
  BY <1>1
<1>4. calls <= MaxCalls
  BY <1>1, <1>2, <1>3
<1>5. \A c \in Context : call[c].id \in Nat /\ call[c].id <= calls
  BY IdsAre DEF MeasureInv, CallInv
<1>6. QED
  BY <1>1, <1>4, <1>5 DEF Call

(* A context that runs is alone, unless it is a notification.              *)
LEMMA RunsAlone ==
    ASSUME MeasureInv, NEW c \in Context, Runs(c)
    PROVE  /\ c = "main" => call["notify"] = NoCall
           /\ phase \in {"sec", "sync"} /\ (call[c] # NoCall \/ todo[c] # <<>>) =>
                 phase = "sec" /\ c = "main"
  BY ContextIs DEF MeasureInv, PhaseInv, Runs

LEMMA StartKeeps ==
    ASSUME MeasureInv, NEW c \in Context, Start(c)
    PROVE  MeasureInv'
<1> DEFINE event == Head(todo[c])
<1>1. Runs(c) /\ call[c] = NoCall /\ todo[c] # <<>> /\ todo' = [todo EXCEPT ![c] = Tail(@)]
  BY DEF Start
<1>2. /\ phase' = phase /\ rtmr' = rtmr /\ hobs' = hobs /\ unlogged' = unlogged
      /\ log' = log /\ final' = final /\ numberOfEvents' = numberOfEvents /\ table' = table
      /\ getEventLogCalled' = getEventLogCalled /\ mark' = mark
  BY DEF Start, lossVars, logVars
<1>3. /\ todo \in [Context -> Seq(EventType)] /\ call \in [Context -> CallType]
      /\ calls \in Nat /\ calls + Len(todo["main"]) + Len(todo["notify"]) <= MaxCalls
      /\ call[c].id = 0 /\ call[c].step = "none" /\ "main" \in Context /\ "notify" \in Context
      /\ MaxCalls \in Nat
  BY <1>1, NoCallIs, ContextIs, MeasureAssumption DEF MeasureInv, CallInv
<1>4. /\ todo[c] \in Seq(EventType) /\ event \in EventType /\ Tail(todo[c]) \in Seq(EventType)
      /\ Len(Tail(todo[c])) = Len(todo[c]) - 1 /\ event = todo[c][1] /\ Len(todo[c]) > 0
      /\ \A i \in 1 .. Len(Tail(todo[c])) : i + 1 \in 1 .. Len(todo[c])
                                         /\ Tail(todo[c])[i] = todo[c][i + 1]
  BY <1>1, <1>3, Rest
<1>5. /\ todo' \in [Context -> Seq(EventType)] /\ todo'[c] = Tail(todo[c])
      /\ \A d \in Context : d # c => todo'[d] = todo[d]
  BY <1>1, <1>3, <1>4
<1>6. Len(todo'["main"]) + Len(todo'["notify"]) = Len(todo["main"]) + Len(todo["notify"]) - 1
  <2>1. Len(todo["main"]) \in Nat /\ Len(todo["notify"]) \in Nat
    BY <1>3, Elements
  <2>2. CASE c = "main"
    <3>1. /\ Len(todo'["main"]) = Len(todo["main"]) - 1
          /\ Len(todo'["notify"]) = Len(todo["notify"])
      BY <1>3, <1>4, <1>5, <2>2
    <3>2. QED
      BY <2>1, <3>1
  <2>3. CASE c = "notify"
    <3>1. /\ Len(todo'["notify"]) = Len(todo["notify"]) - 1
          /\ Len(todo'["main"]) = Len(todo["main"])
      BY <1>3, <1>4, <1>5, <2>3
    <3>2. QED
      BY <2>1, <3>1
  <2>4. QED
    BY <2>2, <2>3, ContextIs
<1>7. phase \in {"sec", "sync"} => phase = "sec" /\ c = "main" /\ event = Measure("Sec", 0)
  <2>1. phase \in {"sec", "sync"} => phase = "sec" /\ c = "main"
    BY <1>1, RunsAlone
  <2>2. phase = "sec" => \A i \in 1 .. Len(todo["main"]) : todo["main"][i] = Measure("Sec", 0)
    BY DEF MeasureInv, PhaseInv
  <2>3. 1 \in 1 .. Len(todo[c])
    BY <1>3, <1>4, Elements
  <2>4. QED
    BY <1>4, <2>1, <2>2, <2>3
<1>8. ASSUME phase = "sec"
      PROVE  \A i \in 1 .. Len(todo'["main"]) : todo'["main"][i] = Measure("Sec", 0)
  <2>1. c = "main" /\ \A i \in 1 .. Len(todo["main"]) : todo["main"][i] = Measure("Sec", 0)
    BY <1>7, <1>8 DEF MeasureInv, PhaseInv
  <2>2. QED
    BY <1>4, <1>5, <2>1
<1> HIDE DEF event
<1>9. ASSUME event.kind \in Silent
      PROVE  MeasureInv'
  <2>1. /\ call' = [call EXCEPT ![c] = [id |-> 0, step |-> "log", event |-> event]]
        /\ calls' = calls /\ buffer' = buffer /\ overlap' = overlap
    BY <1>9 DEF Start, event, Silent
  <2>2. /\ call' \in [Context -> CallType] /\ call'[c].id = 0 /\ call'[c].step = "log"
        /\ \A d \in Context : d # c => call'[d] = call[d]
    BY <1>3, <1>4, <2>1 DEF CallType
  <2>3. phase \notin {"sec", "sync"}
    BY <1>7, <1>9, SecMeasure DEF Silent
  <2>4. calls' + Len(todo'["main"]) + Len(todo'["notify"]) <= MaxCalls
    <3>1. \A a, b, x, y \in Nat : x + y = a + b - 1 /\ calls + a + b <= MaxCalls =>
             calls + x + y <= MaxCalls
      BY <1>3
    <3>2. /\ Len(todo["main"]) \in Nat /\ Len(todo["notify"]) \in Nat
          /\ Len(todo'["main"]) \in Nat /\ Len(todo'["notify"]) \in Nat
      BY <1>3, <1>5, Elements
    <3>3. QED
      BY <1>3, <1>6, <2>1, <3>1, <3>2
  <2>5. CallInv'
    <3>1. \A d \in Context : /\ call[d].id <= calls
                             /\ call[d].step \in {"none", "get"} => call[d].id = 0
                             /\ call[d].step = "extend" => call[d].id # 0
                             /\ call[d].id # 0 => call[d].event.kind \notin Silent
                             /\ call[d].id # 0 /\ call[d].step = "log" => ~call[d].event.extendOnly
      BY DEF MeasureInv, CallInv
    <3>2. \A d \in Context : /\ call'[d].id <= calls'
                             /\ call'[d].step \in {"none", "get"} => call'[d].id = 0
                             /\ call'[d].step = "extend" => call'[d].id # 0
                             /\ call'[d].id # 0 => call'[d].event.kind \notin Silent
                             /\ call'[d].id # 0 /\ call'[d].step = "log" =>
                                   ~call'[d].event.extendOnly
      BY <1>3, <2>1, <2>2, <3>1
    <3>3. QED
      BY <1>3, <1>5, <2>1, <2>2, <2>4, <3>2 DEF CallInv
  <2>6. \A d \in Context : call'[d].id = call[d].id
    BY <1>3, <2>2
  <2>7. BufferInv'
    BY <2>1, <2>6 DEF MeasureInv, BufferInv
  <2>8. PhaseInv'
    BY <1>2, <2>3 DEF MeasureInv, PhaseInv
  <2>9. \A d \in Context : Pure(call[d].id)' => call'[d] = call[d]
    BY <2>2 DEF Pure
  <2>10. QED
    BY <1>2, <1>3, <2>1, <2>5, <2>6, <2>7, <2>8, <2>9, CallMoves DEF logVars
<1>10. ASSUME event.kind \notin Silent
       PROVE  MeasureInv'
  <2>1. /\ call' = [call EXCEPT ![c] = [id |-> calls + 1, step |-> "extend", event |-> event]]
        /\ calls' = calls + 1 /\ buffer' = calls + 1
        /\ overlap' = IF InFlight = {} THEN overlap ELSE overlap \cup InFlight \cup {calls + 1}
    BY <1>10 DEF Start, event, Silent
  <2>2. /\ call' \in [Context -> CallType] /\ call'[c].id = calls + 1 /\ call'[c].step = "extend"
        /\ call'[c].event = event
        /\ \A d \in Context : d # c => call'[d] = call[d]
    BY <1>3, <1>4, <2>1 DEF CallType
  <2>3. calls' + Len(todo'["main"]) + Len(todo'["notify"]) <= MaxCalls
    <3>1. \A a, b, x, y \in Nat : x + y = a + b - 1 /\ calls + a + b <= MaxCalls =>
             calls + 1 + x + y <= MaxCalls
      BY <1>3
    <3>2. /\ Len(todo["main"]) \in Nat /\ Len(todo["notify"]) \in Nat
          /\ Len(todo'["main"]) \in Nat /\ Len(todo'["notify"]) \in Nat
      BY <1>3, <1>5, Elements
    <3>3. QED
      BY <1>3, <1>6, <2>1, <3>1, <3>2
  <2>4. \A d \in Context : call[d].id \in Nat /\ call[d].id <= calls
    BY IdsAre DEF MeasureInv, CallInv
  <2>5. CallInv'
    <3>1. \A d \in Context : /\ call[d].id <= calls
                             /\ call[d].step \in {"none", "get"} => call[d].id = 0
                             /\ call[d].step = "extend" => call[d].id # 0
                             /\ call[d].id # 0 => call[d].event.kind \notin Silent
                             /\ call[d].id # 0 /\ call[d].step = "log" => ~call[d].event.extendOnly
      BY DEF MeasureInv, CallInv
    <3>2. \A d \in Context : /\ call'[d].id <= calls'
                             /\ call'[d].step \in {"none", "get"} => call'[d].id = 0
                             /\ call'[d].step = "extend" => call'[d].id # 0
                             /\ call'[d].id # 0 => call'[d].event.kind \notin Silent
                             /\ call'[d].id # 0 /\ call'[d].step = "log" =>
                                   ~call'[d].event.extendOnly
      BY <1>3, <1>10, <2>1, <2>2, <2>4, <3>1
    <3>3. QED
      BY <1>3, <1>5, <2>1, <2>2, <2>3, <3>2 DEF CallInv
  <2>6. overlap \subseteq 1 .. calls /\ InFlight \subseteq 1 .. calls
    BY <1>3, <2>4, SMTT(40) DEF MeasureInv, BufferInv, InFlight
  <2>7. /\ overlap \subseteq overlap' /\ overlap' \subseteq 1 .. calls'
        /\ \A d \in Context : d # c /\ call[d].id # 0 =>
              call[d].id \in overlap' /\ calls + 1 \in overlap'
    <3>1. \A d \in Context : call[d].id # 0 => call[d].id \in InFlight
      BY DEF InFlight
    <3>2. 1 .. calls \subseteq 1 .. calls' /\ calls + 1 \in 1 .. calls'
      BY <1>3, <2>1
    <3>3. CASE InFlight = {}
      <4>1. overlap' = overlap
        BY <2>1, <3>3
      <4>2. QED
        BY <2>6, <3>1, <3>2, <3>3, <4>1
    <3>4. CASE InFlight # {}
      <4>1. overlap' = overlap \cup InFlight \cup {calls + 1}
        BY <2>1, <3>4
      <4>2. QED
        BY <2>6, <3>1, <3>2, <4>1
    <3>5. QED
      BY <3>3, <3>4
  <2>8. BufferInv'
    BY <2>1, <2>2, <2>7 DEF BufferInv
  <2>9. PhaseInv'
    <3>1. phase \in {"sec", "sync"} => phase = "sec" /\ c = "main"
      BY <1>7
    <3>2. phase = "sec" => /\ call'["main"].event = Measure("Sec", 0) /\ call'["main"].id # 0
                           /\ call'["notify"] = NoCall /\ todo'["notify"] = <<>>
      BY <1>3, <1>5, <1>7, <2>2 DEF MeasureInv, PhaseInv
    <3>3. QED
      BY <1>2, <1>8, <3>1, <3>2 DEF MeasureInv, PhaseInv
  <2>10. \A d \in Context : Pure(call[d].id)' =>
            call'[d].id > calls /\ call'[d].step = "extend"
    <3>1. ASSUME NEW d \in Context, Pure(call[d].id)', d # c
          PROVE  FALSE
      <4>1. call'[d] = call[d]
        BY <2>2, <3>1
      <4>2. call[d].id # 0 /\ call[d].id \notin overlap'
        BY <3>1, <4>1 DEF Pure
      <4>3. QED
        BY <2>7, <3>1, <4>2
    <3>2. call'[c].id > calls
      BY <1>3, <2>2
    <3>3. QED
      BY <2>2, <3>1, <3>2
  <2>11. \A d \in Context : \A i \in 1 .. Len(rtmr) : rtmr[i].id = call[d].id =>
            call'[d].id = call[d].id
    <3>1. \A i \in 1 .. Len(rtmr) : rtmr[i].id # 0
      BY IdsAre
    <3>2. QED
      BY <1>3, <2>2, <3>1
  <2>12. calls <= calls'
    BY <1>3, <2>1
  <2>13. QED
    BY <1>2, <2>5, <2>7, <2>8, <2>9, <2>10, <2>11, <2>12, CallMoves DEF logVars
<1>11. QED
  BY <1>9, <1>10

(* What Finish leaves to measure.                                          *)
LEMMA Finished ==
    ASSUME MeasureInv, NEW c \in Context, NEW ok \in BOOLEAN, Finish(c, ok), Runs(c),
           call[c].step # "none", phase' = phase, hobs' = hobs \/ phase = "sec",
           phase = "sec" => log' = log /\ final' = final /\ unlogged'.full = unlogged.full,
           calls' = calls, buffer' = buffer, overlap' = overlap,
           getEventLogCalled' = getEventLogCalled
    PROVE  /\ CallInv' /\ BufferInv' /\ PhaseInv'
           /\ call'[c] = NoCall /\ call'[c].id = 0
           /\ \A d \in Context : d # c => call'[d] = call[d]
<1>1. /\ call' = [call EXCEPT ![c] = NoCall]
      /\ todo' = IF ok \/ call[c].event.kind # "BootOrder" THEN todo
                 ELSE [todo EXCEPT ![c] = SkipVariables(@)]
  BY DEF Finish
<1>2. /\ todo \in [Context -> Seq(EventType)] /\ call \in [Context -> CallType]
      /\ calls \in Nat /\ calls + Len(todo["main"]) + Len(todo["notify"]) <= MaxCalls
      /\ "main" \in Context /\ "notify" \in Context /\ MaxCalls \in Nat
  BY ContextIs, MeasureAssumption DEF MeasureInv, CallInv
<1>3. /\ call' \in [Context -> CallType] /\ call'[c] = NoCall /\ call'[c].id = 0
      /\ call'[c].step = "none" /\ \A d \in Context : d # c => call'[d] = call[d]
  BY <1>1, <1>2, NoCallIs
<1>4. \A s \in Seq(EventType) :
         SkipVariables(s) \in Seq(EventType) /\ Len(SkipVariables(s)) <= Len(s)
  <2>1. \A s \in Seq(EventType) : s # <<>> => Tail(s) \in Seq(EventType) /\ Len(Tail(s)) <= Len(s)
    BY Rest
  <2>2. \A s \in Seq(EventType) : Len(s) <= Len(s)
    BY Elements
  <2>3. QED
    BY <2>1, <2>2 DEF SkipVariables
<1>5. /\ todo' \in [Context -> Seq(EventType)]
      /\ \A d \in Context : Len(todo'[d]) <= Len(todo[d])
  <2>1. \A d \in Context : Len(todo[d]) <= Len(todo[d])
    BY <1>2, Elements
  <2>2. CASE todo' = todo
    BY <1>2, <2>1, <2>2
  <2>3. CASE todo' = [todo EXCEPT ![c] = SkipVariables(@)]
    BY <1>2, <1>4, <2>1, <2>3
  <2>4. QED
    BY <1>1, <2>2, <2>3
<1>6. calls + Len(todo'["main"]) + Len(todo'["notify"]) <= MaxCalls
  <2>1. \A a, b, x, y \in Nat : x <= a /\ y <= b /\ calls + a + b <= MaxCalls =>
           calls + x + y <= MaxCalls
    BY <1>2
  <2>2. /\ Len(todo["main"]) \in Nat /\ Len(todo["notify"]) \in Nat
        /\ Len(todo'["main"]) \in Nat /\ Len(todo'["notify"]) \in Nat
    BY <1>2, <1>5, Elements
  <2>3. QED
    BY <1>2, <1>5, <2>1, <2>2
<1>7. CallInv'
  <2>1. \A d \in Context : /\ call[d].id <= calls
                           /\ call[d].step \in {"none", "get"} => call[d].id = 0
                           /\ call[d].step = "extend" => call[d].id # 0
                           /\ call[d].id # 0 => call[d].event.kind \notin Silent
                           /\ call[d].id # 0 /\ call[d].step = "log" => ~call[d].event.extendOnly
    BY DEF MeasureInv, CallInv
  <2>2. \A d \in Context : /\ call'[d].id <= calls
                           /\ call'[d].step \in {"none", "get"} => call'[d].id = 0
                           /\ call'[d].step = "extend" => call'[d].id # 0
                           /\ call'[d].id # 0 => call'[d].event.kind \notin Silent
                           /\ call'[d].id # 0 /\ call'[d].step = "log" =>
                                 ~call'[d].event.extendOnly
    <3>1. ASSUME NEW d \in Context, d # c PROVE call'[d] = call[d]
      BY <1>3, <3>1
    <3>2. call'[c].id = 0 /\ call'[c].step = "none" /\ 0 <= calls
      BY <1>2, <1>3
    <3>3. QED
      BY <2>1, <3>1, <3>2
  <2>3. QED
    BY <1>2, <1>3, <1>5, <1>6, <2>2 DEF CallInv
<1>8. BufferInv'
  BY <1>3 DEF MeasureInv, BufferInv
<1>9. PhaseInv'
  <2>1. phase \in {"sec", "sync"} => phase = "sec" /\ c = "main"
    BY RunsAlone, NoCallIs
  <2>2. CASE phase \notin {"sec", "sync"}
    BY <2>2 DEF MeasureInv, PhaseInv
  <2>3. CASE phase = "sec"
    <3>1. c = "main" /\ call["main"].event = Measure("Sec", 0)
      BY <2>1, <2>3 DEF MeasureInv, PhaseInv
    <3>2. todo' = todo
      BY <1>1, <3>1, SecMeasure
    <3>3. call'["main"] = NoCall /\ call'["notify"] = call["notify"] /\ call'["main"].step = "none"
      BY <1>2, <1>3, <3>1
    <3>4. QED
      BY <2>3, <3>2, <3>3 DEF MeasureInv, PhaseInv
  <2>4. QED
    BY <2>1, <2>2, <2>3
<1>10. QED
  BY <1>3, <1>7, <1>8, <1>9

LEMMA ExtendFailsKeeps ==
    ASSUME MeasureInv, NEW c \in Context, ExtendFails(c)
    PROVE  MeasureInv'
<1>1. /\ Runs(c) /\ call[c].step = "extend" /\ Finish(c, FALSE) /\ phase' = phase
      /\ rtmr' = rtmr /\ hobs' = hobs /\ unlogged' = unlogged
      /\ log' = log /\ final' = final /\ numberOfEvents' = numberOfEvents /\ table' = table
      /\ getEventLogCalled' = getEventLogCalled /\ mark' = mark /\ buffer' = buffer
      /\ calls' = calls /\ overlap' = overlap
  BY DEF ExtendFails, At, regVars, logVars, setupVars
<1>2. /\ CallInv' /\ BufferInv' /\ PhaseInv' /\ call'[c].id = 0
      /\ \A d \in Context : d # c => call'[d] = call[d]
  BY <1>1, Finished
<1>3. \A d \in Context : Pure(call[d].id)' => call'[d] = call[d]
  BY <1>2 DEF Pure
<1>4. \A i \in 1 .. Len(rtmr) : rtmr[i].id = call[c].id => call[c].id \in overlap'
  <2>1. Pure(call[c].id) => \A i \in 1 .. Len(rtmr) : rtmr[i].id < call[c].id
    BY <1>1 DEF MeasureInv, RegInv, InRegisters
  <2>2. \A i \in 1 .. Len(rtmr) : rtmr[i].id \in Nat /\ rtmr[i].id # 0
    BY IdsAre
  <2>3. ASSUME NEW i \in 1 .. Len(rtmr), rtmr[i].id = call[c].id
        PROVE  call[c].id \in overlap'
    <3>1. call[c].id # 0 /\ ~(rtmr[i].id < call[c].id)
      BY <2>2, <2>3
    <3>2. ~Pure(call[c].id)
      BY <2>1, <3>1
    <3>3. QED
      BY <1>1, <3>1, <3>2 DEF Pure
  <2>4. QED
    BY <2>3
<1>5. \A d \in Context : \A i \in 1 .. Len(rtmr) : rtmr[i].id = call[d].id =>
         call'[d].id = call[d].id \/ call[d].id \in overlap'
  BY <1>2, <1>4
<1>6. calls <= calls' /\ overlap \subseteq overlap'
  BY <1>1, IdsAre
<1>7. QED
  BY <1>1, <1>2, <1>3, <1>5, <1>6, CallMoves DEF logVars

LEMMA TdExtendRtmrKeeps ==
    ASSUME MeasureInv, NEW c \in Context, TdExtendRtmr(c)
    PROVE  MeasureInv'
<1> DEFINE mr == call[c].event.mr
           id == call[c].id
           x == [mr |-> mr, id |-> calls]
           RegType == [mr : 0 .. RTMR_COUNT - 1, id : Call]
<1>1. /\ Runs(c) /\ call[c].step = "extend" /\ mr < RTMR_COUNT /\ phase' = phase
      /\ rtmr' = Append(rtmr, [mr |-> mr, id |-> buffer]) /\ hobs' = hobs
      /\ log' = log /\ final' = final /\ numberOfEvents' = numberOfEvents /\ table' = table
      /\ getEventLogCalled' = getEventLogCalled /\ mark' = mark /\ buffer' = buffer
      /\ calls' = calls /\ overlap' = overlap
      /\ IF call[c].event.extendOnly
         THEN Finish(c, TRUE) /\ unlogged' = [unlogged EXCEPT !.unwanted = @ \cup {id}]
         ELSE call' = [call EXCEPT ![c].step = "log"] /\ todo' = todo /\ unlogged' = unlogged
  BY DEF TdExtendRtmr, At, logVars, setupVars
<1>2. /\ id \in Nat /\ id # 0 /\ id <= calls /\ calls \in Nat /\ call[c].event \in EventType
      /\ call \in [Context -> CallType] /\ todo \in [Context -> Seq(EventType)]
      /\ calls + Len(todo["main"]) + Len(todo["notify"]) <= MaxCalls
      /\ call[c].event.kind \notin Silent
  BY <1>1, IdsAre DEF MeasureInv, CallInv
<1>3. buffer = calls /\ (Pure(id) => id = calls) /\ (Pure(calls) => Pure(id))
  BY <1>2 DEF MeasureInv, BufferInv, Pure
<1>4. calls \in Call /\ mr \in 0 .. RTMR_COUNT - 1 /\ x \in RegType
  <2>1. /\ Len(todo["main"]) \in Nat /\ Len(todo["notify"]) \in Nat
    BY <1>2, Elements, ContextIs
  <2>2. MaxCalls \in Nat
    BY MeasureAssumption
  <2>3. calls <= MaxCalls
    <3>1. \A a, b \in Nat : calls + a + b <= MaxCalls => calls <= MaxCalls
      BY <1>2, <2>2
    <3>2. QED
      BY <1>2, <2>1, <3>1
  <2>4. calls \in Call
    BY <1>2, <2>2, <2>3 DEF Call
  <2>5. mr \in 0 .. RTMR_COUNT - 1
    BY <1>1, <1>2 DEF EventType, RTMR_COUNT
  <2>6. QED
    BY <2>4, <2>5
<1>5. /\ rtmr \in Seq(RegType) /\ \A i \in 1 .. Len(rtmr) : rtmr[i].id <= calls
      /\ Increases(rtmr) /\ Len(rtmr) \in Nat
  BY IdsAre DEF MeasureInv, RegInv
<1>6. /\ rtmr' \in Seq(RegType) /\ Len(rtmr') = Len(rtmr) + 1 /\ rtmr'[Len(rtmr) + 1] = x
      /\ \A i \in 1 .. Len(rtmr) : rtmr'[i] = rtmr[i]
  <2>1. rtmr' = Append(rtmr, x)
    BY <1>1, <1>3
  <2>2. QED
    BY <1>4, <1>5, <2>1, Appended
<1>7. \A i \in 1 .. Len(rtmr') : i = Len(rtmr) + 1 \/ i \in 1 .. Len(rtmr)
  BY <1>5, <1>6
<1>8. /\ Pure(id) => \A i \in 1 .. Len(rtmr) : rtmr[i].id < id
      /\ \A i \in 1 .. Len(rtmr) : rtmr[i].id \in Nat /\ rtmr[i].id # 0
  <2>1. Pure(id) => InRegisters(c)
    BY DEF MeasureInv, RegInv
  <2>2. Pure(id) => \A i \in 1 .. Len(rtmr) : rtmr[i].id < id
    BY <1>1, <2>1 DEF InRegisters
  <2>3. \A i \in 1 .. Len(rtmr) : rtmr[i].id \in Nat /\ rtmr[i].id # 0
    BY IdsAre
  <2>4. QED
    BY <2>2, <2>3
<1>9. /\ \A d \in Context : d # c => ~Pure(call[d].id)
      /\ \A n : Pure(n)' <=> Pure(n)
  BY <1>1, <1>2 DEF MeasureInv, BufferInv, Pure
<1>10. x.mr = mr /\ x.id = calls
  OBVIOUS
<1> HIDE DEF x, RegType
<1>11. /\ CallInv' /\ BufferInv' /\ PhaseInv'
       /\ \A d \in Context : d # c => call'[d] = call[d]
       /\ \/ /\ call'[c].id = 0
             /\ unlogged' = [unlogged EXCEPT !.unwanted = @ \cup {id}]
          \/ /\ call'[c].id = id /\ call'[c].event = call[c].event /\ call'[c].step = "log"
             /\ unlogged' = unlogged
  <2>1. CASE call[c].event.extendOnly
    <3>1. Finish(c, TRUE) /\ unlogged' = [unlogged EXCEPT !.unwanted = @ \cup {id}]
      BY <1>1, <2>1
    <3>2. unlogged'.full = unlogged.full
      BY <3>1 DEF MeasureInv, OrderInv
    <3>3. /\ CallInv' /\ BufferInv' /\ PhaseInv' /\ call'[c].id = 0
          /\ \A d \in Context : d # c => call'[d] = call[d]
      BY <1>1, <3>1, <3>2, Finished
    <3>4. QED
      BY <3>1, <3>3
  <2>2. CASE ~call[c].event.extendOnly
    <3>1. call' = [call EXCEPT ![c].step = "log"] /\ todo' = todo /\ unlogged' = unlogged
      BY <1>1, <2>2
    <3>2. /\ call' \in [Context -> CallType]
          /\ call'[c].id = id /\ call'[c].event = call[c].event /\ call'[c].step = "log"
          /\ \A d \in Context : d # c => call'[d] = call[d]
      BY <1>2, <3>1 DEF CallType
    <3>3. CallInv'
      <4>1. \A d \in Context : /\ call[d].id <= calls
                               /\ call[d].step \in {"none", "get"} => call[d].id = 0
                               /\ call[d].step = "extend" => call[d].id # 0
                               /\ call[d].id # 0 => call[d].event.kind \notin Silent
                               /\ call[d].id # 0 /\ call[d].step = "log" =>
                                     ~call[d].event.extendOnly
        BY DEF MeasureInv, CallInv
      <4>2. \A d \in Context : /\ call'[d].id <= calls
                               /\ call'[d].step \in {"none", "get"} => call'[d].id = 0
                               /\ call'[d].step = "extend" => call'[d].id # 0
                               /\ call'[d].id # 0 => call'[d].event.kind \notin Silent
                               /\ call'[d].id # 0 /\ call'[d].step = "log" =>
                                     ~call'[d].event.extendOnly
        BY <1>2, <2>2, <3>2, <4>1
      <4>3. QED
        BY <1>1, <1>2, <3>1, <3>2, <4>2 DEF CallInv
    <3>4. \A d \in Context : call'[d].id = call[d].id
      BY <3>2
    <3>5. BufferInv'
      BY <1>1, <3>4 DEF MeasureInv, BufferInv
    <3>6. PhaseInv'
      <4>1. phase \in {"sec", "sync"} => phase = "sec" /\ c = "main"
        BY <1>1, RunsAlone, NoCallIs
      <4>2. phase = "sec" => /\ call["main"].event = Measure("Sec", 0)
                             /\ call'["notify"] = call["notify"]
        BY <1>1, <3>2, <4>1, ContextIs DEF MeasureInv, PhaseInv
      <4>3. phase = "sec" => call'["main"].event = Measure("Sec", 0) /\ call'["main"].id # 0
        BY <1>2, <3>2, <4>1, <4>2
      <4>4. QED
        BY <1>1, <3>1, <4>1, <4>2, <4>3 DEF MeasureInv, PhaseInv
    <3>7. QED
      BY <3>1, <3>2, <3>3, <3>5, <3>6
  <2>3. QED
    BY <2>1, <2>2
<1>12. AreaInv'
  BY <1>1 DEF MeasureInv, AreaInv
<1>13. RegInv'
  <2>1. (rtmr \in Seq([mr : 0 .. RTMR_COUNT - 1, id : Call]))'
    BY <1>6 DEF RegType, Call
  <2>2. \A i \in 1 .. Len(rtmr') : rtmr'[i].id <= calls
    <3>1. rtmr'[Len(rtmr) + 1].id <= calls
      BY <1>2, <1>6, <1>10
    <3>2. ASSUME NEW i \in 1 .. Len(rtmr) PROVE rtmr'[i].id <= calls
      BY <1>5, <1>6
    <3>3. QED
      BY <1>7, <3>1, <3>2
  <2>3. Increases(rtmr)'
    <3>1. ASSUME NEW i \in 1 .. Len(rtmr'), NEW j \in 1 .. Len(rtmr'), i < j,
                 Pure(rtmr'[i].id), Pure(rtmr'[j].id)
          PROVE  rtmr'[i].id < rtmr'[j].id
      <4>1. CASE j \in 1 .. Len(rtmr)
        <5>1. i \in 1 .. Len(rtmr)
          BY <1>5, <1>7, <3>1, <4>1
        <5>2. QED
          BY <1>5, <1>6, <3>1, <4>1, <5>1 DEF Increases
      <4>2. CASE j = Len(rtmr) + 1
        <5>1. i \in 1 .. Len(rtmr) /\ rtmr'[i] = rtmr[i]
          BY <1>5, <1>6, <1>7, <3>1, <4>2
        <5>2. Pure(id) /\ id = calls /\ rtmr'[j].id = calls
          BY <1>3, <1>6, <1>10, <3>1, <4>2
        <5>3. QED
          BY <1>8, <5>1, <5>2
      <4>3. QED
        BY <1>7, <4>1, <4>2
    <3>2. QED
      BY <1>9, <3>1 DEF Increases
  <2>4. ASSUME NEW d \in Context, Pure(call[d].id)'
        PROVE  InRegisters(d)'
    <3>1. Pure(call'[d].id)
      BY <1>9, <2>4 DEF Pure
    <3>2. d = c
      BY <1>9, <1>11, <3>1
    <3>3. /\ call'[c].id = id /\ call'[c].event = call[c].event /\ call'[c].step = "log"
          /\ Pure(id)
      BY <1>11, <3>1, <3>2 DEF Pure
    <3>4. id = calls /\ \A i \in 1 .. Len(rtmr) : rtmr[i].id < id /\ rtmr[i].id \in Nat
      BY <1>3, <1>8, <3>3
    <3>5. Len(rtmr) + 1 \in 1 .. Len(rtmr') /\ rtmr'[Len(rtmr) + 1].mr = mr
          /\ rtmr'[Len(rtmr) + 1].id = id
      BY <1>5, <1>6, <1>10, <3>4
    <3>6. ASSUME NEW i \in 1 .. Len(rtmr'), rtmr'[i].id = id
          PROVE  rtmr'[i].mr = mr
      <4>1. CASE i \in 1 .. Len(rtmr)
        <5>1. rtmr'[i] = rtmr[i] /\ rtmr[i].id < id
          BY <1>6, <3>4, <4>1
        <5>2. QED
          BY <1>2, <3>6, <5>1
      <4>2. QED
        BY <1>7, <3>5, <4>1
    <3>7. QED
      BY <3>2, <3>3, <3>5, <3>6 DEF InRegisters
  <2>5. QED
    BY <1>1, <2>1, <2>2, <2>3, <2>4, Zenon DEF RegInv
<1>14. unlogged'.full = unlogged.full /\ Lost \subseteq Lost' /\ (call'[c].id = id \/ id \in Lost')
       /\ unlogged' \in [full : SUBSET (1 .. calls), dropped : SUBSET Nat, unwanted : SUBSET Nat]
  <2>1. unlogged \in [full : SUBSET (1 .. calls), dropped : SUBSET Nat, unwanted : SUBSET Nat]
    BY DEF MeasureInv, OrderInv
  <2>2. CASE unlogged' = unlogged /\ call'[c].id = id
    BY <2>1, <2>2 DEF Lost
  <2>3. CASE unlogged' = [unlogged EXCEPT !.unwanted = @ \cup {id}]
    <3>1. /\ unlogged'.full = unlogged.full /\ unlogged'.dropped = unlogged.dropped
          /\ unlogged'.unwanted = unlogged.unwanted \cup {id}
          /\ unlogged' \in [full : SUBSET (1 .. calls), dropped : SUBSET Nat,
                             unwanted : SUBSET Nat]
      BY <1>2, <2>1, <2>3
    <3>2. QED
      BY <3>1 DEF Lost
  <2>4. QED
    BY <1>11, <2>2, <2>3
<1>15. OrderInv'
  <2>1. \A d \in Context : Pure(call'[d].id) => call'[d].id = call[d].id
    BY <1>11 DEF Pure
  <2>2. (unlogged \in [full : SUBSET (1 .. calls), dropped : SUBSET Nat, unwanted : SUBSET Nat])'
    BY <1>1, <1>14
  <2>3. Increases(log.tail)' /\ Increases(hobs)'
    BY <1>1 DEF MeasureInv, OrderInv, Increases, Pure
  <2>4. (\A j \in 1 .. Len(hobs) : Pure(hobs[j].id) => Below(log.tail, hobs[j].id))'
    BY <1>1 DEF MeasureInv, OrderInv, Below, Pure
  <2>5. (\A n \in unlogged.full : Pure(n) => Below(log.tail, n))'
    BY <1>1, <1>14 DEF MeasureInv, OrderInv, Below, Pure
  <2>6. \A d \in Context : Pure(call[d].id)' =>
           Below(log.tail, call[d].id)' /\ Below(hobs, call[d].id)'
    BY <1>1, <2>1 DEF MeasureInv, OrderInv, Below, Pure
  <2>7. QED
    BY <2>2, <2>3, <2>4, <2>5, <2>6 DEF OrderInv
<1>16. TailInv'
  BY <1>1 DEF MeasureInv, TailInv
<1>17. AccountInv'
  <2>1. \A i \in 1 .. Len(rtmr) :
          \/ rtmr[i].id \in overlap \cup Lost'
          \/ \E d \in Context : call'[d].id = rtmr[i].id
          \/ InLog(log.tail, rtmr[i]) \/ InLog(hobs, rtmr[i])
    BY <1>11, <1>14 DEF MeasureInv, AccountInv
  <2>2. calls \in overlap \cup Lost' \/ \E d \in Context : call'[d].id = calls
    BY <1>2, <1>3, <1>14 DEF MeasureInv, BufferInv, Pure
  <2>3. \A i \in 1 .. Len(rtmr') :
          \/ rtmr'[i].id \in overlap' \cup Lost'
          \/ \E d \in Context : call'[d].id = rtmr'[i].id
          \/ InLog(log.tail, rtmr'[i]) \/ InLog(hobs, rtmr'[i])
    BY <1>1, <1>6, <1>7, <1>10, <2>1, <2>2
  <2>4. \A e : InReg(e) => InReg(e)'
    <3>1. 1 .. Len(rtmr) \subseteq 1 .. Len(rtmr')
      BY <1>5, <1>6
    <3>2. QED
      BY <1>6, <3>1 DEF InReg
  <2>5. QED
    BY <1>1, <1>9, <1>14, <2>3, <2>4 DEF MeasureInv, AccountInv, InLog
<1>18. QED
  BY <1>11, <1>12, <1>13, <1>15, <1>16, <1>17 DEF MeasureInv

-----------------------------------------------------------------------------
(* The log.                                                                *)
LEMMA GetEventLogMoves ==
    ASSUME MeasureInv, NEW c \in Context, call[c].step \in {"none", "get"},
           phase \notin {"sec", "sync"}, NEW step \in {"none", "get"},
           phase' = phase, todo' = todo, UNCHANGED <<hobs, calls, overlap, buffer>>,
           \/ call' = [call EXCEPT ![c].step = step]
           \/ call' = [call EXCEPT ![c] = NoCall]
    PROVE  /\ CallInv' /\ BufferInv' /\ PhaseInv'
           /\ \A d \in Context : /\ d # c => call'[d] = call[d]
                                /\ call'[d].id = call[d].id /\ (call[d].id # 0 => d # c)
<1>1. /\ call \in [Context -> CallType] /\ call[c] \in CallType /\ call[c].id = 0
  BY DEF MeasureInv, CallInv
<1>2. /\ call' \in [Context -> CallType] /\ call'[c].id = 0 /\ call'[c] \in CallType
      /\ call'[c].step \in {"none", "get"}
      /\ \A d \in Context : d # c => call'[d] = call[d]
  BY <1>1, NoCallIs DEF CallType
<1>3. \A d \in Context : call'[d].id = call[d].id /\ (call[d].id # 0 => d # c)
  BY <1>1, <1>2
<1>4. calls \in Nat /\ calls' = calls /\ overlap' = overlap /\ buffer' = buffer /\ hobs' = hobs
  BY DEF MeasureInv, CallInv
<1>5. CallInv'
  BY <1>2, <1>3, <1>4 DEF MeasureInv, CallInv
<1>6. BufferInv'
  BY <1>3, <1>4 DEF MeasureInv, BufferInv
<1>7. PhaseInv'
  BY <1>4 DEF MeasureInv, PhaseInv
<1>8. QED
  BY <1>2, <1>3, <1>5, <1>6, <1>7

LEMMA TdGetEventLogKeeps ==
    ASSUME MeasureInv, NEW c \in Context, TdGetEventLog(c)
    PROVE  MeasureInv'
<1>1. /\ phase = "dxe" /\ phase' = phase /\ rtmr' = rtmr /\ hobs' = hobs /\ unlogged' = unlogged
      /\ log' = log /\ final' = final /\ numberOfEvents' = numberOfEvents /\ table' = table
      /\ getEventLogCalled' = getEventLogCalled /\ buffer' = buffer /\ calls' = calls
      /\ overlap' = overlap /\ todo' = todo /\ mark' = mark
      /\ call[c] = NoCall /\ call' = [call EXCEPT ![c].step = "get"]
  BY DEF TdGetEventLog, Idle, regVars, lossVars, logVars
<1>2. call[c].step \in {"none", "get"} /\ "get" \in {"none", "get"}
  BY <1>1, NoCallIs
<1>3. /\ CallInv' /\ BufferInv' /\ PhaseInv'
      /\ \A d \in Context : /\ d # c => call'[d] = call[d]
                           /\ call'[d].id = call[d].id /\ (call[d].id # 0 => d # c)
  BY <1>1, <1>2, GetEventLogMoves
<1>4. UNCHANGED <<rtmr, hobs, unlogged, logVars, table, getEventLogCalled, mark>>
  BY <1>1 DEF logVars
<1>5. calls <= calls' /\ overlap \subseteq overlap'
  BY <1>1 DEF MeasureInv, CallInv
<1>6. \A d \in Context : Pure(call[d].id)' =>
         call'[d] = call[d] \/ (call'[d].id > calls /\ call'[d].step = "extend")
  BY <1>3 DEF Pure
<1>7. QED
  BY <1>3, <1>4, <1>5, <1>6, CallMoves

LEMMA GetEventLogReturnsKeeps ==
    ASSUME MeasureInv, NEW c \in Context, GetEventLogReturns(c)
    PROVE  MeasureInv'
<1>1. /\ phase' = phase /\ rtmr' = rtmr /\ hobs' = hobs /\ unlogged' = unlogged
      /\ log' = log /\ final' = final /\ numberOfEvents' = numberOfEvents /\ table' = table
      /\ getEventLogCalled' = TRUE /\ buffer' = buffer /\ calls' = calls /\ overlap' = overlap
      /\ call[c].step = "get" /\ call' = [call EXCEPT ![c] = NoCall] /\ todo' = todo
      /\ mark' = IF getEventLogCalled THEN mark ELSE [head |-> log.head, tail |-> Len(log.tail)]
  BY DEF GetEventLogReturns, At, regVars, lossVars, logVars
<1>2. /\ CallInv' /\ BufferInv' /\ PhaseInv'
      /\ \A d \in Context : /\ d # c => call'[d] = call[d]
                           /\ call'[d].id = call[d].id /\ (call[d].id # 0 => d # c)
  <2>1. phase \notin {"sec", "sync"}
    <3>1. call[c].id = 0 /\ call[c] # NoCall /\ Runs(c)
      BY <1>1, NoCallIs DEF GetEventLogReturns, At, MeasureInv, CallInv
    <3>2. QED
      BY <1>1, <3>1, RunsAlone DEF MeasureInv, PhaseInv
  <2>2. QED
    BY <1>1, <2>1, GetEventLogMoves
<1>3. AreaInv'
  BY <1>1 DEF MeasureInv, AreaInv
<1>4. RegInv'
  BY <1>1, <1>2 DEF MeasureInv, RegInv, InRegisters, Increases, Pure, Call
<1>5. OrderInv'
  BY <1>1, <1>2 DEF MeasureInv, OrderInv, Increases, Below, Pure
<1>6. AccountInv'
  BY <1>1, <1>2 DEF MeasureInv, AccountInv, Lost, InLog, InReg, Pure
<1>7. TailInv'
  <2>1. CASE getEventLogCalled
    BY <1>1, <2>1 DEF MeasureInv, TailInv
  <2>2. CASE ~getEventLogCalled
    <3>1. /\ mark'.head = log.head /\ mark'.tail = Len(log.tail) /\ final.tail = <<>>
          /\ Len(final.tail) = 0 /\ log.head \in Nat /\ numberOfEvents = 0
      BY <1>1, <2>2 DEF MeasureInv, TailInv, AreaInv, AreaType
    <3>2. table \in BOOLEAN /\ Len(log.tail) \in Nat
      BY IdsAre DEF MeasureInv, TailInv
    <3>3. mark'.tail + 0 = Len(log.tail) /\ mark'.tail \in Nat /\ mark'.head \in Nat
          /\ mark'.head <= log.head /\ mark'.tail + 0 <= Len(log.tail) /\ 0 \in Nat
      BY <3>1, <3>2
    <3>4. \A i \in 1 .. Len(final.tail) : FALSE
      BY <3>1
    <3>5. QED
      BY <1>1, <3>1, <3>2, <3>3, <3>4 DEF TailInv
  <2>3. QED
    BY <2>1, <2>2
<1>8. QED
  BY <1>2, <1>3, <1>4, <1>5, <1>6, <1>7 DEF MeasureInv

LEMMA SecLogKeeps ==
    ASSUME MeasureInv, SecLog
    PROVE  MeasureInv'
<1>a. PICK id : id = call["main"].id
  OBVIOUS
<1>b. PICK e : e = Entry("main")
  OBVIOUS
<1>1. /\ phase = "sec" /\ phase' = phase /\ rtmr' = rtmr /\ buffer' = buffer
      /\ log' = log /\ final' = final /\ numberOfEvents' = numberOfEvents /\ table' = table
      /\ getEventLogCalled' = getEventLogCalled /\ mark' = mark
      /\ calls' = calls /\ overlap' = overlap /\ Finish("main", TRUE)
      /\ Runs("main") /\ call["main"].step = "log"
  BY DEF SecLog, At, regVars, logVars, setupVars
<1>2. \/ hobs' = Append(hobs, e) /\ unlogged' = unlogged
      \/ hobs' = hobs /\ unlogged' = [unlogged EXCEPT !.dropped = @ \cup {id}]
  BY <1>a, <1>b DEF SecLog
<1>3. /\ call["main"].event = Measure("Sec", 0) /\ id # 0 /\ call["notify"] = NoCall
      /\ log = NoArea /\ id \in Nat /\ id <= calls /\ calls \in Nat /\ "main" \in Context
      /\ hobs \in Seq(EntryType) /\ Len(hobs) \in Nat
      /\ unlogged \in [full : SUBSET (1 .. calls), dropped : SUBSET Nat, unwanted : SUBSET Nat]
  BY <1>1, <1>a, IdsAre, ContextIs DEF MeasureInv, PhaseInv, CallInv, AreaInv, OrderInv
<1>4. /\ unlogged' \in [full : SUBSET (1 .. calls), dropped : SUBSET Nat, unwanted : SUBSET Nat]
      /\ unlogged'.full = unlogged.full /\ Lost \subseteq Lost'
      /\ (hobs' = Append(hobs, e) \/ (hobs' = hobs /\ id \in Lost'))
  BY <1>2, <1>3 DEF Lost
<1>5. /\ CallInv' /\ BufferInv' /\ PhaseInv'
      /\ \A d \in Context : call'[d].id = 0
  <2>1. /\ CallInv' /\ BufferInv' /\ PhaseInv' /\ call'["main"].id = 0
        /\ \A d \in Context : d # "main" => call'[d] = call[d]
    BY <1>1, <1>3, <1>4, Finished
  <2>2. QED
    BY <1>3, <2>1, ContextIs, NoCallIs
<1>6. e.id = id /\ e.size = 1 /\ e.mr = 0 + 1 /\ e \in EntryType
  <2>1. calls \in 0 .. MaxCalls
    BY <1>3, ContextIs, CallBound
  <2>2. QED
    BY <1>3, <1>a, <1>b, <2>1, MeasureAssumption
       DEF Entry, Measure, EntryType, RTMR_COUNT, Call, LongEvents
<1>7. /\ hobs' \in Seq(EntryType) /\ Len(hobs') \in Nat
      /\ \A i \in 1 .. Len(hobs') :
            \/ i \in 1 .. Len(hobs) /\ hobs'[i] = hobs[i]
            \/ i = Len(hobs) + 1 /\ hobs'[i] = e
      /\ \A i \in 1 .. Len(hobs) : i \in 1 .. Len(hobs') /\ hobs'[i] = hobs[i]
      /\ id \in Lost' \/ (Len(hobs) + 1 \in 1 .. Len(hobs') /\ hobs'[Len(hobs) + 1] = e)
  <2>1. CASE hobs' = Append(hobs, e)
    BY <1>3, <1>6, <2>1, Appended
  <2>2. CASE hobs' = hobs /\ id \in Lost'
    BY <1>3, <2>2
  <2>3. QED
    BY <1>4, <2>1, <2>2
<1>8. AreaInv'
  <2>1. \A i \in 1 .. Len(hobs') : hobs'[i].size = 1 /\ hobs'[i].id \in 1 .. calls
    BY <1>3, <1>6, <1>7 DEF MeasureInv, AreaInv
  <2>2. QED
    BY <1>1, <1>7, <2>1 DEF MeasureInv, AreaInv
<1>9. \A n : Pure(n)' <=> Pure(n)
  BY <1>1 DEF Pure
<1>10. RegInv'
  BY <1>1, <1>5 DEF MeasureInv, RegInv, Increases, Pure, Call
<1>11. log.tail = <<>> /\ Len(log.tail) = 0
  BY <1>3, NoAreaIs
<1>12. \A n : Below(log.tail, n)'
  BY <1>1, <1>11 DEF Below
<1>13. Increases(hobs)'
  <2>1. Increases(hobs)
        /\ (Pure(id) => \A i \in 1 .. Len(hobs) : Pure(hobs[i].id) => hobs[i].id < id)
    BY <1>3, <1>a DEF MeasureInv, OrderInv, Below
  <2>2. ASSUME NEW i \in 1 .. Len(hobs'), NEW j \in 1 .. Len(hobs'), i < j,
               Pure(hobs'[i].id), Pure(hobs'[j].id)
        PROVE  hobs'[i].id < hobs'[j].id
    <3>1. i \in 1 .. Len(hobs) /\ hobs'[i] = hobs[i]
      BY <1>3, <1>7, <2>2
    <3>2. CASE j \in 1 .. Len(hobs) /\ hobs'[j] = hobs[j]
      BY <2>1, <2>2, <3>1, <3>2 DEF Increases
    <3>3. CASE hobs'[j] = e
      BY <1>6, <2>1, <2>2, <3>1, <3>3
    <3>4. QED
      BY <1>7, <3>2, <3>3
  <2>3. QED
    BY <1>9, <2>2 DEF Increases
<1>14. OrderInv'
  <2>1. Increases(log.tail)'
    BY <1>1, <1>11 DEF Increases
  <2>2. \A c \in Context : ~Pure(call[c].id)'
    BY <1>5 DEF Pure
  <2>3. (unlogged \in [full : SUBSET (1 .. calls), dropped : SUBSET Nat, unwanted : SUBSET Nat])'
    BY <1>1, <1>4
  <2>4. QED
    BY <1>12, <1>13, <2>1, <2>2, <2>3 DEF OrderInv
<1>15. TailInv'
  BY <1>1 DEF MeasureInv, TailInv
<1>16. AccountInv'
  <2>1. /\ Pure(id) => \E i \in 1 .. Len(rtmr) : rtmr[i].mr = 0 /\ rtmr[i].id = id
        /\ Pure(id) => \A i \in 1 .. Len(rtmr) : rtmr[i].id = id => rtmr[i].mr = 0
    <3>1. call["main"].event.mr = 0
      BY <1>3 DEF Measure
    <3>2. QED
      BY <1>1, <1>3, <1>a, <3>1 DEF MeasureInv, RegInv, InRegisters
  <2>2. Pure(id) => InReg(e)
    BY <1>6, <2>1 DEF InReg
  <2>3. \A y : InReg(y)' <=> InReg(y)
    BY <1>1 DEF InReg
  <2>4. \A j \in 1 .. Len(hobs') : Pure(hobs'[j].id) => InReg(hobs'[j])
    BY <1>6, <1>7, <2>2 DEF MeasureInv, AccountInv
  <2>5. \A x : InLog(hobs, x) => InLog(hobs, x)'
    BY <1>7 DEF InLog
  <2>6. ASSUME NEW i \in 1 .. Len(rtmr), rtmr[i].id = id, id \notin overlap \cup Lost'
        PROVE  InLog(hobs, rtmr[i])'
    <3>1. rtmr[i].mr = 0 /\ Len(hobs) + 1 \in 1 .. Len(hobs') /\ hobs'[Len(hobs) + 1] = e
      BY <1>3, <1>7, <2>1, <2>6 DEF Pure
    <3>2. e.mr - 1 = rtmr[i].mr /\ e.id = rtmr[i].id
      BY <1>6, <2>6, <3>1
    <3>3. QED
      BY <1>1, <3>1, <3>2 DEF InLog
  <2>7. ASSUME NEW i \in 1 .. Len(rtmr)
        PROVE  \/ rtmr[i].id \in overlap \cup Lost'
               \/ InLog(log.tail, rtmr[i]) \/ InLog(hobs, rtmr[i])'
    <3>1. CASE rtmr[i].id \in overlap \cup Lost
      BY <1>4, <3>1
    <3>2. CASE \E c \in Context : call[c].id = rtmr[i].id
      <4>1. rtmr[i].id = id
        BY <1>3, <1>a, <3>2, ContextIs, NoCallIs, IdsAre, SMTT(40)
      <4>2. QED
        BY <2>6, <4>1
    <3>3. CASE InLog(log.tail, rtmr[i]) \/ InLog(hobs, rtmr[i])
      BY <1>1, <2>5, <3>3 DEF InLog
    <3>4. QED
      BY <3>1, <3>2, <3>3 DEF MeasureInv, AccountInv
  <2>8. (\A i \in 1 .. Len(rtmr) :
          \/ rtmr[i].id \in overlap \cup Lost
          \/ \E c \in Context : call[c].id = rtmr[i].id
          \/ InLog(log.tail, rtmr[i]) \/ InLog(hobs, rtmr[i]))'
    BY <1>1, <2>7 DEF InLog
  <2>9. (\A j \in 1 .. Len(hobs) : Pure(hobs[j].id) => InReg(hobs[j]))'
    BY <1>9, <2>3, <2>4
  <2>10. (\A j \in 1 .. Len(log.tail) : Pure(log.tail[j].id) => InReg(log.tail[j]))'
    BY <1>1, <1>11
  <2>11. (unlogged.full # {} => log.truncated)'
    BY <1>1, <1>4 DEF MeasureInv, AccountInv
  <2>12. QED
    BY <2>8, <2>9, <2>10, <2>11 DEF AccountInv
<1>17. QED
  BY <1>5, <1>8, <1>10, <1>14, <1>15, <1>16 DEF MeasureInv

(* TcgCommLogEvent.                                                        *)
LEMMA PlatformIdLogged ==
    ASSUME NEW a \in AreaType, NEW e, NEW n \in Nat, a.offset # 0,
           NEW b, b = TcgCommLogEvent(a, "PlatformId", e, n)
    PROVE  /\ b \in AreaType /\ b.head = a.head + 1 /\ b.tail = a.tail /\ b.size = a.size + n
           /\ b.last = a.last + n /\ b.laml = a.laml /\ b.offset = a.offset + n
           /\ b.truncated = a.truncated
<1>1. b = [a EXCEPT !.head = @ + 1, !.offset = @ + n, !.last = @ + n, !.size = @ + n]
  BY DEF TcgCommLogEvent
<1>2. /\ a.head \in Nat /\ a.size \in Nat /\ a.last \in Nat /\ a.offset \in Nat
      /\ a.head + 1 \in Nat /\ a.size + n \in Nat /\ a.last + n \in Nat /\ a.offset + n \in Nat
  BY SMTT(40) DEF AreaType
<1>3. PICK h \in Nat, o \in Nat, l \in Nat, z \in Nat :
         h = a.head + 1 /\ o = a.offset + n /\ l = a.last + n /\ z = a.size + n
  BY <1>2
<1>4. b = [a EXCEPT !.head = h, !.offset = o, !.last = l, !.size = z]
  BY <1>1, <1>3
<1>5. /\ b \in AreaType /\ b.head = h /\ b.tail = a.tail /\ b.size = z /\ b.last = l
      /\ b.laml = a.laml /\ b.offset = o /\ b.truncated = a.truncated
  BY <1>4 DEF AreaType
<1>6. QED
  BY <1>3, <1>5

Appends(a, e, n, b) ==
    /\ b \in AreaType /\ b.head = a.head /\ b.tail = Append(a.tail, e)
    /\ b.size = a.size + n /\ b.last = a.size /\ b.laml = a.laml /\ b.offset = a.offset
    /\ b.truncated = a.truncated

LEMMA EventLogged ==
    ASSUME NEW a \in AreaType, NEW kind, NEW e \in EntryType, NEW n \in Nat,
           kind # "PlatformId"
    PROVE  Appends(a, e, n, TcgCommLogEvent(a, kind, e, n))
<1> DEFINE b == TcgCommLogEvent(a, kind, e, n)
<1>1. b = [a EXCEPT !.tail = Append(@, e), !.last = a.size, !.size = @ + n]
  BY DEF TcgCommLogEvent
<1> HIDE DEF b
<1>2. a.size \in Nat /\ a.size + n \in Nat /\ a.tail \in Seq(EntryType)
  BY DEF AreaType
<1>3. Append(a.tail, e) \in Seq(EntryType)
  BY <1>2, Appended
<1>4. PICK t \in Seq(EntryType), l \in Nat, z \in Nat :
         t = Append(a.tail, e) /\ l = a.size /\ z = a.size + n
  BY <1>2, <1>3
<1>5. b = [a EXCEPT !.tail = t, !.last = l, !.size = z]
  BY <1>1, <1>4
<1>6. /\ b \in AreaType /\ b.head = a.head /\ b.tail = t /\ b.size = z /\ b.last = l
      /\ b.laml = a.laml /\ b.offset = a.offset /\ b.truncated = a.truncated
  BY <1>5 DEF AreaType
<1>7. Appends(a, e, n, b)
  BY <1>4, <1>6 DEF Appends
<1>8. QED
  BY <1>7 DEF b

LEMMA Truncated ==
    ASSUME NEW a \in AreaType, NEW b, b = Truncate(a)
    PROVE  /\ b \in AreaType /\ b.head = a.head /\ b.tail = a.tail /\ b.size = a.size
           /\ b.last = a.last /\ b.laml = a.laml /\ b.offset = a.offset /\ b.truncated
  BY DEF Truncate, AreaType

(* The log that SetupTdEventLog leaves.                                    *)
LEMMA HeaderIs ==
    ASSUME NEW laml \in Nat \ {0}, NEW platformId \in BOOLEAN
    PROVE  /\ HeaderLogged(laml, platformId) \in AreaType
           /\ HeaderLogged(laml, platformId).tail = <<>>
           /\ HeaderLogged(laml, platformId).size <= HeaderLogged(laml, platformId).laml
           /\ HeaderLogged(laml, platformId).offset > 0
<1> DEFINE header == [NoArea EXCEPT !.head = 1, !.size = 1, !.offset = 1, !.laml = laml]
<1>1. /\ header \in AreaType /\ header.tail = <<>> /\ header.size = 1 /\ header.laml = laml
      /\ header.offset = 1
  BY NoAreaIs DEF NoArea, AreaType
<1> HIDE DEF header
<1>2. HeaderLogged(laml, platformId) \in
         {header, Truncate(header),
          IF Full(header, 2) THEN header
          ELSE TcgCommLogEvent(header, "PlatformId", [mr |-> 0, id |-> 0, size |-> 2], 2)}
  BY DEF HeaderLogged, header
<1>3. /\ Truncate(header) \in AreaType /\ Truncate(header).tail = <<>>
      /\ Truncate(header).size = 1 /\ Truncate(header).laml = laml /\ Truncate(header).offset = 1
  BY <1>1 DEF Truncate, AreaType
<1>4. ASSUME ~Full(header, 2),
             NEW h, h = TcgCommLogEvent(header, "PlatformId", [mr |-> 0, id |-> 0, size |-> 2], 2)
      PROVE  h \in AreaType /\ h.tail = <<>> /\ h.size <= h.laml /\ h.offset > 0
  <2>1. 2 + header.size <= laml
    BY <1>1, <1>4 DEF Full, NoRoom
  <2>2. /\ h \in AreaType /\ h.tail = <<>> /\ h.size = header.size + 2 /\ h.laml = laml
        /\ h.offset = 1 + 2
    BY <1>1, <1>4, PlatformIdLogged
  <2>3. QED
    BY <1>1, <2>1, <2>2
<1>5. QED
  BY <1>1, <1>2, <1>3, <1>4

(* The HOBs are given up.                                                  *)
LEMMA HobIds ==
    ASSUME MeasureInv
    PROVE  /\ Ids(hobs) \subseteq 1 .. calls /\ Ids(hobs) \subseteq Nat
           /\ \A x : InLog(hobs, x) => x.id \in Ids(hobs)
<1>1. hobs \in Seq(EntryType) /\ \A i \in 1 .. Len(hobs) : hobs[i].id \in 1 .. calls
  BY DEF MeasureInv, AreaInv
<1>2. DOMAIN hobs = 1 .. Len(hobs)
  BY <1>1, Elements
<1>3. Ids(hobs) \subseteq 1 .. calls
  BY <1>1, <1>2 DEF Ids
<1>4. Ids(hobs) \subseteq Nat
  BY <1>3, IdsAre
<1>5. \A x : InLog(hobs, x) => x.id \in Ids(hobs)
  BY <1>2 DEF InLog, Ids
<1>6. QED
  BY <1>3, <1>4, <1>5

(* The HOBs stay, or are dropped, while the log has no event that they     *)
(* would have to be compared with but what it had.                         *)
LEMMA HobsDropped ==
    ASSUME MeasureInv, PhaseInv', AreaInv', TailInv', log'.tail = log.tail,
           unlogged.full # {} => log'.truncated,
           \/ hobs' = hobs /\ unlogged' = unlogged
           \/ hobs' = <<>> /\ unlogged' = [unlogged EXCEPT !.dropped = @ \cup Ids(hobs)],
           UNCHANGED <<regVars, callVars, todo>>
    PROVE  MeasureInv'
<1>1. /\ rtmr' = rtmr /\ buffer' = buffer /\ call' = call /\ calls' = calls
      /\ overlap' = overlap /\ todo' = todo
  BY DEF regVars, callVars
<1>2. CallInv' /\ BufferInv'
  BY <1>1 DEF MeasureInv, CallInv, BufferInv
<1>3. RegInv'
  BY <1>1 DEF MeasureInv, RegInv, InRegisters, Increases, Pure, Call
<1>4. unlogged \in [full : SUBSET (1 .. calls), dropped : SUBSET Nat, unwanted : SUBSET Nat]
  BY DEF MeasureInv, OrderInv
<1>5. /\ unlogged' \in [full : SUBSET (1 .. calls), dropped : SUBSET Nat, unwanted : SUBSET Nat]
      /\ unlogged'.full = unlogged.full /\ Lost \subseteq Lost'
      /\ hobs' = hobs \/ (hobs' = <<>> /\ Ids(hobs) \subseteq Lost')
  BY <1>4, HobIds DEF Lost
<1>6. OrderInv'
  <2>1. Increases(log.tail)'
    BY <1>1 DEF MeasureInv, OrderInv, Increases, Pure
  <2>2. (\A n \in unlogged.full : Pure(n) => Below(log.tail, n))'
    BY <1>1, <1>5 DEF MeasureInv, OrderInv, Below, Pure
  <2>3. (unlogged \in [full : SUBSET (1 .. calls), dropped : SUBSET Nat, unwanted : SUBSET Nat])'
    BY <1>1, <1>5
  <2>4. \A c \in Context : Pure(call[c].id)' => Below(log.tail, call[c].id)'
    BY <1>1 DEF MeasureInv, OrderInv, Below, Pure
  <2>5. CASE hobs' = hobs
    <3>1. Increases(hobs)'
      BY <1>1, <2>5 DEF MeasureInv, OrderInv, Increases, Pure
    <3>2. (\A j \in 1 .. Len(hobs) : Pure(hobs[j].id) => Below(log.tail, hobs[j].id))'
      BY <1>1, <2>5 DEF MeasureInv, OrderInv, Below, Pure
    <3>3. \A c \in Context : Pure(call[c].id)' => Below(hobs, call[c].id)'
      BY <1>1, <2>5 DEF MeasureInv, OrderInv, Below, Pure
    <3>4. QED
      BY <2>1, <2>2, <2>3, <2>4, <3>1, <3>2, <3>3 DEF OrderInv
  <2>6. CASE hobs' = <<>>
    <3>1. \A i \in 1 .. Len(hobs') : FALSE
      BY <2>6
    <3>2. Increases(hobs)' /\ \A n : Below(hobs, n)'
      BY <3>1 DEF Increases, Below
    <3>3. \A c \in Context : Below(hobs, call[c].id)'
      BY <3>1 DEF Below
    <3>4. QED
      BY <2>1, <2>2, <2>3, <2>4, <3>1, <3>2, <3>3 DEF OrderInv
  <2>7. QED
    BY <1>5, <2>5, <2>6
<1>7. AccountInv'
  <2>1. \A y : InReg(y)' <=> InReg(y)
    BY <1>1 DEF InReg
  <2>2. (\A j \in 1 .. Len(log.tail) : Pure(log.tail[j].id) => InReg(log.tail[j]))'
    BY <1>1 DEF MeasureInv, AccountInv, Pure, InReg
  <2>3. (unlogged.full # {} => log.truncated)'
    BY <1>5
  <2>4. (\A j \in 1 .. Len(hobs) : Pure(hobs[j].id) => InReg(hobs[j]))'
    <3>1. CASE hobs' = hobs
      BY <1>1, <3>1 DEF MeasureInv, AccountInv, Pure, InReg
    <3>2. CASE hobs' = <<>>
      BY <3>2
    <3>3. QED
      BY <1>5, <3>1, <3>2
  <2>5. ASSUME NEW i \in 1 .. Len(rtmr)
        PROVE  \/ rtmr[i].id \in overlap \cup Lost'
               \/ \E c \in Context : call[c].id = rtmr[i].id
               \/ InLog(log.tail, rtmr[i])' \/ InLog(hobs, rtmr[i])'
    <3>1. CASE InLog(hobs, rtmr[i])
      <4>1. rtmr[i].id \in Ids(hobs)
        BY <3>1, HobIds
      <4>2. hobs' = hobs => InLog(hobs, rtmr[i])'
        BY <1>1, <3>1 DEF InLog
      <4>3. QED
        BY <1>5, <4>1, <4>2
    <3>2. CASE InLog(log.tail, rtmr[i])
      <4>1. InLog(log.tail, rtmr[i])'
        BY <1>1, <3>2 DEF InLog
      <4>2. QED
        BY <4>1
    <3>3. QED
      BY <1>5, <3>1, <3>2 DEF MeasureInv, AccountInv
  <2>6. (\A i \in 1 .. Len(rtmr) :
          \/ rtmr[i].id \in overlap \cup Lost
          \/ \E c \in Context : call[c].id = rtmr[i].id
          \/ InLog(log.tail, rtmr[i]) \/ InLog(hobs, rtmr[i]))'
    BY <1>1, <2>5
  <2>7. QED
    BY <2>2, <2>3, <2>4, <2>6 DEF AccountInv
<1>8. QED
  BY <1>2, <1>3, <1>6, <1>7 DEF MeasureInv

LEMMA SyncFailsKeeps ==
    ASSUME MeasureInv, SyncFails
    PROVE  MeasureInv'
<1>1. /\ phase = "sync" /\ phase' = phase /\ hobs' = <<>>
      /\ unlogged' = [unlogged EXCEPT !.dropped = @ \cup Ids(hobs)]
      /\ log' = log /\ final' = final /\ numberOfEvents' = numberOfEvents /\ table' = table
      /\ getEventLogCalled' = getEventLogCalled /\ mark' = mark /\ call' = call /\ todo' = todo
      /\ calls' = calls
      /\ UNCHANGED <<regVars, callVars, todo>>
  BY DEF SyncFails, logVars, setupVars, callVars
<1>2. PhaseInv'
  BY <1>1 DEF MeasureInv, PhaseInv
<1>3. AreaInv'
  <2>1. \A i \in 1 .. Len(hobs') : FALSE
    BY <1>1
  <2>2. hobs' \in Seq(EntryType)
    BY <1>1
  <2>3. QED
    BY <1>1, <2>1, <2>2 DEF MeasureInv, AreaInv
<1>4. TailInv'
  BY <1>1 DEF MeasureInv, TailInv
<1>5. unlogged.full # {} => log'.truncated
  BY <1>1 DEF MeasureInv, AccountInv
<1>6. QED
  BY <1>1, <1>2, <1>3, <1>4, <1>5, HobsDropped

LEMMA SetupKeeps ==
    ASSUME MeasureInv, SetupTdEventLog
    PROVE  MeasureInv'
<1>1. /\ phase = "sec" /\ numberOfEvents' = numberOfEvents /\ calls' = calls
      /\ getEventLogCalled' = getEventLogCalled /\ mark' = mark /\ call' = call /\ todo' = todo
      /\ UNCHANGED <<regVars, callVars, todo>> /\ Idle("main")
  BY DEF SetupTdEventLog, callVars
<1>2. /\ \/ log' = log
         \/ \E laml \in Laml, platformId \in BOOLEAN : log' = HeaderLogged(laml, platformId)
      /\ final' = final \/ \E laml \in FinalLaml : final' = [NoArea EXCEPT !.laml = laml]
      /\ table' = table \/ table' = TRUE
      /\ phase' \in {"sync", "dxe"}
  BY DEF SetupTdEventLog
<1>3. \/ phase' = "sync" /\ hobs' = hobs /\ unlogged' = unlogged
      \/ hobs' = <<>> /\ unlogged' = [unlogged EXCEPT !.dropped = @ \cup Ids(hobs)]
  BY DEF SetupTdEventLog, lossVars
<1>4. log = NoArea /\ final = NoArea /\ unlogged.full = {} /\ ~getEventLogCalled
      /\ call["notify"] = NoCall /\ todo["notify"] = <<>>
  BY <1>1 DEF MeasureInv, PhaseInv
<1>5. call["main"] = NoCall /\ todo["main"] = <<>>
  BY <1>1 DEF Idle
<1>6. PhaseInv'
  BY <1>1, <1>2, <1>3, <1>4, <1>5 DEF PhaseInv
<1>7. /\ log' \in AreaType /\ log'.tail = <<>> /\ log'.size <= log'.laml
      /\ log'.offset > 0 \/ log'.laml = 0
  BY <1>2, <1>4, NoAreaIs, HeaderIs, MeasureAssumption
<1>8. /\ final' \in AreaType /\ final'.tail = <<>> /\ final'.size <= final'.laml
      /\ final'.offset = 0
  <2>1. ASSUME NEW laml \in FinalLaml, NEW a, a = [NoArea EXCEPT !.laml = laml]
        PROVE  a \in AreaType /\ a.tail = <<>> /\ a.size <= a.laml /\ a.offset = 0
    <3>1. laml \in Nat
      BY MeasureAssumption
    <3>2. a \in AreaType /\ a.tail = NoArea.tail /\ a.size = NoArea.size /\ a.laml = laml
          /\ a.offset = NoArea.offset
      BY <2>1, <3>1, NoAreaIs DEF AreaType
    <3>3. QED
      BY <3>1, <3>2, NoAreaIs
  <2>2. QED
    BY <1>2, <1>4, <2>1, NoAreaIs
<1>9. AreaInv'
  <2>1. Len(log'.tail) = 0 /\ \A i \in 1 .. Len(log'.tail) : FALSE
    BY <1>7
  <2>2. /\ hobs' \in Seq(EntryType)
        /\ \A i \in 1 .. Len(hobs') : hobs'[i].size = 1 /\ hobs'[i].id \in 1 .. calls
    <3>1. CASE hobs' = hobs
      BY <3>1 DEF MeasureInv, AreaInv
    <3>2. CASE hobs' = <<>>
      BY <3>2
    <3>3. QED
      BY <1>3, <3>1, <3>2
  <2>3. QED
    BY <1>1, <1>7, <1>8, <2>1, <2>2 DEF AreaInv
<1>10. TailInv'
  <2>1. /\ table' \in BOOLEAN /\ getEventLogCalled' \in BOOLEAN /\ mark = [head |-> 0, tail |-> 0]
        /\ numberOfEvents = 0
    BY <1>1, <1>2, <1>4, NoAreaIs DEF MeasureInv, TailInv
  <2>2. Len(log'.tail) = 0 /\ Len(final'.tail) = 0 /\ \A i \in 1 .. Len(final'.tail) : FALSE
    BY <1>7, <1>8
  <2>3. log'.head \in Nat /\ mark.head = 0 /\ mark.tail = 0
    BY <1>7, <2>1 DEF AreaType
  <2>4. QED
    BY <1>1, <1>4, <1>8, <2>1, <2>2, <2>3 DEF TailInv
<1>11. log'.tail = log.tail
  BY <1>4, <1>7, NoAreaIs
<1>12. QED
  BY <1>1, <1>3, <1>4, <1>6, <1>9, <1>10, <1>11, HobsDropped

(* An event that goes to the end of the log.                               *)
LEMMA LogGrows ==
    ASSUME MeasureInv, NEW e \in EntryType, log'.tail = Append(log.tail, e),
           overlap' = overlap, rtmr' = rtmr, e.id <= calls,
           Pure(e.id) => Below(log.tail, e.id) /\ InReg(e)
    PROVE  /\ Len(log'.tail) = Len(log.tail) + 1 /\ log'.tail[Len(log.tail) + 1] = e
           /\ log'.tail # <<>>
           /\ \A i \in 1 .. Len(log.tail) : log'.tail[i] = log.tail[i]
           /\ \A i \in 1 .. Len(log'.tail) : log'.tail[i].id <= calls
           /\ Increases(log.tail)'
           /\ \A n : Below(log.tail, n) /\ (Pure(e.id) => e.id < n) => Below(log.tail, n)'
           /\ (\A j \in 1 .. Len(log.tail) : Pure(log.tail[j].id) => InReg(log.tail[j]))'
           /\ \A x : InLog(log.tail, x) => InLog(log.tail, x)'
           /\ \A x : x.mr = e.mr - 1 /\ x.id = e.id => InLog(log.tail, x)'
<1>1. /\ log.tail \in Seq(EntryType) /\ Len(log.tail) \in Nat
      /\ \A i \in 1 .. Len(log.tail) : log.tail[i].id <= calls
  BY IdsAre
<1>2. /\ Len(log'.tail) = Len(log.tail) + 1 /\ log'.tail[Len(log.tail) + 1] = e
      /\ log'.tail # <<>>
      /\ \A i \in 1 .. Len(log.tail) : log'.tail[i] = log.tail[i]
  BY <1>1, Appended
<1>3. \A i \in 1 .. Len(log'.tail) :
         \/ i \in 1 .. Len(log.tail) /\ log'.tail[i] = log.tail[i]
         \/ i = Len(log.tail) + 1 /\ log'.tail[i] = e
  BY <1>1, <1>2
<1>4. \A n : Pure(n)' <=> Pure(n)
  BY DEF Pure
<1>5. Increases(log.tail)'
  <2>1. ASSUME NEW i \in 1 .. Len(log'.tail), NEW j \in 1 .. Len(log'.tail), i < j,
               Pure(log'.tail[i].id), Pure(log'.tail[j].id)
        PROVE  log'.tail[i].id < log'.tail[j].id
    <3>1. i \in 1 .. Len(log.tail) /\ log'.tail[i] = log.tail[i]
      BY <1>1, <1>2, <1>3, <2>1
    <3>2. CASE j \in 1 .. Len(log.tail) /\ log'.tail[j] = log.tail[j]
      BY <2>1, <3>1, <3>2 DEF MeasureInv, OrderInv, Increases
    <3>3. CASE log'.tail[j] = e
      BY <2>1, <3>1, <3>3 DEF Below
    <3>4. QED
      BY <1>3, <3>2, <3>3
  <2>2. QED
    BY <1>4, <2>1 DEF Increases
<1>6. \A n : Below(log.tail, n) /\ (Pure(e.id) => e.id < n) => Below(log.tail, n)'
  BY <1>3, <1>4 DEF Below
<1>7. (\A j \in 1 .. Len(log.tail) : Pure(log.tail[j].id) => InReg(log.tail[j]))'
  <2>1. \A j \in 1 .. Len(log'.tail) : Pure(log'.tail[j].id) => InReg(log'.tail[j])
    BY <1>3 DEF MeasureInv, AccountInv
  <2>2. \A y : InReg(y)' <=> InReg(y)
    BY DEF InReg
  <2>3. QED
    BY <1>4, <2>1, <2>2
<1>8. 1 .. Len(log.tail) \subseteq 1 .. Len(log'.tail) /\ Len(log.tail) + 1 \in 1 .. Len(log'.tail)
  BY <1>1, <1>2
<1>9. \A x : InLog(log.tail, x) => InLog(log.tail, x)'
  BY <1>2, <1>8 DEF InLog
<1>10. \A x : x.mr = e.mr - 1 /\ x.id = e.id => InLog(log.tail, x)'
  BY <1>2, <1>8 DEF InLog
<1>11. \A i \in 1 .. Len(log'.tail) : log'.tail[i].id <= calls
  BY <1>1, <1>3
<1>12. QED
  BY <1>2, <1>5, <1>6, <1>7, <1>9, <1>10, <1>11

(* SyncTdTcgEvent moves an event of SEC to the log, or gives up.           *)
LEMMA SyncKeeps ==
    ASSUME MeasureInv, SyncTdTcgEvent
    PROVE  MeasureInv'
<1>1. /\ phase = "sync" /\ hobs # <<>> /\ phase' = phase /\ table' = table
      /\ getEventLogCalled' = getEventLogCalled /\ mark' = mark /\ call' = call /\ todo' = todo
      /\ calls' = calls /\ overlap' = overlap /\ rtmr' = rtmr /\ buffer' = buffer
      /\ TdxDxeLogEvent("Sec", Head(hobs), 1)
      /\ IF LogFails(1) THEN hobs' = <<>> /\ unlogged' = [unlogged EXCEPT !.full = @ \cup Ids(hobs)]
                        ELSE hobs' = Tail(hobs) /\ unlogged' = unlogged
  BY DEF SyncTdTcgEvent, regVars, setupVars, callVars
<1>2. ~getEventLogCalled /\ \A c \in Context : call[c].id = 0
  BY <1>1, NoCallIs, ContextIs DEF MeasureInv, PhaseInv
<1>3. /\ final' = final /\ numberOfEvents' = numberOfEvents /\ (LogFails(1) <=> Full(log, 1))
      /\ log' = IF Full(log, 1) THEN Truncate(log) ELSE TcgCommLogEvent(log, "Sec", Head(hobs), 1)
  BY <1>1, <1>2 DEF TdxDxeLogEvent, LogFails
<1>4. CallInv' /\ BufferInv'
  BY <1>1 DEF MeasureInv, CallInv, BufferInv
<1>5. PhaseInv'
  BY <1>1 DEF MeasureInv, PhaseInv
<1>6. RegInv'
  BY <1>1 DEF MeasureInv, RegInv, InRegisters, Increases, Pure, Call
<1>7. \A c \in Context : ~Pure(call[c].id)'
  BY <1>1, <1>2 DEF Pure
<1>8. /\ log \in AreaType /\ hobs \in Seq(EntryType) /\ log.size <= log.laml
      /\ unlogged \in [full : SUBSET (1 .. calls), dropped : SUBSET Nat, unwanted : SUBSET Nat]
  BY DEF MeasureInv, AreaInv, OrderInv
<1>9. \A n : Pure(n)' <=> Pure(n)
  BY <1>1 DEF Pure
<1>10. ASSUME Full(log, 1) PROVE AreaInv' /\ OrderInv' /\ TailInv' /\ AccountInv'
  <2>1. /\ log' = Truncate(log) /\ hobs' = <<>>
        /\ unlogged' = [unlogged EXCEPT !.full = @ \cup Ids(hobs)]
    BY <1>1, <1>3, <1>10
  <2>2. /\ log' \in AreaType /\ log'.head = log.head /\ log'.tail = log.tail
        /\ log'.size = log.size /\ log'.last = log.last /\ log'.laml = log.laml
        /\ log'.offset = log.offset /\ log'.truncated
    BY <1>8, <2>1, Truncated
  <2>3. hobs' \in Seq(EntryType) /\ \A i \in 1 .. Len(hobs') : FALSE
    BY <2>1
  <2>4. /\ unlogged'.full = unlogged.full \cup Ids(hobs) /\ Lost' = Lost \cup Ids(hobs)
        /\ unlogged' \in [full : SUBSET (1 .. calls), dropped : SUBSET Nat, unwanted : SUBSET Nat]
    BY <1>8, <2>1, HobIds DEF Lost
  <2>5. AreaInv'
    BY <1>1, <1>3, <2>2, <2>3 DEF MeasureInv, AreaInv
  <2>6. TailInv'
    BY <1>1, <1>3, <2>2, SMTT(40) DEF MeasureInv, TailInv
  <2>7. OrderInv'
    <3>1. Increases(log.tail)'
      BY <1>1, <2>2 DEF MeasureInv, OrderInv, Increases, Pure
    <3>2. Increases(hobs)'
          /\ (\A j \in 1 .. Len(hobs) : Pure(hobs[j].id) => Below(log.tail, hobs[j].id))'
      BY <2>3 DEF Increases
    <3>3. \A n \in unlogged'.full : Pure(n) => Below(log.tail, n)
      <4>1. DOMAIN hobs = 1 .. Len(hobs)
        BY <1>8, Elements
      <4>2. \A n \in Ids(hobs) : Pure(n) => Below(log.tail, n)
        BY <4>1 DEF MeasureInv, OrderInv, Ids
      <4>3. QED
        BY <2>4, <4>2 DEF MeasureInv, OrderInv
    <3>4. (\A n \in unlogged.full : Pure(n) => Below(log.tail, n))'
      BY <1>9, <2>2, <3>3 DEF Below
    <3>5. (unlogged \in [full : SUBSET (1 .. calls), dropped : SUBSET Nat, unwanted : SUBSET Nat])'
      BY <1>1, <2>4
    <3>6. QED
      BY <1>7, <3>1, <3>2, <3>4, <3>5 DEF OrderInv
  <2>8. AccountInv'
    <3>1. (\A j \in 1 .. Len(log.tail) : Pure(log.tail[j].id) => InReg(log.tail[j]))'
      BY <1>1, <2>2 DEF MeasureInv, AccountInv, Pure, InReg
    <3>2. \A i \in 1 .. Len(rtmr) :
             \/ rtmr[i].id \in overlap \cup Lost'
             \/ \E c \in Context : call[c].id = rtmr[i].id
             \/ InLog(log.tail, rtmr[i])
      BY <2>4, HobIds DEF MeasureInv, AccountInv
    <3>3. \A x : InLog(log.tail, x)' <=> InLog(log.tail, x)
      BY <2>2 DEF InLog
    <3>4. (\A i \in 1 .. Len(rtmr) :
            \/ rtmr[i].id \in overlap \cup Lost
            \/ \E c \in Context : call[c].id = rtmr[i].id
            \/ InLog(log.tail, rtmr[i]) \/ InLog(hobs, rtmr[i]))'
      BY <1>1, <2>2, <3>2 DEF InLog
    <3>5. QED
      BY <2>2, <2>3, <3>1, <3>4 DEF AccountInv
  <2>9. QED
    BY <2>5, <2>6, <2>7, <2>8
<1>11. ASSUME ~Full(log, 1) PROVE AreaInv' /\ OrderInv' /\ TailInv' /\ AccountInv'
  <2>1. PICK e : e = Head(hobs)
    OBVIOUS
  <2>2. hobs' = Tail(hobs) /\ unlogged' = unlogged /\ log' = TcgCommLogEvent(log, "Sec", e, 1)
    BY <1>1, <1>3, <1>11, <2>1
  <2>3. /\ e \in EntryType /\ e = hobs[1] /\ 1 \in 1 .. Len(hobs) /\ hobs' \in Seq(EntryType)
        /\ \A i \in 1 .. Len(hobs') : i + 1 \in 1 .. Len(hobs) /\ hobs'[i] = hobs[i + 1]
        /\ Len(hobs') = Len(hobs) - 1 /\ Len(hobs) \in Nat
    BY <1>1, <1>8, <2>1, <2>2, Rest
  <2>4. e.size = 1 /\ e.id \in 1 .. calls
    BY <2>3 DEF MeasureInv, AreaInv
  <2>5. /\ log' \in AreaType /\ log'.head = log.head /\ log'.tail = Append(log.tail, e)
        /\ log'.size = log.size + 1 /\ log'.last = log.size /\ log'.laml = log.laml
        /\ log'.offset = log.offset /\ log'.truncated = log.truncated
    <3>1. "Sec" # "PlatformId" /\ 1 \in Nat
      OBVIOUS
    <3>2. log \in AreaType /\ e \in EntryType
      BY <1>8, <2>3
    <3>3. log' = TcgCommLogEvent(log, "Sec", e, 1)
      BY <2>2
    <3>4. Appends(log, e, 1, log')
      BY <3>1, <3>2, <3>3, EventLogged
    <3>5. QED
      BY <3>4 DEF Appends
  <2>6. ~log.truncated /\ log.size + 1 <= log.laml
    BY <1>8, <1>11 DEF Full, NoRoom, AreaType
  <2>7. unlogged.full = {}
    BY <2>6 DEF MeasureInv, AccountInv
  <2>8. Pure(e.id) => Below(log.tail, e.id) /\ InReg(e)
    BY <2>3 DEF MeasureInv, OrderInv, AccountInv
  <2>9. e.id <= calls
    BY <2>4, IdsAre
  <2>10. /\ Len(log'.tail) = Len(log.tail) + 1 /\ log'.tail[Len(log.tail) + 1] = e
         /\ \A i \in 1 .. Len(log.tail) : log'.tail[i] = log.tail[i]
         /\ \A i \in 1 .. Len(log'.tail) : log'.tail[i].id <= calls
         /\ Increases(log.tail)'
         /\ \A n : Below(log.tail, n) /\ (Pure(e.id) => e.id < n) => Below(log.tail, n)'
         /\ (\A j \in 1 .. Len(log.tail) : Pure(log.tail[j].id) => InReg(log.tail[j]))'
         /\ \A x : InLog(log.tail, x) => InLog(log.tail, x)'
         /\ \A x : x.mr = e.mr - 1 /\ x.id = e.id => InLog(log.tail, x)'
    BY <1>1, <2>3, <2>5, <2>8, <2>9, LogGrows
  <2>11. AreaInv'
    <3>1. \A i \in 1 .. Len(hobs') : hobs'[i].size = 1 /\ hobs'[i].id \in 1 .. calls
      BY <2>3, SMTT(40) DEF MeasureInv, AreaInv
    <3>2. log'.last + log'.tail[Len(log'.tail)].size = log'.size
      BY <2>4, <2>5, <2>10
    <3>3. final \in AreaType /\ final.size <= final.laml /\ final.offset = 0
          /\ (log.offset > 0 \/ log.laml = 0)
      BY DEF MeasureInv, AreaInv
    <3>4. QED
      BY <1>1, <1>3, <2>3, <2>5, <2>6, <2>10, <3>1, <3>2, <3>3 DEF AreaInv
  <2>12. TailInv'
    <3>1. /\ mark = [head |-> 0, tail |-> 0] /\ final.tail = <<>> /\ Len(final.tail) = 0
          /\ numberOfEvents = 0 /\ table \in BOOLEAN /\ log.head \in Nat
      BY <1>2, <1>8 DEF MeasureInv, TailInv, AreaType
    <3>2. /\ \A i \in 1 .. Len(final.tail) : FALSE
          /\ 0 + 0 <= Len(log'.tail) /\ mark.head = 0 /\ mark.tail = 0
      BY <2>10, <3>1, IdsAre
    <3>3. /\ ~getEventLogCalled' /\ getEventLogCalled' \in BOOLEAN /\ table' \in BOOLEAN
          /\ mark' = [head |-> 0, tail |-> 0] /\ numberOfEvents' = 0 /\ final'.tail = <<>>
          /\ log'.head \in Nat
      BY <1>1, <1>2, <1>3, <2>5, <3>1 DEF MeasureInv, TailInv
    <3>4. /\ mark'.head = 0 /\ mark'.tail = 0 /\ Len(final'.tail) = 0
          /\ \A i \in 1 .. Len(final'.tail) : FALSE
          /\ 0 + 0 <= Len(log'.tail) /\ 0 <= log'.head
      BY <1>1, <1>3, <3>1, <3>2, <3>3
    <3>5. QED
      BY <3>3, <3>4 DEF TailInv
  <2>13. Increases(hobs)
         /\ \A j \in 1 .. Len(hobs) : Pure(hobs[j].id) => Below(log.tail, hobs[j].id)
    BY DEF MeasureInv, OrderInv
  <2>14. Increases(hobs)'
    <3>1. ASSUME NEW i \in 1 .. Len(hobs'), NEW j \in 1 .. Len(hobs'), i < j,
                 Pure(hobs'[i].id), Pure(hobs'[j].id)
          PROVE  hobs'[i].id < hobs'[j].id
      BY <2>3, <2>13, <3>1, SMTT(40) DEF Increases
    <3>2. QED
      BY <1>9, <3>1 DEF Increases
  <2>15. ASSUME NEW j \in 1 .. Len(hobs'), Pure(hobs'[j].id)
         PROVE  Below(log.tail, hobs[j].id)'
    <3>1. PICK n : n = hobs'[j].id
      OBVIOUS
    <3>2. j + 1 \in 1 .. Len(hobs) /\ hobs'[j] = hobs[j + 1] /\ 1 < j + 1
      BY <2>3
    <3>3. Below(log.tail, n)
      BY <2>13, <2>15, <3>1, <3>2
    <3>4. Pure(e.id) => e.id < n
      BY <2>3, <2>13, <2>15, <3>1, <3>2 DEF Increases
    <3>5. Below(log.tail, n)'
      BY <2>10, <3>3, <3>4
    <3>6. QED
      BY <3>1, <3>5 DEF Below
  <2>16. OrderInv'
    <3>1. (unlogged \in [full : SUBSET (1 .. calls), dropped : SUBSET Nat, unwanted : SUBSET Nat])'
      BY <1>1, <1>8, <2>2
    <3>2. (\A j \in 1 .. Len(hobs) : Pure(hobs[j].id) => Below(log.tail, hobs[j].id))'
      BY <1>9, <2>15
    <3>3. QED
      BY <1>7, <2>2, <2>7, <2>10, <2>14, <3>1, <3>2 DEF OrderInv
  <2>17. AccountInv'
    <3>1. \A j \in 1 .. Len(hobs') : Pure(hobs'[j].id) => InReg(hobs'[j])
      BY <2>3 DEF MeasureInv, AccountInv
    <3>2. (\A j \in 1 .. Len(hobs) : Pure(hobs[j].id) => InReg(hobs[j]))'
      BY <1>1, <1>9, <3>1 DEF InReg
    <3>3. ASSUME NEW x, InLog(hobs, x)
          PROVE  InLog(log.tail, x)' \/ InLog(hobs, x)'
      <4>1. PICK j \in 1 .. Len(hobs) : hobs[j].mr - 1 = x.mr /\ hobs[j].id = x.id
        BY <3>3 DEF InLog
      <4>2. CASE j = 1
        BY <2>3, <2>10, <4>1, <4>2
      <4>3. CASE j # 1
        <5>1. j - 1 \in 1 .. Len(hobs')
          BY <2>3, <4>1, <4>3
        <5>2. j - 1 + 1 = j
          BY <2>3
        <5>3. hobs'[j - 1] = hobs[j]
          BY <2>3, <5>1, <5>2
        <5>4. QED
          BY <4>1, <5>1, <5>3 DEF InLog
      <4>4. QED
        BY <4>2, <4>3
    <3>4. Lost' = Lost
      BY <2>2 DEF Lost
    <3>5. \A i \in 1 .. Len(rtmr) :
             \/ rtmr[i].id \in overlap \cup Lost
             \/ \E c \in Context : call[c].id = rtmr[i].id
             \/ \E x : x = rtmr[i] /\ (InLog(log.tail, x)' \/ InLog(hobs, x)')
      BY <2>10, <3>3 DEF MeasureInv, AccountInv
    <3>6. (\A i \in 1 .. Len(rtmr) :
            \/ rtmr[i].id \in overlap \cup Lost
            \/ \E c \in Context : call[c].id = rtmr[i].id
            \/ InLog(log.tail, rtmr[i]) \/ InLog(hobs, rtmr[i]))'
      BY <1>1, <3>4, <3>5 DEF InLog
    <3>7. QED
      BY <2>2, <2>7, <2>10, <3>2, <3>6 DEF AccountInv
  <2>18. QED
    BY <2>11, <2>12, <2>16, <2>17
<1>12. QED
  BY <1>4, <1>5, <1>6, <1>10, <1>11 DEF MeasureInv

(* What a call leaves behind when it is over.                              *)
LEMMA RegistersStay ==
    ASSUME MeasureInv, NEW c \in Context, call'[c].id = 0,
           \A d \in Context : d # c => call'[d] = call[d],
           rtmr' = rtmr, overlap' = overlap, calls' = calls
    PROVE  RegInv'
<1>1. Increases(rtmr)' /\ (rtmr \in Seq([mr : 0 .. RTMR_COUNT - 1, id : Call]))'
      /\ (\A i \in 1 .. Len(rtmr) : rtmr[i].id <= calls)'
  BY DEF MeasureInv, RegInv, Increases, Pure, Call
<1>2. ASSUME NEW d \in Context, Pure(call[d].id)'
      PROVE  InRegisters(d)'
  <2>1. call'[d] = call[d] /\ Pure(call[d].id)
    BY <1>2 DEF Pure
  <2>2. InRegisters(d)
    BY <2>1 DEF MeasureInv, RegInv
  <2>3. QED
    BY <2>1, <2>2 DEF InRegisters
<1>3. QED
  BY <1>1, <1>2 DEF RegInv

(* The event of the call is not appended to the log.                       *)
LEMMA TailStays ==
    ASSUME MeasureInv, NEW c \in Context, NEW id, id = call[c].id,
           CallInv', BufferInv', PhaseInv', AreaInv', TailInv',
           call'[c].id = 0, \A d \in Context : d # c => call'[d] = call[d],
           rtmr' = rtmr, overlap' = overlap, calls' = calls, hobs = <<>>, hobs' = hobs,
           log'.tail = log.tail,
           unlogged' \in [full : SUBSET (1 .. calls), dropped : SUBSET Nat, unwanted : SUBSET Nat],
           unlogged'.full \subseteq unlogged.full \cup {id}, Lost \subseteq Lost',
           id = 0 \/ id \in Lost', unlogged'.full # {} => log'.truncated
    PROVE  MeasureInv'
<1>1. RegInv'
  BY RegistersStay
<1>2. \A n : Pure(n)' <=> Pure(n)
  BY DEF Pure
<1>3. \A i \in 1 .. Len(hobs') : FALSE
  OBVIOUS
<1>4. OrderInv'
  <2>1. Increases(log.tail)' /\ Increases(hobs)'
    BY <1>3 DEF MeasureInv, OrderInv, Increases, Pure
  <2>2. \A n : Below(log.tail, n)' <=> Below(log.tail, n)
    BY DEF Below, Pure
  <2>3. (\A n \in unlogged.full : Pure(n) => Below(log.tail, n))'
    <3>1. \A n \in unlogged'.full : Pure(n) => Below(log.tail, n)
      BY DEF MeasureInv, OrderInv
    <3>2. QED
      BY <1>2, <2>2, <3>1
  <2>4. ASSUME NEW d \in Context, Pure(call[d].id)'
        PROVE  Below(log.tail, call[d].id)' /\ Below(hobs, call[d].id)'
    <3>1. call'[d] = call[d] /\ Pure(call[d].id)
      BY <2>4 DEF Pure
    <3>2. Below(log.tail, call[d].id)
      BY <3>1 DEF MeasureInv, OrderInv
    <3>3. QED
      BY <1>3, <3>1, <3>2 DEF Below, Pure
  <2>5. QED
    BY <1>3, <2>1, <2>3, <2>4 DEF OrderInv
<1>5. AccountInv'
  <2>1. (\A j \in 1 .. Len(log.tail) : Pure(log.tail[j].id) => InReg(log.tail[j]))'
    BY DEF MeasureInv, AccountInv, Pure, InReg
  <2>2. \A x : ~InLog(hobs, x)
    BY <1>3 DEF InLog
  <2>3. \A i \in 1 .. Len(rtmr) : rtmr[i].id # 0
    BY IdsAre
  <2>4. \A i \in 1 .. Len(rtmr) :
           \/ rtmr[i].id \in overlap \cup Lost'
           \/ \E d \in Context : call'[d].id = rtmr[i].id
           \/ InLog(log.tail, rtmr[i])
    BY <2>2, <2>3 DEF MeasureInv, AccountInv
  <2>5. (\A i \in 1 .. Len(rtmr) :
          \/ rtmr[i].id \in overlap \cup Lost
          \/ \E d \in Context : call[d].id = rtmr[i].id
          \/ InLog(log.tail, rtmr[i]) \/ InLog(hobs, rtmr[i]))'
    BY <2>4 DEF InLog
  <2>6. QED
    BY <1>3, <2>1, <2>5 DEF AccountInv
<1>6. QED
  BY <1>1, <1>4, <1>5 DEF MeasureInv

(* The event of the call is appended to the log.                           *)
LEMMA TailGrows ==
    ASSUME MeasureInv, NEW c \in Context, NEW e \in EntryType,
           e.id = call[c].id, e.mr = call[c].event.mr + 1, call[c].step = "log",
           CallInv', BufferInv', PhaseInv', AreaInv', TailInv',
           call'[c].id = 0, \A d \in Context : d # c => call'[d] = call[d],
           rtmr' = rtmr, overlap' = overlap, calls' = calls, hobs = <<>>, hobs' = hobs,
           log'.tail = Append(log.tail, e), ~log.truncated, unlogged' = unlogged
    PROVE  MeasureInv'
<1>1. RegInv'
  BY RegistersStay
<1>2. \A n : Pure(n)' <=> Pure(n)
  BY DEF Pure
<1>3. \A i \in 1 .. Len(hobs') : FALSE
  OBVIOUS
<1>4. unlogged.full = {}
  BY DEF MeasureInv, AccountInv
<1>5. call[c].event.mr \in Nat /\ e.mr - 1 = call[c].event.mr /\ e.id <= calls
  <2>1. call[c].event.mr \in Nat
    <3>1. call[c].event \in EventType
      BY IdsAre
    <3>2. QED
      BY <3>1 DEF EventType, RTMR_COUNT
  <2>2. QED
    BY <2>1 DEF MeasureInv, CallInv
<1>6. Pure(e.id) => Below(log.tail, e.id) /\ InReg(e)
  <2>1. ASSUME Pure(e.id)
        PROVE  Below(log.tail, e.id) /\ InReg(e)
    <3>1. Below(log.tail, e.id) /\ InRegisters(c)
      BY <2>1 DEF MeasureInv, OrderInv, RegInv
    <3>2. PICK i \in 1 .. Len(rtmr) : rtmr[i].mr = call[c].event.mr /\ rtmr[i].id = call[c].id
      BY <3>1 DEF InRegisters
    <3>3. QED
      BY <1>5, <3>1, <3>2 DEF InReg
  <2>2. QED
    BY <2>1
<1>7. /\ Increases(log.tail)'
      /\ \A n : Below(log.tail, n) /\ (Pure(e.id) => e.id < n) => Below(log.tail, n)'
      /\ (\A j \in 1 .. Len(log.tail) : Pure(log.tail[j].id) => InReg(log.tail[j]))'
      /\ \A x : InLog(log.tail, x) => InLog(log.tail, x)'
      /\ \A x : x.mr = e.mr - 1 /\ x.id = e.id => InLog(log.tail, x)'
  BY <1>5, <1>6, LogGrows
<1>8. OrderInv'
  <2>1. ASSUME NEW d \in Context, Pure(call[d].id)'
        PROVE  Below(log.tail, call[d].id)' /\ Below(hobs, call[d].id)'
    <3>1. call'[d] = call[d] /\ Pure(call[d].id) /\ d # c
      BY <2>1 DEF Pure
    <3>2. PICK n : n = call[d].id
      OBVIOUS
    <3>3. Below(log.tail, n) /\ n # 0
      BY <3>1, <3>2 DEF MeasureInv, OrderInv, Pure
    <3>4. ~Pure(e.id)
      BY <3>1 DEF MeasureInv, BufferInv, Pure
    <3>5. Below(log.tail, n)'
      BY <1>7, <3>3, <3>4
    <3>6. QED
      BY <1>3, <3>1, <3>2, <3>5 DEF Below
  <2>2. Increases(hobs)'
    BY <1>3 DEF Increases
  <2>3. (unlogged \in [full : SUBSET (1 .. calls), dropped : SUBSET Nat, unwanted : SUBSET Nat])'
    BY DEF MeasureInv, OrderInv
  <2>4. QED
    BY <1>3, <1>4, <1>7, <2>1, <2>2, <2>3 DEF OrderInv
<1>9. AccountInv'
  <2>1. Lost' = Lost
    BY DEF Lost
  <2>2. \A x : ~InLog(hobs, x)
    BY <1>3 DEF InLog
  <2>3. ASSUME NEW i \in 1 .. Len(rtmr), rtmr[i].id = call[c].id, rtmr[i].id \notin overlap
        PROVE  \E x : x = rtmr[i] /\ InLog(log.tail, x)'
    <3>1. rtmr[i].id # 0
      BY IdsAre
    <3>2. InRegisters(c)
      BY <2>3, <3>1 DEF MeasureInv, RegInv, Pure
    <3>3. rtmr[i].mr = e.mr - 1 /\ rtmr[i].id = e.id
      BY <1>5, <2>3, <3>2 DEF InRegisters
    <3>4. QED
      BY <1>7, <3>3
  <2>4. \A i \in 1 .. Len(rtmr) :
           \/ rtmr[i].id \in overlap \cup Lost
           \/ \E d \in Context : call'[d].id = rtmr[i].id
           \/ \E x : x = rtmr[i] /\ InLog(log.tail, x)'
    BY <1>7, <2>2, <2>3, SMTT(40) DEF MeasureInv, AccountInv
  <2>5. (\A i \in 1 .. Len(rtmr) :
          \/ rtmr[i].id \in overlap \cup Lost
          \/ \E d \in Context : call[d].id = rtmr[i].id
          \/ InLog(log.tail, rtmr[i]) \/ InLog(hobs, rtmr[i]))'
    <3>1. \A i : (\E x : x = rtmr[i] /\ InLog(log.tail, x)') => InLog(log.tail, rtmr[i])'
      BY DEF InLog
    <3>2. QED
      BY <2>1, <2>4, <3>1
  <2>6. QED
    BY <1>3, <1>4, <1>7, <2>5 DEF AccountInv
<1>10. QED
  BY <1>1, <1>8, <1>9 DEF MeasureInv

(* TdxDxeLogHashEvent.                                                     *)
LEMMA DxeLogKeeps ==
    ASSUME MeasureInv, NEW c \in Context, DxeLog(c)
    PROVE  MeasureInv'
<1>a. PICK id : id = call[c].id
  OBVIOUS
<1>b. PICK m : m = call[c].event
  OBVIOUS
<1>c. PICK e : e = Entry(c)
  OBVIOUS
<1>1. /\ phase # "sec" /\ Runs(c) /\ call[c].step = "log" /\ phase' = phase /\ rtmr' = rtmr
      /\ buffer' = buffer /\ hobs' = hobs /\ table' = table
      /\ getEventLogCalled' = getEventLogCalled /\ mark' = mark
      /\ calls' = calls /\ overlap' = overlap
  BY DEF DxeLog, At, regVars, setupVars
<1>2. IF m.extendOnly
      THEN log' = log /\ final' = final /\ numberOfEvents' = numberOfEvents
           /\ unlogged' = unlogged /\ Finish(c, TRUE)
      ELSE /\ TdxDxeLogEvent(m.kind, e, m.size)
           /\ unlogged' = IF Full(log, m.size) THEN [unlogged EXCEPT !.full = @ \cup ({id} \ {0})]
                          ELSE unlogged
           /\ Finish(c, ~LogFails(m.size))
  BY <1>a, <1>b, <1>c DEF DxeLog, logVars
<1>3. phase \notin {"sec", "sync"} /\ hobs = <<>>
  <2>1. phase \notin {"sec", "sync"}
    BY <1>1, RunsAlone, NoCallIs
  <2>2. QED
    BY <2>1 DEF MeasureInv, PhaseInv
<1>4. /\ CallInv' /\ BufferInv' /\ PhaseInv' /\ call'[c].id = 0
      /\ \A d \in Context : d # c => call'[d] = call[d]
  <2>1. \E ok \in BOOLEAN : Finish(c, ok)
    BY <1>2
  <2>2. QED
    BY <1>1, <1>3, <2>1, Finished
<1>5. /\ id \in Nat /\ id <= calls /\ calls \in Nat /\ m \in EventType
      /\ id # 0 => m.kind \notin Silent /\ ~m.extendOnly
  BY <1>1, <1>a, <1>b, IdsAre DEF MeasureInv, CallInv
<1>6. /\ e \in EntryType /\ e.id = call[c].id /\ e.mr = call[c].event.mr + 1 /\ e.size = m.size
      /\ m.size \in 1 .. 2 /\ m.size \in Nat
  <2>1. m.mr \in 0 .. RTMR_COUNT /\ m.size \in 1 .. 2 /\ id \in Call \cup {0}
    BY <1>5, <1>a, CallBound DEF EventType
  <2>2. e = [mr |-> m.mr + 1, id |-> id, size |-> m.size]
    BY <1>a, <1>b, <1>c DEF Entry
  <2>3. m.mr + 1 \in 0 .. RTMR_COUNT + 1
    BY <2>1 DEF RTMR_COUNT
  <2>4. QED
    BY <1>a, <1>b, <2>1, <2>2, <2>3 DEF EntryType
<1>7. /\ log \in AreaType /\ final \in AreaType /\ log.size <= log.laml
      /\ unlogged \in [full : SUBSET (1 .. calls), dropped : SUBSET Nat, unwanted : SUBSET Nat]
  BY DEF MeasureInv, AreaInv, OrderInv
<1>8. CASE m.extendOnly
  <2>1. /\ log' = log /\ final' = final /\ numberOfEvents' = numberOfEvents
        /\ unlogged' = unlogged /\ id = 0
    BY <1>2, <1>5, <1>8
  <2>2. AreaInv' /\ TailInv'
    BY <1>1, <2>1 DEF MeasureInv, AreaInv, TailInv
  <2>3. Lost' = Lost /\ (unlogged'.full # {} => log'.truncated)
    BY <2>1 DEF Lost, MeasureInv, AccountInv
  <2>4. unlogged'.full \subseteq unlogged.full \cup {id} /\ log'.tail = log.tail
        /\ Lost \subseteq Lost'
        /\ unlogged' \in [full : SUBSET (1 .. calls), dropped : SUBSET Nat, unwanted : SUBSET Nat]
    BY <1>7, <2>1, <2>3
  <2>5. QED
    BY <1>1, <1>3, <1>4, <1>a, <2>1, <2>2, <2>3, <2>4, TailStays
<1>9. ASSUME ~m.extendOnly, Full(log, m.size)
      PROVE  MeasureInv'
  <2>1. /\ log' = Truncate(log) /\ final' = final /\ numberOfEvents' = numberOfEvents
        /\ unlogged' = [unlogged EXCEPT !.full = @ \cup ({id} \ {0})]
    BY <1>2, <1>9 DEF TdxDxeLogEvent
  <2>2. /\ log' \in AreaType /\ log'.head = log.head /\ log'.tail = log.tail
        /\ log'.size = log.size /\ log'.last = log.last /\ log'.laml = log.laml
        /\ log'.offset = log.offset /\ log'.truncated
    BY <1>7, <2>1, Truncated
  <2>3. AreaInv'
    BY <1>1, <2>1, <2>2 DEF MeasureInv, AreaInv
  <2>4. TailInv'
    BY <1>1, <2>1, <2>2 DEF MeasureInv, TailInv
  <2>5. /\ unlogged'.full = unlogged.full \cup ({id} \ {0})
        /\ unlogged'.dropped = unlogged.dropped /\ unlogged'.unwanted = unlogged.unwanted
        /\ unlogged' \in [full : SUBSET (1 .. calls), dropped : SUBSET Nat, unwanted : SUBSET Nat]
    BY <1>5, <1>7, <2>1
  <2>6. /\ unlogged'.full \subseteq unlogged.full \cup {id} /\ Lost \subseteq Lost'
        /\ id = 0 \/ id \in Lost'
    BY <2>5 DEF Lost
  <2>7. QED
    BY <1>1, <1>3, <1>4, <1>a, <2>2, <2>3, <2>4, <2>5, <2>6, TailStays
<1>10. ASSUME ~m.extendOnly, ~Full(log, m.size)
       PROVE  MeasureInv'
  <2> DEFINE toFinal == getEventLogCalled /\ table
             wanted == toFinal /\ ~Full(final, m.size)
  <2>1. /\ log' = TcgCommLogEvent(log, m.kind, e, m.size)
        /\ final' = IF wanted THEN TcgCommLogEvent(final, m.kind, e, m.size)
                    ELSE IF toFinal THEN Truncate(final) ELSE final
        /\ numberOfEvents' = IF wanted THEN numberOfEvents + 1 ELSE numberOfEvents
        /\ unlogged' = unlogged
    BY <1>2, <1>10 DEF TdxDxeLogEvent
  <2>2. ~log.truncated /\ m.size + log.size <= log.laml /\ log.size \in Nat /\ log.laml \in Nat
        /\ log.head \in Nat /\ log.last \in Nat /\ log.offset \in Nat
    BY <1>6, <1>7, <1>10, SMTT(40) DEF Full, NoRoom, AreaType
  <2>3. wanted => m.size + final.size <= final.laml /\ ~final.truncated
    BY <1>6, <1>7, SMTT(40) DEF Full, NoRoom, AreaType
  <2>4. /\ final.offset = 0 /\ final.size <= final.laml
        /\ log.offset > 0 \/ log.laml = 0
        /\ log.tail # <<>> => log.last + log.tail[Len(log.tail)].size = log.size
        /\ \A i \in 1 .. Len(log.tail) : log.tail[i].id <= calls
    BY DEF MeasureInv, AreaInv
  <2>5. hobs' \in Seq(EntryType) /\ \A i \in 1 .. Len(hobs') : FALSE
    BY <1>1, <1>3
  <2>6. /\ table \in BOOLEAN /\ getEventLogCalled \in BOOLEAN
        /\ mark.tail \in Nat /\ mark.head \in Nat /\ numberOfEvents \in Nat
        /\ mark.tail + Len(final.tail) <= Len(log.tail)
        /\ mark.head <= log.head
        /\ \A i \in 1 .. Len(final.tail) : final.tail[i] = log.tail[mark.tail + i]
        /\ ~final.truncated /\ getEventLogCalled /\ table =>
              mark.tail + Len(final.tail) = Len(log.tail)
        /\ log.head = mark.head \/ ~getEventLogCalled => numberOfEvents = Len(final.tail)
        /\ ~getEventLogCalled => mark = [head |-> 0, tail |-> 0] /\ final.tail = <<>>
    BY DEF MeasureInv, TailInv
  <2>7. ASSUME m.kind = "PlatformId" PROVE MeasureInv'
    <3>1. log.offset # 0 /\ id = 0
      BY <1>5, <1>6, <2>2, <2>4, <2>7 DEF Silent
    <3>2. /\ log' \in AreaType /\ log'.head = log.head + 1 /\ log'.tail = log.tail
          /\ log'.size = log.size + m.size /\ log'.last = log.last + m.size
          /\ log'.laml = log.laml /\ log'.offset = log.offset + m.size
          /\ log'.truncated = log.truncated
      BY <1>6, <1>7, <2>1, <2>7, <3>1, PlatformIdLogged
    <3>3. TcgCommLogEvent(final, m.kind, e, m.size) = final
      BY <2>4, <2>7 DEF TcgCommLogEvent
    <3>4. final' = final \/ (final' = Truncate(final) /\ toFinal)
      BY <2>1, <3>3
    <3>5. /\ final' \in AreaType /\ final'.tail = final.tail /\ final'.size = final.size
          /\ final'.laml = final.laml /\ final'.offset = final.offset
          /\ ~final'.truncated => ~final.truncated
      BY <1>7, <3>4, Truncated
    <3>6. AreaInv'
      <4>1. log'.size <= log'.laml /\ (log'.offset > 0 \/ log'.laml = 0)
        BY <1>6, <2>2, <2>4, <3>2
      <4>2. log'.tail # <<>> => log'.last + log'.tail[Len(log'.tail)].size = log'.size
        <5>1. ASSUME log.tail # <<>> PROVE log.tail[Len(log.tail)].size \in Nat
          <6>1. Len(log.tail) \in 1 .. Len(log.tail)
            BY <5>1, Elements, IdsAre
          <6>2. log.tail[Len(log.tail)] \in EntryType
            BY <6>1, Elements, IdsAre
          <6>3. QED
            BY <6>2 DEF EntryType
        <5>2. \A a, b, s, k \in Nat : a + s = b => (a + k) + s = b + k
          OBVIOUS
        <5>3. ASSUME log.tail # <<>>
              PROVE  log'.last + log.tail[Len(log.tail)].size = log'.size
          <6>1. log.last + log.tail[Len(log.tail)].size = log.size
            BY <2>4, <5>3
          <6>2. log.tail[Len(log.tail)].size \in Nat
            BY <5>1, <5>3
          <6>3. (log.last + m.size) + log.tail[Len(log.tail)].size = log.size + m.size
            BY <1>6, <2>2, <5>2, <6>1, <6>2, SMTT(40)
          <6>4. QED
            BY <3>2, <6>3
        <5>4. QED
          BY <3>2, <5>3
      <4>3. QED
        BY <1>1, <2>4, <2>5, <3>2, <3>5, <4>1, <4>2 DEF AreaInv
    <3>7. TailInv'
      <4>1. log'.head # mark.head /\ mark.head <= log'.head
        BY <2>2, <2>6, <3>2, SMTT(40)
      <4>2. numberOfEvents' \in Nat /\ (~getEventLogCalled => numberOfEvents' = numberOfEvents)
        BY <2>1, <2>6
      <4>3. QED
        BY <1>1, <2>6, <3>2, <3>5, <4>1, <4>2 DEF TailInv
    <3>8. Lost' = Lost /\ (unlogged'.full # {} => log'.truncated)
      BY <2>1, <3>2 DEF Lost, MeasureInv, AccountInv
    <3>9. unlogged'.full \subseteq unlogged.full \cup {id} /\ Lost \subseteq Lost'
          /\ unlogged' \in [full : SUBSET (1 .. calls), dropped : SUBSET Nat, unwanted : SUBSET Nat]
      BY <1>7, <2>1, <3>8
    <3>10. QED
      BY <1>1, <1>3, <1>4, <1>a, <3>1, <3>2, <3>6, <3>7, <3>8, <3>9, TailStays
  <2>8. ASSUME m.kind # "PlatformId" PROVE MeasureInv'
    <3>1. Appends(log, e, m.size, log') /\ (wanted => Appends(final, e, m.size, final'))
      BY <1>6, <1>7, <2>1, <2>8, EventLogged
    <3>2. /\ log' \in AreaType /\ log'.head = log.head /\ log'.tail = Append(log.tail, e)
          /\ log'.size = log.size + m.size /\ log'.last = log.size
          /\ log'.laml = log.laml /\ log'.offset = log.offset /\ log'.truncated = log.truncated
      BY <3>1 DEF Appends
    <3>3. /\ Len(log'.tail) = Len(log.tail) + 1 /\ log'.tail[Len(log.tail) + 1] = e
          /\ \A i \in 1 .. Len(log.tail) : log'.tail[i] = log.tail[i]
          /\ Len(log.tail) \in Nat /\ Len(final.tail) \in Nat
      BY <1>6, <3>2, IdsAre, Appended
    <3>4. log'.size <= log'.laml /\ log'.last + log'.tail[Len(log'.tail)].size = log'.size
          /\ \A i \in 1 .. Len(log'.tail) : log'.tail[i].id <= calls
      <4>1. log'.size <= log'.laml /\ log'.last + log'.tail[Len(log'.tail)].size = log'.size
        BY <1>6, <2>2, <3>2, <3>3
      <4>2. \A i \in 1 .. Len(log'.tail) : i = Len(log.tail) + 1 \/ i \in 1 .. Len(log.tail)
        BY <3>3
      <4>3. QED
        BY <1>5, <1>6, <1>a, <2>4, <3>3, <4>1, <4>2
    <3>5. CASE wanted
      <4>1. /\ final' \in AreaType /\ final'.head = final.head
            /\ final'.tail = Append(final.tail, e)
            /\ final'.size = final.size + m.size /\ final'.laml = final.laml
            /\ final'.offset = final.offset /\ final'.truncated = final.truncated
        BY <3>1, <3>5 DEF Appends
      <4>2. /\ Len(final'.tail) = Len(final.tail) + 1 /\ final'.tail[Len(final.tail) + 1] = e
            /\ \A i \in 1 .. Len(final.tail) : final'.tail[i] = final.tail[i]
        BY <1>6, <4>1, IdsAre, Appended
      <4>3. final'.size <= final'.laml
        BY <1>6, <1>7, <2>3, <3>5, <4>1, SMTT(40) DEF AreaType
      <4>4. AreaInv'
        BY <1>1, <2>4, <2>5, <3>2, <3>4, <4>1, <4>3 DEF AreaInv
      <4>5. mark.tail + Len(final.tail) = Len(log.tail) /\ getEventLogCalled
        BY <2>3, <2>6, <3>5
      <4>6. ASSUME NEW i \in 1 .. Len(final'.tail)
            PROVE  final'.tail[i] = log'.tail[mark.tail + i]
        <5>1. CASE i = Len(final.tail) + 1
          <6>1. mark.tail + i = Len(log.tail) + 1
            <7>1. mark.tail \in Nat /\ Len(final.tail) \in Nat
              BY <2>6, <3>3
            <7>2. mark.tail + (Len(final.tail) + 1) = mark.tail + Len(final.tail) + 1
              BY <7>1
            <7>3. QED
              BY <4>5, <5>1, <7>2
          <6>2. QED
            BY <3>3, <4>2, <5>1, <6>1
        <5>2. CASE i \in 1 .. Len(final.tail)
          <6>1. mark.tail + i \in 1 .. Len(log.tail)
            BY <2>6, <3>3, <4>5, <5>2, SMTT(40)
          <6>2. QED
            BY <2>6, <3>3, <4>2, <5>2, <6>1
        <5>3. i = Len(final.tail) + 1 \/ i \in 1 .. Len(final.tail)
          BY <3>3, <4>2
        <5>4. QED
          BY <5>1, <5>2, <5>3
      <4>7. mark.tail + Len(final'.tail) = Len(log'.tail) /\ numberOfEvents' = numberOfEvents + 1
            /\ mark.tail + Len(final'.tail) <= Len(log'.tail) /\ numberOfEvents' \in Nat
            /\ (numberOfEvents = Len(final.tail) => numberOfEvents' = Len(final'.tail))
        <5>1. numberOfEvents' = numberOfEvents + 1
          BY <2>1, <3>5
        <5>2. mark.tail \in Nat /\ Len(final.tail) \in Nat /\ numberOfEvents \in Nat
          BY <2>6, <3>3
        <5>3. mark.tail + (Len(final.tail) + 1) = mark.tail + Len(final.tail) + 1
          BY <5>2
        <5>4. mark.tail + Len(final'.tail) = Len(log'.tail)
          BY <3>3, <4>2, <4>5, <5>3
        <5>5. Len(log'.tail) \in Nat
          BY <3>3
        <5>6. mark.tail + Len(final'.tail) <= Len(log'.tail)
          BY <5>4, <5>5
        <5>7. numberOfEvents' \in Nat
          BY <5>1, <5>2
        <5>8. numberOfEvents = Len(final.tail) => numberOfEvents' = Len(final'.tail)
          BY <4>2, <5>1
        <5>9. QED
          BY <5>1, <5>4, <5>6, <5>7, <5>8
      <4>8. TailInv'
        BY <1>1, <2>6, <3>2, <4>5, <4>6, <4>7 DEF TailInv
      <4>9. QED
        BY <1>1, <1>3, <1>4, <1>6, <2>1, <2>2, <3>2, <4>4, <4>8, TailGrows
    <3>6. CASE ~wanted
      <4>1. /\ final' = final \/ (final' = Truncate(final) /\ toFinal)
            /\ toFinal => final' = Truncate(final)
            /\ numberOfEvents' = numberOfEvents
        BY <2>1, <3>6
      <4>2. /\ final' \in AreaType /\ final'.tail = final.tail /\ final'.size = final.size
            /\ final'.laml = final.laml /\ final'.offset = final.offset
            /\ toFinal => final'.truncated
        BY <1>7, <4>1, Truncated
      <4>3. AreaInv'
        BY <1>1, <2>4, <2>5, <3>2, <3>4, <4>2 DEF AreaInv
      <4>4. mark.tail + Len(final.tail) <= Len(log'.tail)
            /\ \A i \in 1 .. Len(final.tail) : final.tail[i] = log'.tail[mark.tail + i]
        <5>1. \A i \in 1 .. Len(final.tail) : mark.tail + i \in 1 .. Len(log.tail)
          BY <2>6, <3>3, SMTT(40)
        <5>2. \A i \in 1 .. Len(final.tail) : final.tail[i] = log'.tail[mark.tail + i]
          BY <2>6, <3>3, <5>1
        <5>3. mark.tail + Len(final.tail) <= Len(log.tail) /\ mark.tail \in Nat
          BY <2>6
        <5>4. mark.tail + Len(final.tail) <= Len(log.tail) + 1
          BY <3>3, <5>3
        <5>5. QED
          BY <3>3, <5>2, <5>4
      <4>5. TailInv'
        BY <1>1, <2>6, <3>2, <4>1, <4>2, <4>4 DEF TailInv
      <4>6. QED
        BY <1>1, <1>3, <1>4, <1>6, <2>1, <2>2, <3>2, <4>3, <4>5, TailGrows
    <3>7. QED
      BY <3>5, <3>6
  <2>9. QED
    BY <2>7, <2>8
<1>11. QED
  BY <1>8, <1>9, <1>10

-----------------------------------------------------------------------------
LEMMA MeasureStep == MeasureInv /\ [Next]_vars => MeasureInv'
<1> SUFFICES ASSUME MeasureInv, [Next]_vars PROVE MeasureInv'
  OBVIOUS
<1>1. ASSUME NEW c \in Context, Step(c) PROVE MeasureInv'
  BY <1>1, StartKeeps, ExtendFailsKeeps, TdExtendRtmrKeeps, DxeLogKeeps, TdGetEventLogKeeps,
     GetEventLogReturnsKeeps, CallerSchedules DEF Step
<1>2. CASE SecLog
  BY <1>2, SecLogKeeps
<1>3. CASE SetupTdEventLog
  BY <1>3, SetupKeeps
<1>4. CASE SyncTdTcgEvent
  BY <1>4, SyncKeeps
<1>5. CASE SyncFails
  BY <1>5, SyncFailsKeeps
<1>6. CASE \/ MeasureSecureBootPolicy \/ InstallAcpiTable \/ OnReadyToBoot
           \/ OnExitBootServices \/ OnExitBootServicesFailed
  BY <1>6, HandlersSchedule
<1>7. CASE InstallEfiTdProtocol \/ ExitReturns \/ UNCHANGED vars
  BY <1>7, PhaseMoves
<1>8. QED
  BY <1>1, <1>2, <1>3, <1>4, <1>5, <1>6, <1>7 DEF Next

\* The measurements of SEC and of TdTcg2Dxe keep the log, the registers, mExtendBuffer and the final
\* events table related as MeasureInv says, whatever the lengths of the areas, the callers and the
\* failures are.
THEOREM MeasureInvariance == Spec => []MeasureInv
<1>1. QED
  BY InitMeasure, MeasureStep, PTL DEF Spec

\* The state is well formed: in particular no area ever has more than its length (TcgCommLogEvent
\* writes at Lasa + EventLogSize), and every register that is extended exists.
THEOREM MeasureTypeCorrect == Spec => []TypeOK
<1>1. MeasureInv => TypeOK
  <2> SUFFICES ASSUME MeasureInv PROVE TypeOK
    OBVIOUS
  <2>1. calls \in 0 .. MaxCalls /\ calls \in Nat /\ overlap \subseteq 1 .. calls /\ buffer = calls
    BY CallBound, IdsAre DEF MeasureInv, BufferInv
  <2>2. overlap \subseteq Call /\ buffer \in Call \cup {0}
    BY <2>1, MeasureAssumption DEF Call
  <2>3. QED
    BY <2>1, <2>2 DEF MeasureInv, TypeOK, PhaseInv, RegInv, AreaInv, TailInv
<1>2. QED
  BY <1>1, MeasureInvariance, PTL

\* Every digest that extended a register is in the log under the register's index, or is lost for a
\* reason that is recorded, and the log has no other digest; only calls that a notification came
\* into are excepted (mExtendBuffer is shared, TdExtendRtmr is not reentrant).
THEOREM LogIsAccounted == Spec => []LogAccounts
<1>1. MeasureInv => LogAccounts
  <2> SUFFICES ASSUME MeasureInv PROVE LogAccounts
    OBVIOUS
  <2> DEFINE Extended == {rtmr[i] : i \in DOMAIN rtmr}
             Logged == {[mr |-> e.mr - 1, id |-> e.id] :
                          e \in {log.tail[i] : i \in DOMAIN log.tail}
                                  \cup {hobs[i] : i \in DOMAIN hobs}}
             Missing == unlogged.full \cup unlogged.dropped \cup unlogged.unwanted \cup InFlight
  <2>1. /\ DOMAIN rtmr = 1 .. Len(rtmr) /\ DOMAIN log.tail = 1 .. Len(log.tail)
        /\ DOMAIN hobs = 1 .. Len(hobs)
        /\ \A i \in 1 .. Len(rtmr) : rtmr[i] \in [mr : 0 .. RTMR_COUNT - 1, id : Call]
    BY Elements, IdsAre DEF MeasureInv, RegInv, AreaInv
  <2>2. ASSUME NEW i \in 1 .. Len(rtmr), NEW s, s \in {log.tail, hobs}, InLog(s, rtmr[i])
        PROVE  rtmr[i] \in Logged
    <3>1. PICK j \in 1 .. Len(s) : s[j].mr - 1 = rtmr[i].mr /\ s[j].id = rtmr[i].id
      BY <2>2 DEF InLog
    <3>2. [mr |-> s[j].mr - 1, id |-> s[j].id] \in Logged
      BY <2>1, <2>2, <3>1
    <3>3. rtmr[i] = [mr |-> rtmr[i].mr, id |-> rtmr[i].id]
      BY <2>1
    <3>4. QED
      BY <3>1, <3>2, <3>3
  <2>3. ASSUME NEW x \in Extended \ Logged PROVE x.id \in Missing \cup overlap
    <3>1. PICK i \in 1 .. Len(rtmr) : x = rtmr[i]
      BY <2>1
    <3>2. ~InLog(log.tail, rtmr[i]) /\ ~InLog(hobs, rtmr[i])
      BY <2>2, <2>3, <3>1
    <3>3. \/ rtmr[i].id \in overlap \cup Lost
          \/ \E c \in Context : call[c].id = rtmr[i].id
      BY <3>2 DEF MeasureInv, AccountInv
    <3>4. rtmr[i].id # 0
      BY IdsAre
    <3>5. QED
      BY <3>1, <3>3, <3>4 DEF Lost, InFlight
  <2>4. ASSUME NEW x \in Logged \ Extended PROVE x.id \in overlap \cup {0}
    <3>1. PICK e : /\ x = [mr |-> e.mr - 1, id |-> e.id]
                   /\ \/ \E j \in 1 .. Len(log.tail) : e = log.tail[j]
                      \/ \E j \in 1 .. Len(hobs) : e = hobs[j]
      BY <2>1
    <3>2. Pure(e.id) => InReg(e)
      BY <3>1 DEF MeasureInv, AccountInv
    <3>3. ASSUME InReg(e) PROVE FALSE
      <4>1. PICK i \in 1 .. Len(rtmr) : rtmr[i].mr = e.mr - 1 /\ rtmr[i].id = e.id
        BY <3>3 DEF InReg
      <4>2. rtmr[i] = x
        BY <2>1, <3>1, <4>1
      <4>3. QED
        BY <2>1, <2>4, <4>2
    <3>4. QED
      BY <3>1, <3>2, <3>3 DEF Pure
  <2>5. unlogged.full # {} => log.truncated
    BY DEF MeasureInv, AccountInv
  <2>6. QED
    BY <2>3, <2>4, <2>5 DEF LogAccounts
<1>2. QED
  BY <1>1, MeasureInvariance, PTL

\* The log can be replayed: its digests and those of the registers are in the order of the calls,
\* each once, what the log had no room for comes after all that it has, and LastEvent is where the
\* last event begins.
THEOREM LogIsOrdered == Spec => []LogOrder
<1>1. MeasureInv => LogOrder
  <2> SUFFICES ASSUME MeasureInv PROVE LogOrder
    OBVIOUS
  <2>1. DOMAIN rtmr = 1 .. Len(rtmr) /\ DOMAIN log.tail = 1 .. Len(log.tail)
    BY Elements, IdsAre DEF MeasureInv, RegInv
  <2>2. /\ \A i \in Clean(log.tail) : i \in 1 .. Len(log.tail) /\ Pure(log.tail[i].id)
        /\ \A i \in Clean(rtmr) : i \in 1 .. Len(rtmr) /\ Pure(rtmr[i].id)
    BY <2>1 DEF Clean, Pure
  <2>3. \A i, j \in Clean(log.tail) : i < j => log.tail[i].id < log.tail[j].id
    BY <2>2 DEF MeasureInv, OrderInv, Increases
  <2>4. \A i, j \in Clean(rtmr) : i < j => rtmr[i].id < rtmr[j].id
    BY <2>2 DEF MeasureInv, RegInv, Increases
  <2>5. \A n \in unlogged.full \ overlap : Pure(n)
    BY DEF MeasureInv, OrderInv, Pure
  <2>6. \A i \in Clean(log.tail) : \A n \in unlogged.full \ overlap : log.tail[i].id < n
    BY <2>2, <2>5 DEF MeasureInv, OrderInv, Below
  <2>7. log.tail # <<>> => log.last + log.tail[Len(log.tail)].size = log.size
    BY DEF MeasureInv, AreaInv
  <2>8. QED
    BY <2>3, <2>4, <2>6, <2>7 DEF LogOrder
<1>2. QED
  BY <1>1, MeasureInvariance, PTL

(* What GetEventLog leaves out.                                            *)
LEMMA GapKept ==
    ASSUME GapInv, UNCHANGED <<call, seen, mark, getEventLogCalled>>, log'.tail = log.tail
    PROVE  GapInv'
  BY DEF GapInv

(* A step of a measurement, with the log unchanged if it is not the        *)
(* notification's.                                                         *)
LEMMA GapCalls ==
    ASSUME GapInv, NEW c \in Context, NEW step \in {"none", "extend", "log"},
           UNCHANGED <<seen, mark, getEventLogCalled>>, log'.tail = log.tail,
           call \in [Context -> CallType], call' \in [Context -> CallType],
           call[c].step \in {"extend", "log"}, call'[c].step = step,
           \A d \in Context : d # c => call'[d] = call[d]
    PROVE  GapInv'
  BY ContextIs DEF GapInv

LEMMA NeverShorter ==
    ASSUME MeasureInv, NEW c \in Context, DxeLog(c)
    PROVE  Len(log.tail) <= Len(log'.tail)
<1> DEFINE e == Entry(c)
           tail == log.tail
<1>1. log \in AreaType /\ tail \in Seq(EntryType) /\ Len(tail) \in Nat
  BY IdsAre DEF MeasureInv, AreaInv
<1>2. \/ log' = log \/ log' = Truncate(log)
      \/ log' = TcgCommLogEvent(log, call[c].event.kind, e, call[c].event.size)
  BY DEF DxeLog, TdxDxeLogEvent, logVars
<1> HIDE DEF e
<1>3. log'.tail = tail \/ log'.tail = Append(tail, e)
  BY <1>1, <1>2 DEF Truncate, TcgCommLogEvent, AreaType
<1>4. Len(Append(tail, e)) = Len(tail) + 1
  BY <1>1
<1>5. QED
  BY <1>1, <1>3, <1>4

LEMMA GapStep == MeasureInv /\ MeasureInv' /\ GapInv /\ [Next]_vars => GapInv'
<1> SUFFICES ASSUME MeasureInv, MeasureInv', GapInv, [Next]_vars PROVE GapInv'
  OBVIOUS
<1>t. /\ call \in [Context -> CallType] /\ call' \in [Context -> CallType]
      /\ Len(log.tail) \in Nat /\ Len(log'.tail) \in Nat
      /\ "main" \in Context /\ "notify" \in Context /\ NoCall.step = "none"
      /\ \A d \in Context : d = "main" \/ d = "notify"
  <2>1. Len(log.tail) \in Nat
    BY IdsAre
  <2>2. (log.tail \in Seq(EntryType))'
    BY DEF MeasureInv, AreaInv, AreaType
  <2>3. Len(log'.tail) \in Nat
    BY <2>2, Elements
  <2>4. QED
    BY <2>1, <2>3, ContextIs, NoCallIs DEF MeasureInv, CallInv
<1>1. ASSUME NEW c \in Context, Start(c) PROVE GapInv'
  <2>1. /\ log' = log /\ mark' = mark /\ getEventLogCalled' = getEventLogCalled
        /\ call[c] = NoCall /\ Runs(c)
        /\ seen' = IF c = "notify" /\ call["main"].step = "get" /\ ~getEventLogCalled
                   THEN [seen EXCEPT !.inside = TRUE] ELSE seen
        /\ \/ call' = [call EXCEPT ![c] = [id |-> 0, step |-> "log", event |-> Head(todo[c])]]
           \/ call' = [call EXCEPT ![c] = [id |-> calls + 1, step |-> "extend",
                                            event |-> Head(todo[c])]]
    BY <1>1 DEF Start, logVars
  <2>2. /\ call'[c].step \in {"extend", "log"} /\ \A d \in Context : d # c => call'[d] = call[d]
    BY <1>t, <2>1
  <2>3. CASE c = "notify" /\ call["main"].step = "get" /\ ~getEventLogCalled
    BY <1>t, <2>1, <2>2, <2>3 DEF GapInv
  <2>4. CASE ~(c = "notify" /\ call["main"].step = "get" /\ ~getEventLogCalled)
    <3>1. seen' = seen
      BY <2>1, <2>4
    <3>2. c = "main" => call["notify"].step = "none"
      BY <1>t, <2>1 DEF Runs
    <3>3. QED
      BY <1>t, <2>1, <2>2, <2>4, <3>1, <3>2 DEF GapInv
  <2>5. QED
    BY <2>3, <2>4
<1>2. ASSUME NEW c \in Context, ExtendFails(c) \/ TdExtendRtmr(c) \/ (SecLog /\ c = "main")
      PROVE  GapInv'
  <2>1. /\ log' = log /\ mark' = mark /\ getEventLogCalled' = getEventLogCalled /\ seen' = seen
        /\ call[c].step \in {"extend", "log"}
        /\ \/ call' = [call EXCEPT ![c] = NoCall] \/ call' = [call EXCEPT ![c].step = "log"]
    BY <1>2 DEF ExtendFails, TdExtendRtmr, SecLog, Finish, At, logVars, setupVars
  <2>2. /\ call'[c].step \in {"none", "extend", "log"}
        /\ \A d \in Context : d # c => call'[d] = call[d]
    BY <1>t, <2>1 DEF CallType
  <2>3. QED
    BY <1>t, <2>1, <2>2, GapCalls
<1>3. ASSUME NEW c \in Context, DxeLog(c) PROVE GapInv'
  <2>1. /\ mark' = mark /\ getEventLogCalled' = getEventLogCalled /\ seen' = seen
        /\ call[c].step = "log" /\ Runs(c) /\ call' = [call EXCEPT ![c] = NoCall]
    BY <1>3 DEF DxeLog, Finish, At, setupVars
  <2>2. call'[c].step = "none" /\ \A d \in Context : d # c => call'[d] = call[d]
    BY <1>t, <2>1
  <2>3. CASE getEventLogCalled \/ ~seen.asked
    BY <1>t, <2>1, <2>2, <2>3 DEF GapInv
  <2>4. CASE ~getEventLogCalled /\ seen.asked
    <3>1. call["notify"].step # "get"
      BY <1>t, <2>1 DEF Runs
    <3>2. c = "notify" /\ call["main"].step = "get" /\ seen.inside
      BY <1>t, <2>1, <2>4, <3>1 DEF GapInv
    <3>3. Len(log.tail) <= Len(log'.tail)
      BY <1>3, NeverShorter
    <3>4. QED
      BY <1>t, <2>1, <2>2, <2>4, <3>2, <3>3 DEF GapInv
  <2>5. QED
    BY <2>3, <2>4
<1>4. ASSUME NEW c \in Context, TdGetEventLog(c) PROVE GapInv'
  <2>1. /\ log' = log /\ mark' = mark /\ getEventLogCalled' = getEventLogCalled
        /\ call[c] = NoCall /\ Runs(c) /\ call' = [call EXCEPT ![c].step = "get"]
        /\ seen' = IF seen.asked THEN seen
                   ELSE [asked |-> TRUE, tail |-> Len(log.tail), inside |-> FALSE]
    BY <1>4 DEF TdGetEventLog, Idle, logVars
  <2>2. call'[c].step = "get" /\ \A d \in Context : d # c => call'[d] = call[d]
    BY <1>t, <2>1 DEF CallType
  <2>3. c = "main" => call["notify"].step = "none"
    BY <1>t, <2>1 DEF Runs
  <2>4. CASE seen.asked
    BY <1>t, <2>1, <2>2, <2>3, <2>4 DEF GapInv
  <2>5. CASE ~seen.asked
    BY <1>t, <2>1, <2>2, <2>3, <2>5 DEF GapInv
  <2>6. QED
    BY <2>4, <2>5
<1>5. ASSUME NEW c \in Context, GetEventLogReturns(c) PROVE GapInv'
  <2>1. /\ log' = log /\ getEventLogCalled' = TRUE /\ seen' = seen /\ call[c].step = "get"
        /\ call' = [call EXCEPT ![c] = NoCall]
        /\ mark' = IF getEventLogCalled THEN mark ELSE [head |-> log.head, tail |-> Len(log.tail)]
    BY <1>5 DEF GetEventLogReturns, At, logVars
  <2>2. call'[c].step = "none" /\ \A d \in Context : d # c => call'[d] = call[d]
    BY <1>t, <2>1
  <2>3. CASE getEventLogCalled
    BY <1>t, <2>1, <2>2, <2>3 DEF GapInv
  <2>4. CASE ~getEventLogCalled
    BY <1>t, <2>1, <2>2, <2>4 DEF GapInv
  <2>5. QED
    BY <2>3, <2>4
<1>6. CASE SetupTdEventLog \/ SyncTdTcgEvent
  <2>1. /\ mark' = mark /\ getEventLogCalled' = getEventLogCalled /\ seen' = seen /\ call' = call
        /\ phase \in {"sec", "sync"} /\ call["main"] = NoCall
    BY <1>6 DEF SetupTdEventLog, SyncTdTcgEvent, Idle, callVars, setupVars, MeasureInv, PhaseInv
  <2>2. call["notify"] = NoCall /\ ~getEventLogCalled
    BY <2>1 DEF MeasureInv, PhaseInv
  <2>3. ~seen.asked
    BY <1>t, <2>1, <2>2 DEF GapInv
  <2>4. QED
    BY <2>1, <2>2, <2>3 DEF GapInv
<1>7. CASE \/ SyncFails \/ InstallEfiTdProtocol \/ MeasureSecureBootPolicy \/ InstallAcpiTable
           \/ OnReadyToBoot \/ OnExitBootServices \/ OnExitBootServicesFailed \/ ExitReturns
           \/ UNCHANGED vars
  <2>1. UNCHANGED <<call, seen, mark, getEventLogCalled>> /\ log' = log
    BY <1>7 DEF SyncFails, InstallEfiTdProtocol, MeasureSecureBootPolicy, InstallAcpiTable,
       OnReadyToBoot, OnExitBootServices, OnExitBootServicesFailed, ExitReturns, vars, callVars,
       setupVars, logVars
  <2>2. QED
    BY <2>1, GapKept
<1>8. ASSUME NEW c \in Context, NEW kind \in CallerKinds, NEW mr \in CallerMr,
             NEW extendOnly \in BOOLEAN, TdHashLogExtendEvent(c, kind, mr, extendOnly)
      PROVE  GapInv'
  <2>1. UNCHANGED <<call, seen, mark, getEventLogCalled>> /\ log' = log
    BY <1>8 DEF TdHashLogExtendEvent, callVars, logVars
  <2>2. QED
    BY <2>1, GapKept
<1>9. ASSUME NEW c \in Context, Step(c) PROVE GapInv'
  BY <1>1, <1>2, <1>3, <1>4, <1>5, <1>8, <1>9 DEF Step
<1>10. CASE SecLog
  BY <1>2, <1>10, <1>t
<1>11. QED
  BY <1>6, <1>7, <1>9, <1>10 DEF Next

\* The final events table has the events that the log got since GetEventLogCalled was set, up to
\* the first that did not fit, and NumberOfEvents counts them; an event that is neither in it nor in
\* what the caller of GetEventLog saw is one that a notification measured while that call ran.
THEOREM FinalTableIsTail == Spec => []FinalIsTail
<1>1. MeasureInv /\ GapInv => FinalIsTail
  <2> SUFFICES ASSUME MeasureInv, GapInv PROVE FinalIsTail
    OBVIOUS
  <2>1. /\ final.tail \in Seq(EntryType) /\ log.tail \in Seq(EntryType)
        /\ Len(final.tail) \in Nat /\ Len(log.tail) \in Nat
    BY IdsAre
  <2>2. /\ mark.tail \in Nat /\ mark.tail + Len(final.tail) <= Len(log.tail)
        /\ \A i \in 1 .. Len(final.tail) : final.tail[i] = log.tail[mark.tail + i]
        /\ ~final.truncated /\ getEventLogCalled /\ table =>
              mark.tail + Len(final.tail) = Len(log.tail)
        /\ log.head = mark.head => numberOfEvents = Len(final.tail)
    BY DEF MeasureInv, TailInv
  <2> DEFINE n == Len(final.tail)
             t == SubSeq(log.tail, mark.tail + 1, mark.tail + n)
  <2>3. /\ t \in Seq(EntryType) /\ Len(t) = n
        /\ \A i \in 1 .. n : t[i] = log.tail[mark.tail + i]
    <3>1. PICK l \in Int, h \in Int : l = mark.tail + 1 /\ h = mark.tail + n
      BY <2>1, <2>2
    <3>2. \A i \in l .. h : i \in 1 .. Len(log.tail)
      BY <2>1, <2>2, <3>1
    <3>3. \A i \in l .. h : log.tail[i] \in EntryType
      BY <2>1, <3>2, Elements
    <3>4. /\ SubSeq(log.tail, l, h) \in Seq(EntryType)
          /\ Len(SubSeq(log.tail, l, h)) = IF l <= h THEN h - l + 1 ELSE 0
          /\ \A i \in 1 .. h - l + 1 : SubSeq(log.tail, l, h)[i] = log.tail[l + i - 1]
      BY <3>3, SubSeqProperties
    <3>5. h - l + 1 = n /\ (l <= h \/ n = 0) /\ \A i \in 1 .. n : l + i - 1 = mark.tail + i
      <4>1. \A a, k \in Nat : /\ (a + k) - (a + 1) + 1 = k /\ (a + 1 <= a + k \/ k = 0)
                              /\ \A i \in 1 .. k : (a + 1) + i - 1 = a + i
        OBVIOUS
      <4>2. mark.tail \in Nat /\ n \in Nat
        BY <2>1, <2>2
      <4>3. QED
        BY <3>1, <4>1, <4>2, ZenonT(60)
    <3>6. /\ SubSeq(log.tail, l, h) \in Seq(EntryType) /\ Len(SubSeq(log.tail, l, h)) = n
          /\ \A i \in 1 .. n : SubSeq(log.tail, l, h)[i] = log.tail[mark.tail + i]
      <4>1. Len(SubSeq(log.tail, l, h)) = n
        BY <2>1, <3>1, <3>4, <3>5
      <4>2. \A i \in 1 .. n : SubSeq(log.tail, l, h)[i] = log.tail[l + i - 1]
        BY <3>4, <3>5
      <4>3. \A i \in 1 .. n : SubSeq(log.tail, l, h)[i] = log.tail[mark.tail + i]
        BY <3>5, <4>2
      <4>4. QED
        BY <3>4, <4>1, <4>3
    <3>7. QED
      BY <3>1, <3>6
  <2>4. final.tail = t
    <3>1. \A i \in 1 .. Len(final.tail) : final.tail[i] = t[i]
      BY <2>2, <2>3
    <3>2. QED
      BY <2>1, <2>3, <3>1, SeqEqual
  <2>5. getEventLogCalled => seen.tail <= mark.tail /\ (seen.tail < mark.tail => seen.inside)
    BY DEF GapInv
  <2>6. QED
    BY <2>2, <2>4, <2>5 DEF FinalIsTail
<1>2. Init => GapInv
  BY NoCallIs DEF Init, GapInv
<1>3. Spec => []GapInv
  BY <1>2, MeasureInvariance, GapStep, PTL DEF Spec
<1>4. QED
  BY <1>1, <1>3, MeasureInvariance, PTL
=============================================================================
