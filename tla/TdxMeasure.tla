------------------------------ MODULE TdxMeasure ------------------------------
(***************************************************************************)
(* Measurement in a TD, from SEC to ExitBootServices.  A measurement is a  *)
(* digest that extends a runtime register (RTMR) through a buffer the TDX  *)
(* module reads, and an event in a log.  SEC logs in HOBs; TdTcg2Dxe sets  *)
(* up the event log, copies the HOBs into it, and measures for its         *)
(* handlers and for the callers of EFI_TD_PROTOCOL.  After GetEventLog an  *)
(* event also goes to the final events table.                              *)
(*                                                                         *)
(* The code runs in two contexts: "main", at TPL_APPLICATION or            *)
(* TPL_CALLBACK, and "notify", a notification that calls the protocol and  *)
(* runs to its end between two steps of main.  The log is written at       *)
(* TPL_HIGH_LEVEL, that is in one step.                                    *)
(*                                                                         *)
(* The n-th measurement is n, which also stands for its digest.  A failing *)
(* ASSERT is passed, as in a RELEASE build.  Left out: the bytes of an     *)
(* event, how an image or a variable is hashed, TdGetCapability.           *)
(***************************************************************************)
EXTENDS Integers, Sequences

CONSTANTS
    Laml,           \* the lengths the log area may have
    FinalLaml,      \* the lengths the final log area may have
    CallerMr,       \* the values of MrIndex that callers of the protocol pass
    MaxCalls,       \* a bound: measurements are 1 .. MaxCalls
    MaxServed,      \* a bound: calls of TdHashLogExtendEvent
    MaxFaults       \* a bound: failures of the memory, the TDX module or the hash library

Context == {"main", "notify"}
RTMR_COUNT == 4
Call == 1 .. MaxCalls

ASSUME MeasureAssumption ==
    /\ Laml \subseteq Nat \ {0} /\ FinalLaml \subseteq Nat
    /\ CallerMr \subseteq Nat
    /\ MaxCalls \in Nat /\ MaxCalls >= 4 /\ MaxServed \in Nat /\ MaxFaults \in Nat

VARIABLES
    phase,      \* "sec", "sync", "dxe", "exit": ExitBootServices runs, "os"
    rtmr,       \* the TD.RTMR.EXTEND calls: [mr, id], id the digest in the buffer
    buffer,     \* the digest in mExtendBuffer, 0 at first
    hobs,       \* the events SEC left in HOBs, not copied to the log yet
    log,        \* EventLogAreaStruct
    final,      \* FinalEventLogAreaStruct
    table,      \* FinalEventsTable is not NULL
    numberOfEvents,
    getEventLogCalled,
    bootAttempts,
    todo,       \* what the function each context is in measures
    call,       \* the measurement each context is at
    calls,      \* the number of measurements
    served,     \* the number of calls of TdHashLogExtendEvent
    faults,     \* the number of failures
    overlap,    \* history: calls that a notification's call came into, and that call
    unlogged,   \* history: calls whose event the log has no room for, is left out
                \* for another reason, or is not wanted (EXTEND_ONLY)
    seen,       \* history: the log when GetEventLog was first asked for it, and whether
                \* a notification measured while that call ran
    mark        \* history: head and tail of the log when GetEventLogCalled was set

regVars == <<rtmr, buffer>>
logVars == <<log, final, numberOfEvents>>
setupVars == <<table, getEventLogCalled, bootAttempts, seen, mark, served>>
callVars == <<call, calls, overlap>>
lossVars == <<hobs, faults, unlogged>>
vars == <<phase, regVars, logVars, setupVars, todo, callVars, lossVars>>

(* MapPcrToMrIndex, and GetMappedRtmrIndex of SEC.                         *)
MapPcrToMrIndex(pcr) ==
    IF pcr \in 2 .. 6 THEN 1 ELSE IF pcr \in 8 .. 15 THEN 2 ELSE 0

LongEvents == {"BootOrder", "BootVariable", "Variable", "PlatformId"}

(* A measurement to make; the events have two lengths.                     *)
Measure(kind, mr) ==
    [kind |-> kind, mr |-> mr, size |-> IF kind \in LongEvents THEN 2 ELSE 1,
     extendOnly |-> FALSE]

NoCall == [id |-> 0, step |-> "none", event |-> Measure("none", 0)]

(* An event log area: head events in front of Next800155EventOffset, the   *)
(* others behind it, EventLogSize, LastEvent.                              *)
NoArea == [head |-> 0, tail |-> <<>>, size |-> 0, last |-> 0, laml |-> 0,
           offset |-> 0, truncated |-> FALSE]

(* TdxStartup measures the VMM's HOB list and the configuration volume,    *)
(* and two settings if flags that nobody initialised are 0.                *)
Init ==
    /\ phase = "sec"
    /\ rtmr = <<>>
    /\ buffer = 0
    /\ hobs = <<>>
    /\ log = NoArea /\ final = NoArea
    /\ table = FALSE
    /\ numberOfEvents = 0
    /\ getEventLogCalled = FALSE
    /\ bootAttempts = 0
    /\ \E settings \in 0 .. 2 :
          todo = [c \in Context |-> IF c = "notify" THEN <<>>
                                    ELSE [i \in 1 .. 2 + settings |->
                                            Measure("Sec", MapPcrToMrIndex(1))]]
    /\ call = [c \in Context |-> NoCall]
    /\ calls = 0
    /\ served = 0
    /\ faults = 0
    /\ overlap = {}
    /\ unlogged = [full |-> {}, dropped |-> {}, unwanted |-> {}]
    /\ seen = [asked |-> FALSE, tail |-> 0, inside |-> FALSE]
    /\ mark = [head |-> 0, tail |-> 0]

-----------------------------------------------------------------------------
(* Mutant: the size is compared before the new event is added.             *)
NoRoomBefore(area, size) == area.size > area.laml

NoRoom(area, size) == size + area.size > area.laml

(* TcgCommLogEvent of an event that has room.  The 800-155 events go in    *)
(* front of the others, if the area has a place for them.                  *)
TcgCommLogEvent(area, kind, e, size) ==
    IF kind = "PlatformId"
    THEN IF area.offset = 0 THEN area
         ELSE [area EXCEPT !.head = @ + 1, !.offset = @ + size, !.last = @ + size,
                           !.size = @ + size]
    ELSE [area EXCEPT !.tail = Append(@, e), !.last = area.size, !.size = @ + size]

(* Mutant: EventLogTruncated is set, but not looked at.                    *)
FullNow(area, size) == NoRoom(area, size)

Full(area, size) == area.truncated \/ NoRoom(area, size)

Truncate(area) == [area EXCEPT !.truncated = TRUE]

(* Mutant: the final events table gets the event also when the log is full.*)
LogEventBoth(kind, e, size) ==
    LET toFinal == getEventLogCalled /\ table
        wanted == toFinal /\ ~Full(final, size)
    IN  /\ log' = IF Full(log, size) THEN Truncate(log) ELSE TcgCommLogEvent(log, kind, e, size)
        /\ final' = IF wanted THEN TcgCommLogEvent(final, kind, e, size)
                    ELSE IF toFinal THEN Truncate(final) ELSE final
        /\ numberOfEvents' = IF wanted THEN numberOfEvents + 1 ELSE numberOfEvents

(* TdxDxeLogEvent: when the log is full it returns EFI_VOLUME_FULL, and    *)
(* the final events table does not get the event either.                   *)
TdxDxeLogEvent(kind, e, size) ==
    LET toFinal == ~Full(log, size) /\ getEventLogCalled /\ table
        wanted == toFinal /\ ~Full(final, size)
    IN  /\ log' = IF Full(log, size) THEN Truncate(log) ELSE TcgCommLogEvent(log, kind, e, size)
        /\ final' = IF wanted THEN TcgCommLogEvent(final, kind, e, size)
                    ELSE IF toFinal THEN Truncate(final) ELSE final
        /\ numberOfEvents' = IF wanted THEN numberOfEvents + 1 ELSE numberOfEvents

(* It returns an error.                                                    *)
LogFails(size) ==
    Full(log, size) \/ (getEventLogCalled /\ table /\ Full(final, size))

-----------------------------------------------------------------------------
(* One measurement: HashAndExtend, then the log.                           *)

Fault == faults < MaxFaults /\ faults' = faults + 1

Runs(c) == c = "main" => call["notify"] = NoCall /\ todo["notify"] = <<>>

At(c, step) == Runs(c) /\ call[c].step = step

InFlight == {call[c].id : c \in Context} \ {0}

(* A context begins the next measurement it has to make: TdExtendRtmr      *)
(* copies the digest to mExtendBuffer.  EV_NO_ACTION extends nothing.      *)
Start(c) ==
    /\ Runs(c)
    /\ call[c] = NoCall
    /\ todo[c] # <<>>
    /\ LET event == Head(todo[c])
           id == calls + 1
       IN  IF event.kind \in {"NoAction", "PlatformId"}
           THEN /\ call' = [call EXCEPT ![c] = [id |-> 0, step |-> "log", event |-> event]]
                /\ UNCHANGED <<calls, buffer, overlap>>
           ELSE /\ call' = [call EXCEPT ![c] = [id |-> id, step |-> "extend", event |-> event]]
                /\ calls' = id
                /\ buffer' = id
                /\ overlap' = IF InFlight = {} THEN overlap ELSE overlap \cup InFlight \cup {id}
    /\ todo' = [todo EXCEPT ![c] = Tail(@)]
    /\ seen' = IF c = "notify" /\ call["main"].step = "get" /\ ~getEventLogCalled
               THEN [seen EXCEPT !.inside = TRUE] ELSE seen
    /\ UNCHANGED <<phase, rtmr, lossVars, logVars, table, getEventLogCalled, bootAttempts, mark,
                   served>>

(* What is left to measure without the boot variables.                     *)
SkipVariables(s) == IF s # <<>> /\ Head(s).kind = "BootVariable" THEN Tail(s) ELSE s

(* The measurement is over.  MeasureAllBootVariables gives up when         *)
(* BootOrder cannot be measured or logged.                                 *)
Finish(c, ok) ==
    /\ call' = [call EXCEPT ![c] = NoCall]
    /\ todo' = IF ok \/ call[c].event.kind # "BootOrder" THEN todo
               ELSE [todo EXCEPT ![c] = SkipVariables(@)]

(* Mutant: the event is logged although the digest was not extended.       *)
LogsAnyway(c) ==
    /\ At(c, "extend")
    /\ Fault
    /\ call' = [call EXCEPT ![c].step = "log"]
    /\ UNCHANGED <<phase, regVars, hobs, logVars, setupVars, todo, calls, overlap, unlogged>>

(* A digest extends no register: there are four, or the TDX module or the  *)
(* hash library fails.  Nothing is logged then.                            *)
ExtendFails(c) ==
    /\ At(c, "extend")
    /\ IF call[c].event.mr >= RTMR_COUNT THEN UNCHANGED faults ELSE Fault
    /\ Finish(c, FALSE)
    /\ UNCHANGED <<phase, regVars, hobs, logVars, setupVars, calls, overlap, unlogged>>

(* TD.RTMR.EXTEND with what is in mExtendBuffer.                           *)
TdExtendRtmr(c) ==
    LET mr == call[c].event.mr
        id == call[c].id
    IN  /\ At(c, "extend")
        /\ mr < RTMR_COUNT
        /\ rtmr' = Append(rtmr, [mr |-> mr, id |-> buffer])
        /\ IF call[c].event.extendOnly
           THEN Finish(c, TRUE) /\ unlogged' = [unlogged EXCEPT !.unwanted = @ \cup {id}]
           ELSE call' = [call EXCEPT ![c].step = "log"] /\ UNCHANGED <<todo, unlogged>>
        /\ UNCHANGED <<phase, buffer, hobs, logVars, setupVars, calls, faults, overlap>>

(* The event in the log, or in a HOB: its index is one more than RTMR's.   *)
Entry(c) == [mr |-> call[c].event.mr + 1, id |-> call[c].id, size |-> call[c].event.size]

(* TpmMeasureAndLogData of SEC: BuildGuidHob has memory or it has not.     *)
SecLog ==
    /\ phase = "sec"
    /\ At("main", "log")
    /\ \/ hobs' = Append(hobs, Entry("main")) /\ UNCHANGED <<faults, unlogged>>
       \/ /\ Fault
          /\ unlogged' = [unlogged EXCEPT !.dropped = @ \cup {call["main"].id}]
          /\ UNCHANGED hobs
    /\ Finish("main", TRUE)
    /\ UNCHANGED <<phase, regVars, logVars, setupVars, calls, overlap>>

(* TdxDxeLogHashEvent.                                                     *)
DxeLog(c) ==
    LET m == call[c].event
    IN  /\ phase # "sec"
        /\ At(c, "log")
        /\ IF m.extendOnly THEN UNCHANGED <<logVars, unlogged>> /\ Finish(c, TRUE)
           ELSE /\ TdxDxeLogEvent(m.kind, Entry(c), m.size)
                /\ unlogged' = IF Full(log, m.size)
                               THEN [unlogged EXCEPT !.full = @ \cup ({call[c].id} \ {0})]
                               ELSE unlogged
                /\ Finish(c, ~LogFails(m.size))
        /\ UNCHANGED <<phase, regVars, hobs, setupVars, calls, faults, overlap>>

-----------------------------------------------------------------------------
(* DriverEntry: SetupTdEventLog and SyncTdTcgEvent.                        *)

Idle(c) == Runs(c) /\ call[c] = NoCall /\ todo[c] = <<>>

Ids(s) == {s[i].id : i \in DOMAIN s}

(* The header event, then the 800-155 event of a HOB if there is one.      *)
HeaderLogged(laml, platformId) ==
    LET header == [NoArea EXCEPT !.head = 1, !.size = 1, !.offset = 1, !.laml = laml]
    IN  IF ~platformId THEN header
        ELSE IF Full(header, 2) THEN Truncate(header)
        ELSE TcgCommLogEvent(header, "PlatformId", [mr |-> 0, id |-> 0, size |-> 2], 2)

(* If an area cannot be allocated, or the table cannot be installed, the   *)
(* events of SEC are never copied, and the driver goes on.                 *)
SetupTdEventLog ==
    /\ phase = "sec"
    /\ Idle("main")
    /\ \/ /\ UNCHANGED <<log, final, table>>
          /\ phase' = "dxe"
       \/ /\ \E laml \in Laml, platformId \in BOOLEAN : log' = HeaderLogged(laml, platformId)
          /\ \/ phase' = "dxe" /\ UNCHANGED <<final, table>>
             \/ /\ \E laml \in FinalLaml : final' = [NoArea EXCEPT !.laml = laml]
                /\ table' = TRUE
                /\ phase' \in {"sync", "dxe"}
    /\ IF phase' = "sync" THEN UNCHANGED lossVars
       ELSE /\ Fault
            /\ hobs' = <<>>
            /\ unlogged' = [unlogged EXCEPT !.dropped = @ \cup Ids(hobs)]
    /\ UNCHANGED <<regVars, numberOfEvents, getEventLogCalled, bootAttempts, seen, mark, served,
                   todo, callVars>>

(* One event of SEC; the copy stops at the first that does not fit.        *)
SyncTdTcgEvent ==
    /\ phase = "sync"
    /\ hobs # <<>>
    /\ TdxDxeLogEvent("Sec", Head(hobs), 1)
    /\ IF LogFails(1) THEN hobs' = <<>> /\ unlogged' = [unlogged EXCEPT !.full = @ \cup Ids(hobs)]
                      ELSE hobs' = Tail(hobs) /\ UNCHANGED unlogged
    /\ UNCHANGED <<phase, regVars, setupVars, todo, callVars, faults>>

(* AllocateCopyPool fails, and the rest is not copied.                     *)
SyncFails ==
    /\ phase = "sync"
    /\ hobs # <<>>
    /\ Fault
    /\ hobs' = <<>>
    /\ unlogged' = [unlogged EXCEPT !.dropped = @ \cup Ids(hobs)]
    /\ UNCHANGED <<phase, regVars, logVars, setupVars, todo, callVars>>

InstallEfiTdProtocol ==
    /\ phase = "sync"
    /\ hobs = <<>>
    /\ phase' = "dxe"
    /\ UNCHANGED <<regVars, lossVars, logVars, setupVars, todo, callVars>>

-----------------------------------------------------------------------------
(* Who measures in DXE.  Room keeps the number of measurements in bounds.  *)

Room(s) == calls + Len(todo["main"]) + Len(s) <= MaxCalls

Measures(c, s) == Idle(c) /\ Room(s) /\ todo' = [todo EXCEPT ![c] = s]

Optional(s) == {<<>>, s}

Separator(mr) == <<Measure("Separator", mr)>>
Action(pcr) == <<Measure("Action", MapPcrToMrIndex(pcr))>>

(* TdHashLogExtendEvent, called by a driver or by its notification.  An    *)
(* image (PE_COFF_IMAGE) is extended whatever the type of its event, as    *)
(* "Event" is.                                                             *)
TdHashLogExtendEvent(c, kind, mr, extendOnly) ==
    /\ phase = "dxe"
    /\ mr <= 4
    /\ served < MaxServed
    /\ served' = served + 1
    /\ Measures(c, <<[Measure(kind, mr) EXCEPT !.extendOnly = extendOnly]>>)
    /\ UNCHANGED <<phase, regVars, lossVars, logVars, table, getEventLogCalled, bootAttempts,
                   seen, mark, callVars>>

(* TdGetEventLog tells where the log and its last event are, and dumps it  *)
(* for debugging.                                                          *)
TdGetEventLog(c) ==
    /\ phase = "dxe"
    /\ Idle(c)
    /\ call' = [call EXCEPT ![c].step = "get"]
    /\ seen' = IF seen.asked THEN seen
               ELSE [asked |-> TRUE, tail |-> Len(log.tail), inside |-> FALSE]
    /\ UNCHANGED <<phase, regVars, lossVars, logVars, table, getEventLogCalled, bootAttempts, mark,
                   served, todo, calls, overlap>>

(* Only then does it set GetEventLogCalled.                                *)
GetEventLogReturns(c) ==
    /\ At(c, "get")
    /\ call' = [call EXCEPT ![c] = NoCall]
    /\ getEventLogCalled' = TRUE
    /\ mark' = IF getEventLogCalled THEN mark
               ELSE [head |-> log.head, tail |-> Len(log.tail)]
    /\ UNCHANGED <<phase, regVars, lossVars, logVars, table, bootAttempts, seen, served, todo,
                   calls, overlap>>

(* The secure boot variables, one for all, and the separator of PCR 7.     *)
MeasureSecureBootPolicy ==
    /\ phase = "dxe"
    /\ \E debugger \in Optional(Action(7)) :
          Measures("main", debugger \o <<Measure("Variable", MapPcrToMrIndex(7))>>
                                    \o Separator(MapPcrToMrIndex(7)))
    /\ UNCHANGED <<phase, regVars, lossVars, logVars, setupVars, callVars>>

InstallAcpiTable ==
    /\ phase = "dxe"
    /\ Measures("main", <<Measure("PostCode", MapPcrToMrIndex(1))>>)
    /\ UNCHANGED <<phase, regVars, lossVars, logVars, setupVars, callVars>>

(* The processor locations are measured on a server only; BootOrder may    *)
(* not exist.                                                              *)
OnReadyToBoot ==
    /\ phase = "dxe"
    /\ IF bootAttempts = 0
       THEN \E handoff \in Optional(<<Measure("Devices", MapPcrToMrIndex(1))>>),
               boot \in Optional(<<Measure("BootOrder", MapPcrToMrIndex(5)),
                                   Measure("BootVariable", MapPcrToMrIndex(5))>>) :
                Measures("main", handoff \o boot \o Action(4) \o Separator(1))
       ELSE Measures("main", Action(4) \o Action(4))
    /\ bootAttempts' = bootAttempts + 1
    /\ UNCHANGED <<phase, regVars, lossVars, logVars, table, getEventLogCalled, seen, mark,
                   served, callVars>>

OnExitBootServices ==
    /\ phase = "dxe"
    /\ Measures("main", Action(5) \o Action(5))
    /\ phase' = "exit"
    /\ UNCHANGED <<regVars, lossVars, logVars, setupVars, callVars>>

(* CoreExitBootServices found that the memory map had changed; it signals  *)
(* this event instead of ExitBootServices, and the caller tries again.     *)
OnExitBootServicesFailed ==
    /\ phase = "dxe"
    /\ Measures("main", Action(5))
    /\ UNCHANGED <<phase, regVars, lossVars, logVars, setupVars, callVars>>

ExitReturns ==
    /\ phase = "exit"
    /\ Idle("main")
    /\ phase' = "os"
    /\ UNCHANGED <<regVars, lossVars, logVars, setupVars, todo, callVars>>

CallerKinds == {"Event", "NoAction", "PlatformId"}

Step(c) ==
    \/ Start(c)
    \/ ExtendFails(c)
    \/ TdExtendRtmr(c)
    \/ DxeLog(c)
    \/ TdGetEventLog(c)
    \/ GetEventLogReturns(c)
    \/ \E kind \in CallerKinds, mr \in CallerMr, extendOnly \in BOOLEAN :
          TdHashLogExtendEvent(c, kind, mr, extendOnly)

Next ==
    \/ \E c \in Context : Step(c)
    \/ SecLog
    \/ SetupTdEventLog
    \/ SyncTdTcgEvent
    \/ SyncFails
    \/ InstallEfiTdProtocol
    \/ MeasureSecureBootPolicy
    \/ InstallAcpiTable
    \/ OnReadyToBoot
    \/ OnExitBootServices
    \/ OnExitBootServicesFailed
    \/ ExitReturns

Spec == Init /\ [][Next]_vars

-----------------------------------------------------------------------------
(* Properties.                                                             *)

EntryType == [mr : 0 .. RTMR_COUNT + 1, id : Call \cup {0}, size : 1 .. 2]

AreaType == [head : Nat, tail : Seq(EntryType), size : Nat, last : Nat, laml : Nat,
             offset : Nat, truncated : BOOLEAN]

TypeOK ==
    /\ phase \in {"sec", "sync", "dxe", "exit", "os"}
    /\ rtmr \in Seq([mr : 0 .. RTMR_COUNT - 1, id : Call])
    /\ buffer \in Call \cup {0}
    /\ hobs \in Seq(EntryType)
    /\ log \in AreaType /\ final \in AreaType
    /\ log.size <= log.laml /\ final.size <= final.laml
    /\ table \in BOOLEAN /\ getEventLogCalled \in BOOLEAN
    /\ calls \in Nat /\ overlap \subseteq Call

(* The positions of the digests that no other call can have disturbed.     *)
Clean(s) == {i \in DOMAIN s : s[i].id \notin overlap \cup {0}}

(* Every digest that extended a register is in the log, under the index of *)
(* the register, or in a HOB, or on its way there, or the log is marked    *)
(* truncated, or SEC or the driver's set-up ran out of memory; and the log *)
(* has no other digest.  Calls that overlapped are not covered: a          *)
(* notification can change mExtendBuffer under TdExtendRtmr.               *)
LogAccounts ==
    LET Extended == {rtmr[i] : i \in DOMAIN rtmr}
        Logged == {[mr |-> e.mr - 1, id |-> e.id] :
                     e \in {log.tail[i] : i \in DOMAIN log.tail} \cup {hobs[i] : i \in DOMAIN hobs}}
        Missing == unlogged.full \cup unlogged.dropped \cup unlogged.unwanted \cup InFlight
    IN  /\ \A x \in Extended \ Logged : x.id \in Missing \cup overlap
        /\ \A x \in Logged \ Extended : x.id \in overlap \cup {0}
        /\ unlogged.full # {} => log.truncated

(* The log can be replayed: its digests are in the order in which they     *)
(* extended the registers, each once, and what it has no room for comes    *)
(* after all that it has.  LastEvent is where the last of them begins,     *)
(* whatever was inserted in front of it; of a log that has nothing but the *)
(* header and 800-155 events this is not said.  Calls that overlapped are  *)
(* left out, as in LogAccounts.                                            *)
LogOrder ==
    /\ \A i, j \in Clean(log.tail) : i < j => log.tail[i].id < log.tail[j].id
    /\ \A i, j \in Clean(rtmr) : i < j => rtmr[i].id < rtmr[j].id
    /\ \A i \in Clean(log.tail) : \A n \in unlogged.full \ overlap : log.tail[i].id < n
    /\ log.tail # <<>> => log.last + log.tail[Len(log.tail)].size = log.size

(* The final events table has the events the log got since                 *)
(* GetEventLogCalled was set, up to the first that did not fit;            *)
(* NumberOfEvents counts them, and the 800-155 events too, which are not   *)
(* in it.  An event that is neither there nor in what GetEventLog gave its *)
(* caller was measured by a notification while that call ran.              *)
FinalIsTail ==
    LET n == Len(final.tail)
    IN  /\ final.tail = SubSeq(log.tail, mark.tail + 1, mark.tail + n)
        /\ ~final.truncated /\ getEventLogCalled /\ table => mark.tail + n = Len(log.tail)
        /\ log.head = mark.head => numberOfEvents = n
        /\ getEventLogCalled =>
              seen.tail <= mark.tail /\ (seen.tail < mark.tail => seen.inside)

(* "All events generated after the invocation of EFI_TCG2_GET_EVENT_LOG    *)
(* SHALL be stored in" the final events table (TdTcg2Dxe.c:781): the table *)
(* has every event the log got since the first caller of GetEventLog was   *)
(* given the log, as long as none failed to fit.                           *)
EventsAfterGetEventLog ==
    getEventLogCalled /\ table /\ ~final.truncated =>
        final.tail = SubSeq(log.tail, seen.tail + 1, Len(log.tail))
=============================================================================
