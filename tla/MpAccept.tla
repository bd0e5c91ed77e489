------------------------------- MODULE MpAccept -------------------------------
(***************************************************************************)
(* MpAcceptMemoryResourceRange: all CPUs of the TD accept a range of       *)
(* private memory together.  The mailbox protocol is that of TdxMailbox;   *)
(* this module adds what goes on inside it: the TDACCEPTPAGE calls of the  *)
(* BSP (BspAcceptMemoryResourceRange, TdAcceptPages) and of the APs        *)
(* (.ap_accept_page of SecEntry.nasm), one call of the TDX module a step,  *)
(* the errors, and the status the caller (ProcessHobList) gets.            *)
(*                                                                         *)
(* Left out: Tallies[] and mNumberOfDuplicatedAcceptedPages, which are     *)
(* only printed.                                                           *)
(***************************************************************************)
EXTENDS TdxMailbox, TdxPartition, Sequences

CONSTANTS
    Ranges,         \* the ranges [start, end] ProcessHobList asks for
    SeptStates,     \* how the VMM may have mapped the memory
    AssertsEnabled  \* DEBUG build: a failing ASSERT stops the BSP

(* The arguments of an AcceptPages command.                                *)
ArgsOf(r) ==
    LET p == Part2(r.start, r.end)
    IN  [start |-> p.start, end |-> p.end, chunk |-> ChunkSize, size |-> p.size]

RequestOf(r) ==
    IF Length2(r.start, r.end) > 0 THEN AcceptRequest(ArgsOf(r))
                                   ELSE SilentRequest

NonEmpty(p) == IF p.end > p.start THEN <<p>> ELSE <<>>

(* What the BSP accepts itself, in the order of lines 185-218.             *)
BspParts(r) ==
    NonEmpty(Part2(r.start, r.end)) \o NonEmpty(Part1(r.start, r.end))
        \o NonEmpty(Part3(r.start, r.end))

ASSUME RangesAssumption ==
    /\ Ranges \subseteq [start : Nat, end : Nat]
    /\ \A r \in Ranges : r.start <= r.end
    /\ \A r \in Ranges : IF Length2(r.start, r.end) > 0
                         THEN ArgsOf(r) \in AcceptArgs ELSE SilentCalls
    /\ AssertsEnabled \in BOOLEAN

VARIABLES
    sept,       \* the VMM's mapping: large 2MB regions, failing pages
    accepted,   \* the pages the TD has accepted
    range,      \* the range of the current (or last) call
    todo,       \* the parts of it the BSP has not finished
    cur,        \* the cursor of each CPU
    errors,     \* MailBox->Errors[]
    status,     \* Status of MpAcceptMemoryResourceRange
    mp          \* "out": the caller runs, "in": the call runs, "dead"

workVars == <<sept, accepted, range, todo, cur, errors, status, mp>>
mpvars == <<vars, workVars>>

CPU == 0 .. NumOfCpus - 1

NoCursor == [base |-> 0, addr |-> 0, left |-> 0, fallback |-> 0]

MpInit ==
    /\ Init
    /\ sept \in SeptStates
    /\ accepted = sept.pre
    /\ range = [start |-> 0, end |-> 0]
    /\ todo = <<>>
    /\ cur = [c \in CPU |-> NoCursor]
    /\ errors = [c \in CPU |-> 0]
    /\ status = "Success"
    /\ mp = "out"

-----------------------------------------------------------------------------
(* TDCALL[TDACCEPTPAGE], from the results the code tells apart: the page   *)
(* size has to be the one of the mapping; a page that is not pending makes *)
(* the call fail; a page may have been accepted before.                    *)
Block(addr, level) == addr .. addr + level - 1

TdAccept(addr, level) ==
    IF (level = Big) # (addr \div Big \in sept.large) THEN "SizeMismatch"
    ELSE IF Block(addr, level) \cap sept.bad # {} THEN "Error"
    ELSE IF Block(addr, level) \subseteq accepted THEN "AlreadyAccepted"
    ELSE "Success"

(* ERROR_ACCEPT_PAGE_ERROR and ERROR_INVALID_FALLBACK_PAGE_LEVEL, or 0.    *)
ErrorOf(result, level) ==
    IF result = "Error" THEN 2
    ELSE IF result = "SizeMismatch" /\ level = 1 THEN 3
    ELSE 0

(* One TDACCEPTPAGE of CPU c in the part [start, end, size].               *)
AcceptOne(c, part, chunk) ==
    LET level == Level(cur[c], part.size)
        result == TdAccept(cur[c].addr, level)
    IN  /\ accepted' = IF result = "Success"
                       THEN accepted \cup Block(cur[c].addr, level)
                       ELSE accepted
        /\ cur' = [cur EXCEPT ![c] =
                     IF result = "SizeMismatch" THEN FallBack(@)
                     ELSE Advance(@, part.size, part.end, chunk, NumOfCpus * chunk)]

FailsNow(c, size) ==
    LET level == Level(cur[c], size)
    IN  ErrorOf(TdAccept(cur[c].addr, level), level)

-----------------------------------------------------------------------------
(* The BSP.                                                                *)

FirstCursor(parts) ==
    IF parts = <<>> THEN NoCursor
    ELSE ChunkAt(parts[1].start, parts[1].end, ChunkSize)

(* ProcessHobList calls MpAcceptMemoryResourceRange, which computes the    *)
(* parts and calls MpSerializeStart.                                       *)
MpAcceptCall(r) ==
    /\ mp = "out"
    /\ MpSerializeStart(RequestOf(r))
    /\ mp' = "in"
    /\ range' = r
    /\ todo' = BspParts(r)
    /\ cur' = [cur EXCEPT ![0] = FirstCursor(BspParts(r))]
    /\ status' = "Success"
    /\ UNCHANGED <<sept, accepted, errors>>

(* TdxStartup: the last range was accepted, so the APs are sent to their   *)
(* relocated loop ...                                                      *)
StartupWakeup ==
    /\ mp = "out"
    /\ calls > 0
    /\ status = "Success"
    /\ MpSerializeStart(WakeupRequest)
    /\ UNCHANGED workVars

(* ... or it was not, and TdxStartup stops in CpuDeadLoop.                 *)
StartupFails ==
    /\ mp = "out"
    /\ bsp = "idle"
    /\ status # "Success"
    /\ mp' = "dead"
    /\ UNCHANGED <<vars, sept, accepted, range, todo, cur, errors, status>>

(* The steps of TdxMpLib do not touch the work.                            *)
BspProtocol ==
    /\ mp # "dead"
    /\ \/ MpSerializeStartArrived
       \/ MpSerializeStartRelease
       \/ MpSendWakeupCommandClear
       \/ MpSendWakeupCommandArgs
       \/ MpSendWakeupCommandSend
       \/ todo = <<>> /\ BspAcceptDone
       \/ MpSerializeEndExited
       \/ MpSerializeEndNoop
       \/ MpSerializeEndZero
       \/ MpSerializeEndRestart
    /\ UNCHANGED workVars

(* The part the BSP is in is finished, with the status of                  *)
(* BspAcceptMemoryResourceRange: Status is overwritten, and asserted.      *)
PartReturns(s) ==
    /\ status' = s
    /\ todo' = Tail(todo)
    /\ cur' = [cur EXCEPT ![0] = FirstCursor(Tail(todo))]
    /\ mp' = IF s # "Success" /\ AssertsEnabled THEN "dead" ELSE mp

(* BspAcceptMemoryResourceRange and TdAcceptPages, one page a step.        *)
BspAcceptOne ==
    /\ mp = "in"
    /\ bsp = "work"
    /\ todo # <<>>
    /\ cur[0].base < todo[1].end
    /\ FailsNow(0, todo[1].size) = 0
    /\ AcceptOne(0, todo[1], ChunkSize)
    /\ UNCHANGED <<vars, sept, range, todo, errors, status, mp>>

BspAcceptFails ==
    /\ mp = "in"
    /\ bsp = "work"
    /\ todo # <<>>
    /\ cur[0].base < todo[1].end
    /\ FailsNow(0, todo[1].size) # 0
    /\ PartReturns("InvalidParameter")
    /\ UNCHANGED <<vars, sept, accepted, range, errors>>

BspPartDone ==
    /\ mp = "in"
    /\ bsp = "work"
    /\ todo # <<>>
    /\ cur[0].base >= todo[1].end
    /\ PartReturns("Success")
    /\ UNCHANGED <<vars, sept, accepted, range, errors>>

\* Mutant: Errors[] is not looked at.
MpAcceptReturnBlind ==
    /\ mp = "in"
    /\ bsp = "idle"
    /\ mp' = "out"
    /\ UNCHANGED <<vars, sept, accepted, range, todo, cur, errors, status>>

(* Lines 236-244, after MpSerializeEnd has let the APs go back.            *)
MpAcceptReturn ==
    /\ mp = "in"
    /\ bsp = "idle"
    /\ mp' = "out"
    /\ status' = IF \E c \in CPU : errors[c] > 0 THEN "DeviceError" ELSE status
    /\ UNCHANGED <<vars, sept, accepted, range, todo, cur, errors>>

-----------------------------------------------------------------------------
(* An AP.                                                                  *)

\* Mutant: the APs are numbered from 0, as if the BSP took no chunk.
ApAcceptPageFromZero(a) ==
    /\ ApTakeAccept(a)
    /\ errors' = [errors EXCEPT ![a] = 0]
    /\ cur' = [cur EXCEPT ![a] =
                 ChunkAt(args.start + (a - 1) * args.chunk, args.end, args.chunk)]
    /\ UNCHANGED <<sept, accepted, range, todo, status, mp>>

(* .ap_accept_page up to .do_accept_next_range; the arguments are read     *)
(* together with the command (ArgsStableDuringAccept: they cannot change   *)
(* in between).                                                            *)
ApAcceptPage(a) ==
    /\ ApTakeAccept(a)
    /\ errors' = [errors EXCEPT ![a] = IF args.size \in {1, Big} THEN 0 ELSE 1]
    /\ cur' = [cur EXCEPT ![a] =
                 ChunkAt(args.start + a * args.chunk, args.end, args.chunk)]
    /\ UNCHANGED <<sept, accepted, range, todo, status, mp>>

(* .do_accept_loop up to the next .do_accept_loop or .do_accept_next_range *)
ApAcceptOne(a) ==
    /\ ap[a] = "accept"
    /\ errors[a] = 0
    /\ cur[a].base < args.end
    /\ FailsNow(a, args.size) = 0
    /\ AcceptOne(a, args, args.chunk)
    /\ UNCHANGED <<vars, sept, range, todo, errors, status, mp>>

ApAcceptFails(a) ==
    /\ ap[a] = "accept"
    /\ errors[a] = 0
    /\ cur[a].base < args.end
    /\ FailsNow(a, args.size) # 0
    /\ errors' = [errors EXCEPT ![a] = FailsNow(a, args.size)]
    /\ UNCHANGED <<vars, sept, accepted, range, todo, cur, status, mp>>

ApAcceptEnds(a) ==
    /\ ApAcceptDone(a)
    /\ errors[a] > 0 \/ cur[a].base >= args.end
    /\ UNCHANGED workVars

ApProtocol(a) ==
    /\ \/ ApArrive(a)
       \/ ApReleased(a)
       \/ ApTakeWakeup(a)
       \/ ApFinish(a)
       \/ ApRestart(a)
       \/ ApJump(a)
    /\ UNCHANGED workVars

-----------------------------------------------------------------------------
MpBspNext ==
    \/ BspProtocol
    \/ BspAcceptOne
    \/ BspAcceptFails
    \/ BspPartDone
    \/ MpAcceptReturn

MpApNext(a) ==
    \/ ApProtocol(a)
    \/ ApAcceptPage(a)
    \/ ApAcceptOne(a)
    \/ ApAcceptFails(a)
    \/ ApAcceptEnds(a)

(* Boot ends: with the APs handed over, or in a dead loop.                 *)
Booted == HandedOver /\ UNCHANGED workVars
Halted == mp = "dead" /\ UNCHANGED mpvars

MpNext ==
    \/ \E r \in Ranges : MpAcceptCall(r)
    \/ StartupWakeup
    \/ StartupFails
    \/ MpBspNext
    \/ \E a \in AP : MpApNext(a)
    \/ Booted
    \/ Halted

MpSpec == MpInit /\ [][MpNext]_mpvars

(* As in TdxMailbox: every CPU keeps running.                              *)
MpFairness ==
    /\ WF_mpvars(MpBspNext)
    /\ \A a \in AP : WF_mpvars(MpApNext(a))

MpFairSpec == MpSpec /\ MpFairness

-----------------------------------------------------------------------------
(* Properties.                                                             *)

PagesOf(r) == r.start .. r.end - 1

\* The types of the work's state, on top of TypeOK for the mailbox.
MpTypeOK ==
    /\ TypeOK
    /\ range \in [start : Nat, end : Nat]
    /\ cur \in [CPU -> Cursor]
    /\ errors \in [CPU -> 0 .. 3]
    /\ status \in {"Success", "InvalidParameter", "DeviceError"}
    /\ mp \in {"out", "in", "dead"}

\* When MpAcceptMemoryResourceRange returns EFI_SUCCESS every page of the
\* range has been accepted: the parts and the chunks of all CPUs cover it, a
\* fall back to 4KB pages covers its 2MB page, and no CPU's error is lost.
AcceptedOnSuccess ==
    mp = "out" /\ status = "Success" => PagesOf(range) \subseteq accepted

\* No page is in the remaining work of two CPUs: the stripes of part 2 do not
\* overlap (part 1 and part 3 are the BSP's alone).
OneOwner ==
    /\ \A a, b \in AP : a # b /\ ap[a] = "accept" /\ ap[b] = "accept" =>
          Remaining(cur[a], args.end, args.chunk, NumOfCpus)
            \cap Remaining(cur[b], args.end, args.chunk, NumOfCpus) = {}
    /\ \A a \in AP : ap[a] = "accept" /\ bsp = "work" /\ todo # <<>> =>
          Remaining(cur[a], args.end, args.chunk, NumOfCpus)
            \cap Remaining(cur[0], todo[1].end, ChunkSize, NumOfCpus) = {}

\* A page outside the range that was asked for is never accepted, by any CPU,
\* also when the last chunk is short or a 2MB page falls back.
NothingBeyondRange ==
    [][accepted' \ accepted \subseteq PagesOf(range) /\ accepted \subseteq accepted']_mpvars

\* Every call returns or, in a DEBUG build, ends in an ASSERT.
MpCallsReturn == mp = "in" ~> mp \in {"out", "dead"}
=============================================================================
