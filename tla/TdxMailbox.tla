------------------------------ MODULE TdxMailbox ------------------------------
(***************************************************************************)
(* The mailbox through which the boot processor (BSP) of a TD drives the   *)
(* application processors (APs) before DXE.                                *)
(*                                                                         *)
(* The BSP side is TdxMpLib (MpSerializeStart, MpSendWakeupCommand,        *)
(* MpSerializeEnd); the AP side is the parking loop of SecEntry.nasm.      *)
(* Both run concurrently on one page of shared memory, so every store and  *)
(* every load the other side can tell apart is a step of its own.  The     *)
(* machine is x86: stores become visible in program order (the code also   *)
(* executes CPUID around the store to Command), so memory is sequentially  *)
(* consistent here.                                                        *)
(*                                                                         *)
(* What an AP does for the command AcceptPages, and what the BSP does at   *)
(* the same time, are single steps here; module MpAccept replaces them     *)
(* by the page-by-page work.                                               *)
(***************************************************************************)
EXTENDS Integers, FiniteSets

CONSTANTS
    NumOfCpus,      \* NumVcpus of TDCALL[TDINFO]: the BSP (0) and the APs
    AcceptArgs,     \* the WakeUpArgs1..4 an AcceptPages command may carry
    NoArgs,         \* WakeUpArgs of a mailbox nobody has written to
    ApLoopFunc,     \* WakeUpVector of the Wakeup command: the relocated loop
    RelocatedMailBox, \* WakeUpArgs1 of the Wakeup command
    SilentCalls,    \* may a call send the APs nothing (Length2 = 0)?
    MaxCalls        \* bound on the calls of MpAcceptMemoryResourceRange

ASSUME CpusAssumption == NumOfCpus \in Nat \ {0}
ASSUME ArgsAssumption ==
    /\ NoArgs \notin AcceptArgs
    /\ RelocatedMailBox \notin AcceptArgs \cup {NoArgs}
    /\ ApLoopFunc \in Nat \ {0}
ASSUME CallsAssumption == SilentCalls \in BOOLEAN /\ MaxCalls \in Nat

AP == 1 .. NumOfCpus - 1

VARIABLES
    arriving,   \* NumCpusArriving
    exiting,    \* NumCpusExiting
    command,    \* Command
    apicId,     \* ApicId (the parked APs do not look at it)
    vector,     \* WakeUpVector
    args,       \* WakeUpArgs1..4
    bsp,        \* where the BSP is
    req,        \* what the BSP is in the middle of sending
    ap,         \* where each AP is
    calls,      \* calls of MpAcceptMemoryResourceRange so far
    entry       \* what each AP jumped with (RAX, RBX of .do_wakeup)

mailbox == <<arriving, exiting, command, apicId, vector, args>>
vars == <<arriving, exiting, command, apicId, vector, args,
          bsp, req, ap, calls, entry>>

Noop == "Noop"
Wakeup == "Wakeup"
AcceptPages == "AcceptPages"

\* A call that sends no command between MpSerializeStart and MpSerializeEnd.
NoCommand == "NoCommand"

(* The requests the BSP serves: an MpAcceptMemoryResourceRange with or      *)
(* without a part for the APs, and the final Wakeup of TdxStartup.          *)
AcceptRequest(a) == [command |-> AcceptPages, vector |-> 0, args |-> a]
SilentRequest == [command |-> NoCommand, vector |-> 0, args |-> NoArgs]
WakeupRequest ==
    [command |-> Wakeup, vector |-> ApLoopFunc, args |-> RelocatedMailBox]
Requests ==
    {AcceptRequest(a) : a \in AcceptArgs} \cup {WakeupRequest}
        \cup (IF SilentCalls THEN {SilentRequest} ELSE {})

NotJumped == [vector |-> 0, args |-> NoArgs]

BspPc == {"idle", "start", "release", "clear", "args", "send", "work",
          "end", "noop", "zero", "dec", "done"}
ApPc == {"park", "arrive", "command", "accept", "finish", "exit",
         "wakeup", "relocated"}

(* The mailbox page is zero, the APs have been parked by the reset vector  *)
(* and the BSP runs SEC.                                                   *)
Init ==
    /\ arriving = 0
    /\ exiting = 0
    /\ command = Noop
    /\ apicId = "Zero"
    /\ vector = 0
    /\ args = NoArgs
    /\ bsp = "idle"
    /\ req = SilentRequest
    /\ ap = [a \in AP |-> "park"]
    /\ calls = 0
    /\ entry = [a \in AP |-> NotJumped]

-----------------------------------------------------------------------------
(* The BSP.                                                                *)

BspGoto(from, to) == bsp = from /\ bsp' = to

(* MpAcceptMemoryResourceRange and TdxStartup call MpSerializeStart.       *)
MpSerializeStart(r) ==
    /\ BspGoto("idle", "start")
    /\ IF r.command = Wakeup THEN UNCHANGED calls
                             ELSE calls < MaxCalls /\ calls' = calls + 1
    /\ req' = r
    /\ UNCHANGED <<mailbox, ap, entry>>

\* Mutant: NumCpusExiting counts the APs only, not the BSP.
MpSerializeStartForgetsBsp ==
    /\ BspGoto("start", "release")
    /\ arriving = NumOfCpus - 1
    /\ exiting' = NumOfCpus - 1
    /\ UNCHANGED <<arriving, command, apicId, vector, args, req, ap, calls, entry>>

(* The loop on NumCpusArriving ends; NumCpusExiting is set.                *)
MpSerializeStartArrived ==
    /\ BspGoto("start", "release")
    /\ arriving = NumOfCpus - 1
    /\ exiting' = NumOfCpus
    /\ UNCHANGED <<arriving, command, apicId, vector, args, req, ap, calls, entry>>

\* Mutant: the BSP does not count itself as arrived.
MpSerializeStartNoRelease ==
    /\ BspGoto("release", IF req.command = NoCommand THEN "work" ELSE "clear")
    /\ UNCHANGED <<mailbox, req, ap, calls, entry>>

(* InterlockedIncrement of NumCpusArriving lets the APs go.                *)
MpSerializeStartRelease ==
    /\ BspGoto("release", IF req.command = NoCommand THEN "work" ELSE "clear")
    /\ arriving' = arriving + 1
    /\ UNCHANGED <<exiting, command, apicId, vector, args, req, ap, calls, entry>>

\* Mutant: the new command is stored before its arguments.
MpSendWakeupCommandTooSoon ==
    /\ BspGoto("clear", "args")
    /\ apicId' = "Invalid"
    /\ vector' = 0
    /\ command' = req.command
    /\ UNCHANGED <<arriving, exiting, args, req, ap, calls, entry>>

(* MpSendWakeupCommand: the old command is withdrawn, the arguments are    *)
(* written, and only then the command.                                     *)
MpSendWakeupCommandClear ==
    /\ BspGoto("clear", "args")
    /\ apicId' = "Invalid"
    /\ vector' = 0
    /\ command' = Noop
    /\ UNCHANGED <<arriving, exiting, args, req, ap, calls, entry>>

MpSendWakeupCommandArgs ==
    /\ BspGoto("args", "send")
    /\ apicId' = "Broadcast"
    /\ vector' = req.vector
    /\ args' = req.args
    /\ UNCHANGED <<arriving, exiting, command, req, ap, calls, entry>>

MpSendWakeupCommandSend ==
    /\ BspGoto("send", IF req.command = Wakeup THEN "done" ELSE "work")
    /\ command' = req.command
    /\ UNCHANGED <<arriving, exiting, apicId, vector, args, req, ap, calls, entry>>

(* BspAcceptMemoryResourceRange over the parts of the range.               *)
BspAcceptDone ==
    /\ BspGoto("work", "end")
    /\ UNCHANGED <<mailbox, req, ap, calls, entry>>

\* Mutant: the BSP leaves the loop while one AP is still at work.
MpSerializeEndOneLeft ==
    /\ BspGoto("end", "noop")
    /\ exiting <= 2
    /\ UNCHANGED <<mailbox, req, ap, calls, entry>>

(* MpSerializeEnd: the loop on NumCpusExiting ends, then three stores.     *)
MpSerializeEndExited ==
    /\ BspGoto("end", "noop")
    /\ exiting = 1
    /\ UNCHANGED <<mailbox, req, ap, calls, entry>>

\* Mutant: the command is left in the mailbox.
MpSerializeEndStaleCommand ==
    /\ BspGoto("noop", "zero")
    /\ UNCHANGED <<mailbox, req, ap, calls, entry>>

MpSerializeEndNoop ==
    /\ BspGoto("noop", "zero")
    /\ command' = Noop
    /\ UNCHANGED <<arriving, exiting, apicId, vector, args, req, ap, calls, entry>>

\* Mutant: NumCpusArriving is not reset.
MpSerializeEndNoReset ==
    /\ BspGoto("zero", "dec")
    /\ UNCHANGED <<mailbox, req, ap, calls, entry>>

MpSerializeEndZero ==
    /\ BspGoto("zero", "dec")
    /\ arriving' = 0
    /\ UNCHANGED <<exiting, command, apicId, vector, args, req, ap, calls, entry>>

MpSerializeEndRestart ==
    /\ BspGoto("dec", "idle")
    /\ exiting' = exiting - 1
    /\ UNCHANGED <<arriving, command, apicId, vector, args, req, ap, calls, entry>>

-----------------------------------------------------------------------------
(* An AP.                                                                  *)

ApGoto(a, from, to) == ap[a] = from /\ ap' = [ap EXCEPT ![a] = to]

(* .do_wait_loop: lock xadd of NumCpusArriving.                            *)
ApArrive(a) ==
    /\ ApGoto(a, "park", "arrive")
    /\ arriving' = arriving + 1
    /\ UNCHANGED <<exiting, command, apicId, vector, args, bsp, req, calls, entry>>

(* .check_arrival_cnt: spin until all CPUs, the BSP too, have arrived.     *)
ApReleased(a) ==
    /\ ApGoto(a, "arrive", "command")
    /\ arriving = NumOfCpus
    /\ UNCHANGED <<mailbox, bsp, req, calls, entry>>

(* .check_command spins on Noop and on commands it does not know.          *)
ApTakeAccept(a) ==
    /\ ApGoto(a, "command", "accept")
    /\ command = AcceptPages
    /\ UNCHANGED <<mailbox, bsp, req, calls, entry>>

ApTakeWakeup(a) ==
    /\ ApGoto(a, "command", "wakeup")
    /\ command = Wakeup
    /\ UNCHANGED <<mailbox, bsp, req, calls, entry>>

(* .ap_accept_page up to .do_finish_command.                               *)
ApAcceptDone(a) ==
    /\ ApGoto(a, "accept", "finish")
    /\ UNCHANGED <<mailbox, bsp, req, calls, entry>>

\* Mutant: the AP goes back to .check_command, not through the barrier.
ApFinishNoBarrier(a) ==
    /\ ApGoto(a, "finish", "command")
    /\ exiting' = exiting - 1
    /\ UNCHANGED <<arriving, command, apicId, vector, args, bsp, req, calls, entry>>

(* .do_finish_command: lock xadd of NumCpusExiting.                        *)
ApFinish(a) ==
    /\ ApGoto(a, "finish", "exit")
    /\ exiting' = exiting - 1
    /\ UNCHANGED <<arriving, command, apicId, vector, args, bsp, req, calls, entry>>

\* Mutant: the AP does not wait for the BSP to count itself out.
ApRestartTooSoon(a) ==
    /\ ApGoto(a, "exit", "park")
    /\ exiting <= 1
    /\ UNCHANGED <<mailbox, bsp, req, calls, entry>>

(* .check_exiting_cnt: spin until the BSP has counted itself out.          *)
ApRestart(a) ==
    /\ ApGoto(a, "exit", "park")
    /\ exiting = 0
    /\ UNCHANGED <<mailbox, bsp, req, calls, entry>>

(* .do_wakeup: load the vector and the relocated mailbox, and jump.        *)
ApJump(a) ==
    /\ ApGoto(a, "wakeup", "relocated")
    /\ entry' = [entry EXCEPT ![a] = [vector |-> vector, args |-> args]]
    /\ UNCHANGED <<mailbox, bsp, req, calls>>

-----------------------------------------------------------------------------
BspNext ==
    \/ MpSerializeStartArrived
    \/ MpSerializeStartRelease
    \/ MpSendWakeupCommandClear
    \/ MpSendWakeupCommandArgs
    \/ MpSendWakeupCommandSend
    \/ BspAcceptDone
    \/ MpSerializeEndExited
    \/ MpSerializeEndNoop
    \/ MpSerializeEndZero
    \/ MpSerializeEndRestart

ApNext(a) ==
    \/ ApArrive(a)
    \/ ApReleased(a)
    \/ ApTakeAccept(a)
    \/ ApTakeWakeup(a)
    \/ ApAcceptDone(a)
    \/ ApFinish(a)
    \/ ApRestart(a)
    \/ ApJump(a)

(* The use of the mailbox ends when every AP runs in its relocated loop.   *)
HandedOver ==
    /\ bsp = "done"
    /\ \A a \in AP : ap[a] = "relocated"
    /\ UNCHANGED vars

Next ==
    \/ \E r \in Requests : MpSerializeStart(r)
    \/ BspNext
    \/ \E a \in AP : ApNext(a)
    \/ HandedOver

Spec == Init /\ [][Next]_vars

(* Every virtual CPU keeps running: the loops are spin loops, no CPU ever  *)
(* sleeps, and the VMM schedules all of them.  Nothing forces a caller to  *)
(* start another call.                                                     *)
Fairness ==
    /\ WF_vars(BspNext)
    /\ \A a \in AP : WF_vars(ApNext(a))

FairSpec == Spec /\ Fairness

-----------------------------------------------------------------------------
(* Properties.                                                             *)

Arrived == {a \in AP : ap[a] = "arrive"}
Exited == {a \in AP : ap[a] = "exit"}
ApsIn(pcs) == \A a \in AP : ap[a] \in pcs

\* The values the fields of the mailbox and the program counters take; in
\* particular the lock xadd of .do_finish_command and the decrement in
\* MpSerializeEnd never take NumCpusExiting below zero, and NumCpusArriving
\* never exceeds the number of CPUs.
TypeOK ==
    /\ arriving \in 0 .. NumOfCpus
    /\ exiting \in 0 .. NumOfCpus
    /\ command \in {Noop, Wakeup, AcceptPages}
    /\ apicId \in {"Zero", "Invalid", "Broadcast"}
    /\ vector \in {0, ApLoopFunc}
    /\ args \in AcceptArgs \cup {NoArgs, RelocatedMailBox}
    /\ bsp \in BspPc
    /\ req \in Requests \cup {SilentRequest}
    /\ ap \in [AP -> ApPc]
    /\ calls \in 0 .. MaxCalls
    /\ entry \in [AP -> {NotJumped,
                          [vector |-> ApLoopFunc, args |-> RelocatedMailBox]}]

\* While an AP executes AcceptPages (it re-reads the arguments from the
\* mailbox all the time, SecEntry.nasm 178-357) the BSP is still inside the
\* call that sent the command, and neither the command nor an argument has
\* been touched since: no round starts while an AP is in the previous one.
ArgsStableDuringAccept ==
    \A a \in AP : ap[a] = "accept" =>
        /\ bsp \in {"work", "end"}
        /\ command = AcceptPages
        /\ command = req.command
        /\ vector = req.vector
        /\ args = req.args

\* An AP never leaves the parking loop with the vector or the mailbox
\* address of another command: it jumps to the relocated loop or stays.
JumpsToRelocatedLoop ==
    \A a \in AP : ap[a] = "relocated" =>
        entry[a] = [vector |-> ApLoopFunc, args |-> RelocatedMailBox]

\* The two counters are a reusable barrier: when the BSP restarts the APs,
\* and until it lets them go again, NumCpusArriving counts exactly the APs
\* that have come back to the barrier, so that the BSP can neither miss an
\* AP nor count one twice; and NumCpusExiting counts the CPUs that have not
\* yet finished the current command.
BarrierCounts ==
    /\ bsp \in {"idle", "start", "release"} => arriving = Cardinality(Arrived)
    /\ bsp \in {"clear", "args", "send", "work", "end", "noop"} =>
           exiting = NumOfCpus - Cardinality(Exited)

(* The inductive invariant: what the mailbox holds and where the APs can   *)
(* be, phase by phase of the BSP.                                          *)
BetweenCalls ==
    bsp \in {"idle", "start"} =>
        /\ command = Noop
        /\ exiting = 0
        /\ arriving = Cardinality(Arrived)
        /\ ApsIn({"exit", "park", "arrive"})

Releasing ==
    bsp = "release" =>
        /\ command = Noop
        /\ exiting = NumOfCpus
        /\ arriving = NumOfCpus - 1
        /\ ApsIn({"arrive"})

Sending ==
    bsp \in {"clear", "args", "send"} =>
        /\ command = Noop
        /\ exiting = NumOfCpus
        /\ arriving = NumOfCpus
        /\ req.command \in {AcceptPages, Wakeup}
        /\ ApsIn({"arrive", "command"})
        /\ bsp = "send" => vector = req.vector /\ args = req.args

Working ==
    bsp \in {"work", "end"} =>
        /\ arriving = NumOfCpus
        /\ exiting = NumOfCpus - Cardinality(Exited)
        /\ \/ /\ req.command = AcceptPages
              /\ command = AcceptPages
              /\ vector = req.vector
              /\ args = req.args
              /\ ApsIn({"arrive", "command", "accept", "finish", "exit"})
           \/ /\ req.command = NoCommand
              /\ command = Noop
              /\ ApsIn({"arrive", "command"})

Restarting ==
    bsp \in {"noop", "zero", "dec"} =>
        /\ exiting = 1
        /\ arriving = IF bsp = "dec" THEN 0 ELSE NumOfCpus
        /\ ApsIn({"exit"})
        /\ IF bsp = "noop"
           THEN command = Noop \/ (command = AcceptPages /\ args \in AcceptArgs)
           ELSE command = Noop

HandingOver ==
    bsp = "done" =>
        /\ command = Wakeup
        /\ arriving = NumOfCpus
        /\ vector = ApLoopFunc
        /\ args = RelocatedMailBox
        /\ ApsIn({"arrive", "command", "wakeup", "relocated"})

\* Where every CPU is and what the mailbox holds fit together in each phase
\* of a call; the other invariants follow from it.
PhaseInv ==
    /\ BetweenCalls
    /\ Releasing
    /\ Sending
    /\ Working
    /\ Restarting
    /\ HandingOver
    /\ JumpsToRelocatedLoop

\* Every call the BSP makes comes back (MpSerializeStart and MpSerializeEnd
\* do not spin for ever) ...
CallsReturn == bsp = "start" ~> bsp \in {"idle", "done"}

\* ... and after the Wakeup command every AP reaches its relocated loop,
\* although the BSP goes on without waiting for that.
ApsRelocate == bsp = "done" ~> \A a \in AP : ap[a] = "relocated"

-----------------------------------------------------------------------------
(* What the mailbox promises: a fork-join.  The job is there as long as    *)
(* Command is AcceptPages.                                                 *)
TheJob == IF command = AcceptPages THEN args ELSE NoArgs
ThePending ==
    IF command = AcceptPages
    THEN {a \in AP : ap[a] \in {"arrive", "command"}} ELSE {}
TheActive == {a \in AP : ap[a] = "accept"}

FJ == INSTANCE ForkJoin
        WITH Worker <- AP, Job <- AcceptArgs, NoJob <- NoArgs,
             job <- TheJob, pending <- ThePending, active <- TheActive

\* The mailbox protocol implements the fork-join: each AP takes each
\* AcceptPages command exactly once, works on the arguments the BSP sent,
\* and MpSerializeEnd returns only after the last AP has finished.
ImplementsForkJoin == FJ!Spec
=============================================================================
