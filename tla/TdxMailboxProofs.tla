--------------------------- MODULE TdxMailboxProofs ---------------------------
(***************************************************************************)
(* The safety of the mailbox protocol for any number of CPUs, any          *)
(* arguments and any number of calls, also of calls that send no command.  *)
(***************************************************************************)
EXTENDS TdxMailbox, FiniteSetTheorems, TLAPS

(* The APs of a machine are one less than its CPUs, and counting a set of  *)
(* them tells whether it is all of them.                                   *)
LEMMA ApCount ==
    /\ IsFiniteSet(AP)
    /\ Cardinality(AP) = NumOfCpus - 1
<1>1. 1 \in Int /\ NumOfCpus - 1 \in Int
  BY CpusAssumption
<1>2. QED
  BY <1>1, CpusAssumption, FS_Interval DEF AP

LEMMA ApSubset ==
    ASSUME NEW S \in SUBSET AP
    PROVE  /\ IsFiniteSet(S)
           /\ Cardinality(S) \in 0 .. NumOfCpus - 1
           /\ Cardinality(S) = NumOfCpus - 1 => S = AP
<1>1. IsFiniteSet(S) /\ Cardinality(S) <= Cardinality(AP)
      /\ (Cardinality(S) = Cardinality(AP) => S = AP)
  BY ApCount, FS_Subset
<1>2. Cardinality(S) \in Nat
  BY <1>1, FS_CardinalityType
<1>3. QED
  BY <1>1, <1>2, ApCount, CpusAssumption

LEMMA ApOneMore ==
    ASSUME NEW S \in SUBSET AP, NEW a \in AP, a \notin S
    PROVE  Cardinality(S \cup {a}) = Cardinality(S) + 1
BY ApSubset, FS_AddElement

LEMMA ApNone == Cardinality({}) = 0
BY FS_EmptySet

(* What a request looks like.                                              *)
LEMMA RequestFields ==
    ASSUME NEW r \in Requests \cup {SilentRequest}
    PROVE  /\ r.command \in {AcceptPages, Wakeup, NoCommand}
           /\ r.vector \in {0, ApLoopFunc}
           /\ r.args \in AcceptArgs \cup {NoArgs, RelocatedMailBox}
           /\ r.command = Wakeup => r.vector = ApLoopFunc /\ r.args = RelocatedMailBox
           /\ r.command = AcceptPages => r.vector = 0 /\ r.args \in AcceptArgs
BY DEF Requests, SilentRequest, WakeupRequest, AcceptRequest,
       AcceptPages, Wakeup, NoCommand

-----------------------------------------------------------------------------
Inv == TypeOK /\ PhaseInv

LEMMA InitInv == Init => Inv
<1> SUFFICES ASSUME Init PROVE Inv
  OBVIOUS
<1>1. TypeOK
  BY CpusAssumption, CallsAssumption
     DEF Init, TypeOK, BspPc, ApPc, NotJumped, Noop
<1>2. Arrived = {}
  BY DEF Init, Arrived
<1>3. PhaseInv
  BY <1>2, ApNone DEF Init, PhaseInv, BetweenCalls, Releasing, Sending,
     Working, Restarting, HandingOver, JumpsToRelocatedLoop, ApsIn
<1>4. QED
  BY <1>1, <1>3 DEF Inv

(* A step of the BSP moves no AP, so the two counted sets stay the same.   *)
LEMMA SameAps ==
    ASSUME UNCHANGED ap
    PROVE  Arrived' = Arrived /\ Exited' = Exited
BY DEF Arrived, Exited

LEMMA BspInv ==
    ASSUME Inv, BspNext
    PROVE  Inv'
<1> USE CpusAssumption, CallsAssumption DEF Inv, BspGoto, mailbox
<1>r. req \in Requests \cup {SilentRequest}
  BY DEF TypeOK
<1>f. /\ Cardinality(Arrived) = NumOfCpus - 1 => Arrived = AP
      /\ Cardinality(Exited) = NumOfCpus - 1 => Exited = AP
      /\ Cardinality(Arrived) \in 0 .. NumOfCpus - 1
      /\ Cardinality(Exited) \in 0 .. NumOfCpus - 1
  BY ApSubset DEF Arrived, Exited
<1>s. UNCHANGED ap => Arrived' = Arrived /\ Exited' = Exited
  BY SameAps
<1>1. CASE MpSerializeStartArrived
  <2>1. TypeOK'
    BY <1>1, <1>r, RequestFields DEF MpSerializeStartArrived, TypeOK, BspPc, PhaseInv,
       Releasing, BetweenCalls, Restarting, Noop, AcceptPages, Wakeup, NoCommand
  <2>2. PhaseInv'
    BY <1>1, <1>r, <1>f, <1>s, RequestFields
       DEF MpSerializeStartArrived, TypeOK, Arrived, Exited, Noop, AcceptPages, Wakeup, NoCommand,
            PhaseInv, BetweenCalls, Releasing, Sending,
            Working, Restarting, HandingOver, JumpsToRelocatedLoop, ApsIn
  <2>3. QED
    BY <2>1, <2>2
<1>2. CASE MpSerializeStartRelease
  <2>1. TypeOK'
    BY <1>2, <1>r, RequestFields DEF MpSerializeStartRelease, TypeOK, BspPc, PhaseInv,
       Releasing, BetweenCalls, Restarting, Noop, AcceptPages, Wakeup, NoCommand
  <2>e. Cardinality(Exited) = 0
    <3>1. Exited = {}
      BY <1>2 DEF MpSerializeStartRelease, PhaseInv, Releasing, ApsIn, Exited
    <3>2. QED
      BY <3>1, ApNone
  <2>2. PhaseInv'
    BY <1>2, <1>r, <1>f, <1>s, <2>e, RequestFields
       DEF MpSerializeStartRelease, TypeOK, Noop, AcceptPages, Wakeup, NoCommand,
            PhaseInv, BetweenCalls, Releasing, Sending,
            Working, Restarting, HandingOver, JumpsToRelocatedLoop, ApsIn
  <2>3. QED
    BY <2>1, <2>2
<1>3. CASE MpSendWakeupCommandClear
  <2>1. TypeOK'
    BY <1>3, <1>r, RequestFields DEF MpSendWakeupCommandClear, TypeOK, BspPc, PhaseInv,
       Releasing, BetweenCalls, Restarting, Noop, AcceptPages, Wakeup, NoCommand
  <2>2. PhaseInv'
    BY <1>3, <1>r, <1>f, <1>s, RequestFields
       DEF MpSendWakeupCommandClear, TypeOK, Arrived, Exited, Noop, AcceptPages, Wakeup, NoCommand,
            PhaseInv, BetweenCalls, Releasing, Sending,
            Working, Restarting, HandingOver, JumpsToRelocatedLoop, ApsIn
  <2>3. QED
    BY <2>1, <2>2
<1>4. CASE MpSendWakeupCommandArgs
  <2>1. TypeOK'
    BY <1>4, <1>r, RequestFields DEF MpSendWakeupCommandArgs, TypeOK, BspPc, PhaseInv,
       Releasing, BetweenCalls, Restarting, Noop, AcceptPages, Wakeup, NoCommand
  <2>2. PhaseInv'
    BY <1>4, <1>r, <1>f, <1>s, RequestFields
       DEF MpSendWakeupCommandArgs, TypeOK, Arrived, Exited, Noop, AcceptPages, Wakeup, NoCommand,
            PhaseInv, BetweenCalls, Releasing, Sending,
            Working, Restarting, HandingOver, JumpsToRelocatedLoop, ApsIn
  <2>3. QED
    BY <2>1, <2>2
<1>5. CASE MpSendWakeupCommandSend
  <2>1. TypeOK'
    BY <1>5, <1>r, RequestFields DEF MpSendWakeupCommandSend, TypeOK, BspPc, PhaseInv,
       Sending, Releasing, BetweenCalls, Restarting, Noop, AcceptPages, Wakeup, NoCommand
  <2>e. Cardinality(Exited) = 0
    <3>1. Exited = {}
      BY <1>5 DEF MpSendWakeupCommandSend, PhaseInv, Sending, ApsIn, Exited
    <3>2. QED
      BY <3>1, ApNone
  <2>2. PhaseInv'
    BY <1>5, <1>r, <1>f, <1>s, <2>e, RequestFields
       DEF MpSendWakeupCommandSend, TypeOK, Noop, AcceptPages, Wakeup, NoCommand,
            PhaseInv, BetweenCalls, Releasing, Sending,
            Working, Restarting, HandingOver, JumpsToRelocatedLoop, ApsIn
  <2>3. QED
    BY <2>1, <2>2
<1>6. CASE BspAcceptDone
  <2>1. TypeOK'
    BY <1>6, <1>r, RequestFields DEF BspAcceptDone, TypeOK, BspPc, PhaseInv,
       Releasing, BetweenCalls, Restarting, Noop, AcceptPages, Wakeup, NoCommand
  <2>2. PhaseInv'
    BY <1>6, <1>r, <1>f, <1>s, RequestFields
       DEF BspAcceptDone, TypeOK, Arrived, Exited, Noop, AcceptPages, Wakeup, NoCommand,
            PhaseInv, BetweenCalls, Releasing, Sending,
            Working, Restarting, HandingOver, JumpsToRelocatedLoop, ApsIn
  <2>3. QED
    BY <2>1, <2>2
<1>7. CASE MpSerializeEndExited
  <2>1. TypeOK'
    BY <1>7, <1>r, RequestFields DEF MpSerializeEndExited, TypeOK, BspPc, PhaseInv,
       Releasing, BetweenCalls, Restarting, Noop, AcceptPages, Wakeup, NoCommand
  <2>2. PhaseInv'
    BY <1>7, <1>r, <1>f, <1>s, RequestFields
       DEF MpSerializeEndExited, TypeOK, Arrived, Exited, Noop, AcceptPages, Wakeup, NoCommand,
            PhaseInv, BetweenCalls, Releasing, Sending,
            Working, Restarting, HandingOver, JumpsToRelocatedLoop, ApsIn
  <2>3. QED
    BY <2>1, <2>2
<1>8. CASE MpSerializeEndNoop
  <2>1. TypeOK'
    BY <1>8, <1>r, RequestFields DEF MpSerializeEndNoop, TypeOK, BspPc, PhaseInv,
       Releasing, BetweenCalls, Restarting, Noop, AcceptPages, Wakeup, NoCommand
  <2>2. PhaseInv'
    BY <1>8, <1>r, <1>f, <1>s, RequestFields
       DEF MpSerializeEndNoop, TypeOK, Arrived, Exited, Noop, AcceptPages, Wakeup, NoCommand,
            PhaseInv, BetweenCalls, Releasing, Sending,
            Working, Restarting, HandingOver, JumpsToRelocatedLoop, ApsIn
  <2>3. QED
    BY <2>1, <2>2
<1>9. CASE MpSerializeEndZero
  <2>1. TypeOK'
    BY <1>9, <1>r, RequestFields DEF MpSerializeEndZero, TypeOK, BspPc, PhaseInv,
       Releasing, BetweenCalls, Restarting, Noop, AcceptPages, Wakeup, NoCommand
  <2>2. PhaseInv'
    BY <1>9, <1>r, <1>f, <1>s, RequestFields
       DEF MpSerializeEndZero, TypeOK, Arrived, Exited, Noop, AcceptPages, Wakeup, NoCommand,
            PhaseInv, BetweenCalls, Releasing, Sending,
            Working, Restarting, HandingOver, JumpsToRelocatedLoop, ApsIn
  <2>3. QED
    BY <2>1, <2>2
<1>10. CASE MpSerializeEndRestart
  <2>1. TypeOK'
    BY <1>10, <1>r, RequestFields DEF MpSerializeEndRestart, TypeOK, BspPc, PhaseInv,
       Releasing, BetweenCalls, Restarting, Noop, AcceptPages, Wakeup, NoCommand
  <2>e. Cardinality(Arrived) = 0
    <3>1. Arrived = {}
      BY <1>10 DEF MpSerializeEndRestart, PhaseInv, Restarting, ApsIn, Arrived
    <3>2. QED
      BY <3>1, ApNone
  <2>2. PhaseInv'
    BY <1>10, <1>r, <1>f, <1>s, <2>e, RequestFields
       DEF MpSerializeEndRestart, TypeOK, Noop, AcceptPages, Wakeup, NoCommand,
            PhaseInv, BetweenCalls, Releasing, Sending,
            Working, Restarting, HandingOver, JumpsToRelocatedLoop, ApsIn
  <2>3. QED
    BY <2>1, <2>2
<1>11. QED
  BY <1>1, <1>2, <1>3, <1>4, <1>5, <1>6, <1>7, <1>8, <1>9, <1>10 DEF BspNext

LEMMA ApInv ==
    ASSUME Inv, NEW a \in AP, ApNext(a)
    PROVE  Inv'
<1> USE CpusAssumption, CallsAssumption DEF Inv, ApGoto, mailbox
<1>t. ap \in [AP -> ApPc] /\ Arrived \in SUBSET AP /\ Exited \in SUBSET AP
  BY DEF TypeOK, Arrived, Exited
<1>r. req \in Requests \cup {SilentRequest}
  BY DEF TypeOK
<1>f. /\ Cardinality(Arrived) \in 0 .. NumOfCpus - 1
      /\ Cardinality(Exited) \in 0 .. NumOfCpus - 1
  BY <1>t, ApSubset
<1>g. /\ a \notin Arrived => Cardinality(Arrived \cup {a}) = Cardinality(Arrived) + 1
      /\ a \notin Exited => Cardinality(Exited \cup {a}) = Cardinality(Exited) + 1
  BY <1>t, ApOneMore
<1>h. /\ a \notin Arrived => Cardinality(Arrived) < NumOfCpus - 1
      /\ a \notin Exited => Cardinality(Exited) < NumOfCpus - 1
  BY <1>t, <1>f, ApSubset
<1>1. CASE ApArrive(a)
  <2>1. Arrived' = Arrived \cup {a} /\ a \notin Arrived /\ Exited' = Exited
    BY <1>1, <1>t DEF ApArrive, Arrived, Exited
  <2>2. TypeOK'
    BY <1>1, <1>t, <1>f, <1>h, <2>1
       DEF ApArrive, TypeOK, ApPc, BspPc, PhaseInv, BetweenCalls, Releasing, Sending,
           Working, Restarting, HandingOver, ApsIn, Noop, AcceptPages, Wakeup
  <2>3. PhaseInv'
    BY <1>1, <1>t, <1>r, <1>f, <1>g, <1>h, <2>1, RequestFields
       DEF ApArrive, TypeOK, BspPc, Noop, AcceptPages, Wakeup, NoCommand,
           PhaseInv, BetweenCalls, Releasing, Sending,
            Working, Restarting, HandingOver, JumpsToRelocatedLoop, ApsIn
  <2>4. QED
    BY <2>2, <2>3
<1>2. CASE ApReleased(a)
  <2>1. Exited' = Exited
    BY <1>2, <1>t DEF ApReleased, Arrived, Exited
  <2>2. TypeOK'
    BY <1>2, <1>t, <1>f, <1>h, <2>1
       DEF ApReleased, TypeOK, ApPc, BspPc, PhaseInv, BetweenCalls, Releasing, Sending,
           Working, Restarting, HandingOver, ApsIn, Noop, AcceptPages, Wakeup
  <2>3. PhaseInv'
    BY <1>2, <1>t, <1>r, <1>f, <1>g, <1>h, <2>1, RequestFields
       DEF ApReleased, TypeOK, BspPc, Noop, AcceptPages, Wakeup, NoCommand,
           PhaseInv, BetweenCalls, Releasing, Sending,
            Working, Restarting, HandingOver, JumpsToRelocatedLoop, ApsIn
  <2>4. QED
    BY <2>2, <2>3
<1>3. CASE ApTakeAccept(a)
  <2>1. Arrived' = Arrived /\ Exited' = Exited
    BY <1>3, <1>t DEF ApTakeAccept, Arrived, Exited
  <2>2. TypeOK'
    BY <1>3, <1>t, <1>f, <1>h, <2>1
       DEF ApTakeAccept, TypeOK, ApPc, BspPc, PhaseInv, BetweenCalls, Releasing, Sending,
           Working, Restarting, HandingOver, ApsIn, Noop, AcceptPages, Wakeup
  <2>3. PhaseInv'
    BY <1>3, <1>t, <1>r, <1>f, <1>g, <1>h, <2>1, RequestFields
       DEF ApTakeAccept, TypeOK, BspPc, Noop, AcceptPages, Wakeup, NoCommand,
           PhaseInv, BetweenCalls, Releasing, Sending,
            Working, Restarting, HandingOver, JumpsToRelocatedLoop, ApsIn
  <2>4. QED
    BY <2>2, <2>3
<1>4. CASE ApTakeWakeup(a)
  <2>1. Arrived' = Arrived /\ Exited' = Exited
    BY <1>4, <1>t DEF ApTakeWakeup, Arrived, Exited
  <2>2. TypeOK'
    BY <1>4, <1>t, <1>f, <1>h, <2>1
       DEF ApTakeWakeup, TypeOK, ApPc, BspPc, PhaseInv, BetweenCalls, Releasing, Sending,
           Working, Restarting, HandingOver, ApsIn, Noop, AcceptPages, Wakeup
  <2>3. PhaseInv'
    BY <1>4, <1>t, <1>r, <1>f, <1>g, <1>h, <2>1, RequestFields
       DEF ApTakeWakeup, TypeOK, BspPc, Noop, AcceptPages, Wakeup, NoCommand,
           PhaseInv, BetweenCalls, Releasing, Sending,
            Working, Restarting, HandingOver, JumpsToRelocatedLoop, ApsIn
  <2>4. QED
    BY <2>2, <2>3
<1>5. CASE ApAcceptDone(a)
  <2>1. Arrived' = Arrived /\ Exited' = Exited
    BY <1>5, <1>t DEF ApAcceptDone, Arrived, Exited
  <2>2. TypeOK'
    BY <1>5, <1>t, <1>f, <1>h, <2>1
       DEF ApAcceptDone, TypeOK, ApPc, BspPc, PhaseInv, BetweenCalls, Releasing, Sending,
           Working, Restarting, HandingOver, ApsIn, Noop, AcceptPages, Wakeup
  <2>3. PhaseInv'
    BY <1>5, <1>t, <1>r, <1>f, <1>g, <1>h, <2>1, RequestFields
       DEF ApAcceptDone, TypeOK, BspPc, Noop, AcceptPages, Wakeup, NoCommand,
           PhaseInv, BetweenCalls, Releasing, Sending,
            Working, Restarting, HandingOver, JumpsToRelocatedLoop, ApsIn
  <2>4. QED
    BY <2>2, <2>3
<1>6. CASE ApFinish(a)
  <2>1. Exited' = Exited \cup {a} /\ a \notin Exited /\ Arrived' = Arrived
    BY <1>6, <1>t DEF ApFinish, Arrived, Exited
  <2>2. TypeOK'
    BY <1>6, <1>t, <1>f, <1>h, <2>1
       DEF ApFinish, TypeOK, ApPc, BspPc, PhaseInv, BetweenCalls, Releasing, Sending,
           Working, Restarting, HandingOver, ApsIn, Noop, AcceptPages, Wakeup
  <2>3. PhaseInv'
    BY <1>6, <1>t, <1>r, <1>f, <1>g, <1>h, <2>1, RequestFields
       DEF ApFinish, TypeOK, BspPc, Noop, AcceptPages, Wakeup, NoCommand,
           PhaseInv, BetweenCalls, Releasing, Sending,
            Working, Restarting, HandingOver, JumpsToRelocatedLoop, ApsIn
  <2>4. QED
    BY <2>2, <2>3
<1>7. CASE ApRestart(a)
  <2>1. Arrived' = Arrived
    BY <1>7, <1>t DEF ApRestart, Arrived, Exited
  <2>2. TypeOK'
    BY <1>7, <1>t, <1>f, <1>h, <2>1
       DEF ApRestart, TypeOK, ApPc, BspPc, PhaseInv, BetweenCalls, Releasing, Sending,
           Working, Restarting, HandingOver, ApsIn, Noop, AcceptPages, Wakeup
  <2>3. PhaseInv'
    BY <1>7, <1>t, <1>r, <1>f, <1>g, <1>h, <2>1, RequestFields
       DEF ApRestart, TypeOK, BspPc, Noop, AcceptPages, Wakeup, NoCommand,
           PhaseInv, BetweenCalls, Releasing, Sending,
            Working, Restarting, HandingOver, JumpsToRelocatedLoop, ApsIn
  <2>4. QED
    BY <2>2, <2>3
<1>8. CASE ApJump(a)
  <2>1. Arrived' = Arrived /\ Exited' = Exited
    BY <1>8, <1>t DEF ApJump, Arrived, Exited
  <2>2. TypeOK'
    BY <1>8, <1>t, <1>f, <1>h, <2>1
       DEF ApJump, TypeOK, ApPc, BspPc, PhaseInv, BetweenCalls, Releasing, Sending,
           Working, Restarting, HandingOver, ApsIn, Noop, AcceptPages, Wakeup
  <2>3. PhaseInv'
    BY <1>8, <1>t, <1>r, <1>f, <1>g, <1>h, <2>1, RequestFields
       DEF ApJump, TypeOK, BspPc, Noop, AcceptPages, Wakeup, NoCommand,
           PhaseInv, BetweenCalls, Releasing, Sending,
            Working, Restarting, HandingOver, JumpsToRelocatedLoop, ApsIn
  <2>4. QED
    BY <2>2, <2>3
<1>9. QED
  BY <1>1, <1>2, <1>3, <1>4, <1>5, <1>6, <1>7, <1>8 DEF ApNext
LEMMA StartInv ==
    ASSUME Inv, NEW r \in Requests, MpSerializeStart(r)
    PROVE  Inv'
<1> USE DEF Inv, BspGoto, mailbox
<1>s. Arrived' = Arrived /\ Exited' = Exited
  BY SameAps DEF MpSerializeStart
<1>1. TypeOK'
  BY CallsAssumption DEF MpSerializeStart, TypeOK, BspPc
<1>2. PhaseInv'
  BY <1>s DEF MpSerializeStart, PhaseInv, BetweenCalls, Releasing, Sending,
     Working, Restarting, HandingOver, JumpsToRelocatedLoop, ApsIn
<1>3. QED
  BY <1>1, <1>2

LEMMA StutterInv ==
    ASSUME Inv, UNCHANGED vars
    PROVE  Inv'
<1>s. Arrived' = Arrived /\ Exited' = Exited
  BY SameAps DEF vars
<1>1. TypeOK'
  BY DEF Inv, vars, TypeOK
<1>2. PhaseInv'
  BY <1>s DEF Inv, vars, PhaseInv, BetweenCalls, Releasing, Sending,
     Working, Restarting, HandingOver, JumpsToRelocatedLoop, ApsIn
<1>3. QED
  BY <1>1, <1>2 DEF Inv

LEMMA NextInv == Inv /\ [Next]_vars => Inv'
<1> SUFFICES ASSUME Inv, [Next]_vars PROVE Inv'
  OBVIOUS
<1>1. CASE \E r \in Requests : MpSerializeStart(r)
  BY <1>1, StartInv
<1>2. CASE BspNext
  BY <1>2, BspInv
<1>3. CASE \E a \in AP : ApNext(a)
  BY <1>3, ApInv
<1>4. CASE UNCHANGED vars
  BY <1>4, StutterInv
<1>5. QED
  BY <1>1, <1>2, <1>3, <1>4 DEF Next, HandedOver

-----------------------------------------------------------------------------
\* For every number of CPUs the program counters and the mailbox keep to the
\* phases of a call: the inductive invariant of TdxMpLib and SecEntry.nasm.
THEOREM Invariance == Spec => []Inv
BY InitInv, NextInv, PTL DEF Spec

\* For every number of CPUs NumCpusArriving and NumCpusExiting stay between
\* zero and the number of CPUs, and every field has a legal value.
THEOREM TypeCorrect == Spec => []TypeOK
<1>1. Inv => TypeOK
  BY DEF Inv
<1>2. QED
  BY <1>1, Invariance, PTL

\* The phases hold for every number of CPUs.
THEOREM Phases == Spec => []PhaseInv
<1>1. Inv => PhaseInv
  BY DEF Inv
<1>2. QED
  BY <1>1, Invariance, PTL

\* For every number of CPUs: the BSP never touches the command or its
\* arguments while an AP executes AcceptPages.
THEOREM ArgsStable == Spec => []ArgsStableDuringAccept
<1>1. Inv => ArgsStableDuringAccept
  BY DEF Inv, TypeOK, BspPc, PhaseInv, BetweenCalls, Releasing, Sending,
     Working, Restarting, HandingOver, ApsIn, ArgsStableDuringAccept
<1>2. QED
  BY <1>1, Invariance, PTL

\* For every number of CPUs: an AP that leaves the parking loop jumps to the
\* relocated loop with the relocated mailbox.
THEOREM Jumps == Spec => []JumpsToRelocatedLoop
<1>1. Inv => JumpsToRelocatedLoop
  BY DEF Inv, PhaseInv
<1>2. QED
  BY <1>1, Invariance, PTL

\* For every number of CPUs: the counters of the mailbox count the APs at
\* the barrier, in every round.
THEOREM Barrier == Spec => []BarrierCounts
<1>1. Inv => BarrierCounts
  <2> SUFFICES ASSUME Inv PROVE BarrierCounts
    OBVIOUS
  <2>1. ApsIn({"arrive"}) => Cardinality(Arrived) = NumOfCpus - 1
    <3>1. ApsIn({"arrive"}) => Arrived = AP
      BY DEF ApsIn, Arrived
    <3>2. QED
      BY <3>1, ApCount
  <2>2. ApsIn({"exit"}) => Cardinality(Exited) = NumOfCpus - 1
    <3>1. ApsIn({"exit"}) => Exited = AP
      BY DEF ApsIn, Exited
    <3>2. QED
      BY <3>1, ApCount
  <2>3. ApsIn({"arrive", "command"}) => Cardinality(Exited) = 0
    <3>1. ApsIn({"arrive", "command"}) => Exited = {}
      BY DEF ApsIn, Exited
    <3>2. QED
      BY <3>1, ApNone
  <2>4. QED
    BY <2>1, <2>2, <2>3, CpusAssumption
       DEF Inv, BarrierCounts, PhaseInv, BetweenCalls, Releasing, Sending,
           Working, Restarting
<1>2. QED
  BY <1>1, Invariance, PTL

-----------------------------------------------------------------------------
(* The mailbox implements the fork-join.                                   *)

LEMMA ForkJoinInit == Init => FJ!Init
BY DEF Init, FJ!Init, TheJob, ThePending, TheActive, Noop, AcceptPages

(* A step that moves no AP and leaves Command and the arguments alone.     *)
LEMMA ForkJoinStutter ==
    ASSUME UNCHANGED <<ap, command, args>>
    PROVE  UNCHANGED FJ!fjvars
BY DEF FJ!fjvars, TheJob, ThePending, TheActive

LEMMA ForkJoinBsp ==
    ASSUME Inv, BspNext
    PROVE  [FJ!Next]_(FJ!fjvars)
<1> USE ArgsAssumption DEF Inv, BspGoto, mailbox
<1>1. CASE \/ MpSerializeStartArrived \/ MpSerializeStartRelease \/ BspAcceptDone
           \/ MpSerializeEndExited \/ MpSerializeEndZero \/ MpSerializeEndRestart
  BY <1>1, ForkJoinStutter
     DEF MpSerializeStartArrived, MpSerializeStartRelease, BspAcceptDone,
         MpSerializeEndExited, MpSerializeEndZero, MpSerializeEndRestart
<1>2. CASE MpSendWakeupCommandClear \/ MpSendWakeupCommandArgs
  BY <1>2 DEF MpSendWakeupCommandClear, MpSendWakeupCommandArgs, PhaseInv, Sending,
     FJ!fjvars, TheJob, ThePending, TheActive, Noop, AcceptPages
<1>3. CASE MpSendWakeupCommandSend
  <2>1. CASE req.command = AcceptPages
    <3>1. req.args \in AcceptArgs
      BY <2>1, RequestFields DEF TypeOK
    <3>2. FJ!Fork(args)
      BY <1>3, <2>1, <3>1
         DEF MpSendWakeupCommandSend, PhaseInv, Sending, ApsIn, TypeOK,
             FJ!Fork, TheJob, ThePending, TheActive, Noop, AcceptPages
    <3>3. QED
      BY <1>3, <3>1, <3>2 DEF FJ!Next, MpSendWakeupCommandSend, PhaseInv, Sending
  <2>2. CASE req.command = Wakeup
    BY <1>3, <2>2 DEF MpSendWakeupCommandSend, PhaseInv, Sending, FJ!fjvars,
       TheJob, ThePending, TheActive, Noop, AcceptPages, Wakeup
  <2>3. QED
    BY <1>3, <2>1, <2>2 DEF MpSendWakeupCommandSend, PhaseInv, Sending
<1>4. CASE MpSerializeEndNoop
  <2>1. CASE command = Noop
    BY <1>4, <2>1, ForkJoinStutter DEF MpSerializeEndNoop
  <2>2. CASE command = AcceptPages /\ args \in AcceptArgs
    BY <1>4, <2>2 DEF MpSerializeEndNoop, PhaseInv, Restarting, ApsIn,
       FJ!Next, FJ!Join, TheJob, ThePending, TheActive, Noop, AcceptPages
  <2>3. QED
    BY <1>4, <2>1, <2>2 DEF MpSerializeEndNoop, PhaseInv, Restarting
<1>5. QED
  BY <1>1, <1>2, <1>3, <1>4 DEF BspNext

LEMMA ForkJoinAp ==
    ASSUME Inv, NEW a \in AP, ApNext(a)
    PROVE  [FJ!Next]_(FJ!fjvars)
<1> USE DEF Inv, ApGoto, mailbox
<1>t. ap \in [AP -> ApPc]
  BY DEF TypeOK
<1>1. CASE ApTakeAccept(a)
  <2>1. FJ!Take(a)
    BY <1>1, <1>t DEF ApTakeAccept, FJ!Take, TheJob, ThePending, TheActive
  <2>2. QED
    BY <2>1 DEF FJ!Next
<1>2. CASE ApAcceptDone(a)
  <2>1. FJ!Finish(a)
    BY <1>2, <1>t DEF ApAcceptDone, FJ!Finish, TheJob, ThePending, TheActive
  <2>2. QED
    BY <2>1 DEF FJ!Next
<1>3. CASE ApArrive(a)
  <2>1. command = Noop
    BY <1>3 DEF ApArrive, TypeOK, BspPc, PhaseInv, BetweenCalls, Releasing,
       Sending, Working, Restarting, HandingOver, ApsIn
  <2>2. QED
    BY <1>3, <1>t, <2>1 DEF ApArrive, FJ!fjvars, TheJob, ThePending, TheActive,
       Noop, AcceptPages
<1>4. CASE ApReleased(a) \/ ApTakeWakeup(a)
  BY <1>4, <1>t DEF ApReleased, ApTakeWakeup, FJ!fjvars, TheJob, ThePending,
     TheActive, Wakeup, AcceptPages
<1>5. CASE ApFinish(a) \/ ApRestart(a) \/ ApJump(a)
  BY <1>5, <1>t DEF ApFinish, ApRestart, ApJump, FJ!fjvars, TheJob, ThePending,
     TheActive
<1>6. QED
  BY <1>1, <1>2, <1>3, <1>4, <1>5 DEF ApNext

LEMMA ForkJoinStep == Inv /\ [Next]_vars => [FJ!Next]_(FJ!fjvars)
<1> SUFFICES ASSUME Inv, [Next]_vars PROVE [FJ!Next]_(FJ!fjvars)
  OBVIOUS
<1>1. CASE \E r \in Requests : MpSerializeStart(r)
  BY <1>1, ForkJoinStutter DEF MpSerializeStart, mailbox
<1>2. CASE BspNext
  BY <1>2, ForkJoinBsp
<1>3. CASE \E a \in AP : ApNext(a)
  BY <1>3, ForkJoinAp
<1>4. CASE UNCHANGED vars
  BY <1>4, ForkJoinStutter DEF vars
<1>5. QED
  BY <1>1, <1>2, <1>3, <1>4 DEF Next, HandedOver

\* For every number of CPUs TdxMpLib and the parking loop implement the
\* fork-join: each AP takes each AcceptPages command exactly once, and
\* MpSerializeEnd returns only after the last AP has finished it.
THEOREM Refinement == Spec => ImplementsForkJoin
<1>1. Spec => FJ!Init
  BY ForkJoinInit, PTL DEF Spec
<1>2. Spec => [][FJ!Next]_(FJ!fjvars)
  BY Invariance, ForkJoinStep, PTL DEF Spec
<1>3. QED
  BY <1>1, <1>2 DEF ImplementsForkJoin, FJ!Spec

-----------------------------------------------------------------------------
(* Who waits for whom.  A CPU spins when it is in one of the loops of the  *)
(* protocol and the loop's condition does not hold yet.                    *)
BspSpins ==
    \/ bsp = "start" /\ arriving # NumOfCpus - 1
    \/ bsp = "end" /\ exiting # 1

ApSpins(a) ==
    \/ ap[a] = "arrive" /\ arriving # NumOfCpus
    \/ ap[a] = "command" /\ command \notin {AcceptPages, Wakeup}
    \/ ap[a] = "exit" /\ exiting # 0

(* A call that released the APs and sends them nothing.                    *)
Silent == bsp \in {"work", "end"} /\ req.command = NoCommand

NoDeadlock ==
    /\ BspSpins => Silent \/ \E a \in AP : ~ApSpins(a)
    /\ bsp = "done" => \A a \in AP : ~ApSpins(a)

(* All APs in one place make a counter the number of APs.                  *)
LEMMA AllArrived == ApsIn({"arrive"}) => Cardinality(Arrived) = NumOfCpus - 1
<1>1. ApsIn({"arrive"}) => Arrived = AP
  BY DEF ApsIn, Arrived
<1>2. QED
  BY <1>1, ApCount

LEMMA AllExited == ApsIn({"exit"}) => Cardinality(Exited) = NumOfCpus - 1
<1>1. ApsIn({"exit"}) => Exited = AP
  BY DEF ApsIn, Exited
<1>2. QED
  BY <1>1, ApCount

\* Everyone waiting on everyone does not happen, for any number of CPUs: while
\* MpSerializeStart or MpSerializeEnd spins, some AP is not in a spin loop (or
\* its loop's condition holds), and after Wakeup no AP waits for anything.
\* The only exception is the call that sends no command (Mp.c:185).
THEOREM DeadlockFree == Spec => []NoDeadlock
<1>1. Inv => NoDeadlock
  <2> SUFFICES ASSUME Inv PROVE NoDeadlock
    OBVIOUS
  <2> USE DEF Inv
  <2>1. ASSUME bsp = "start", arriving # NumOfCpus - 1
        PROVE  \E a \in AP : ~ApSpins(a)
    <3>1. ~ApsIn({"arrive"}) /\ ApsIn({"exit", "park", "arrive"}) /\ exiting = 0
      BY <2>1, AllArrived DEF PhaseInv, BetweenCalls
    <3>2. PICK a \in AP : ap[a] \in {"exit", "park"}
      BY <3>1 DEF ApsIn
    <3>3. QED
      BY <3>1, <3>2 DEF ApSpins
  <2>2. ASSUME bsp = "end", exiting # 1, ~Silent
        PROVE  \E a \in AP : ~ApSpins(a)
    <3>1. /\ command = AcceptPages /\ arriving = NumOfCpus
          /\ exiting = NumOfCpus - Cardinality(Exited)
          /\ ApsIn({"arrive", "command", "accept", "finish", "exit"})
      BY <2>2 DEF Silent, PhaseInv, Working
    <3>2. ~ApsIn({"exit"})
      BY <2>2, <3>1, AllExited, CpusAssumption
    <3>3. PICK a \in AP : ap[a] \in {"arrive", "command", "accept", "finish"}
      BY <3>1, <3>2 DEF ApsIn
    <3>4. QED
      BY <3>1, <3>3 DEF ApSpins
  <2>3. ASSUME bsp = "done", NEW a \in AP PROVE ~ApSpins(a)
    BY <2>3 DEF PhaseInv, HandingOver, ApsIn, ApSpins
  <2>4. QED
    BY <2>1, <2>2, <2>3 DEF NoDeadlock, BspSpins
<1>2. QED
  BY <1>1, Invariance, PTL

LEMMA SilentStays == NumOfCpus > 1 /\ Inv /\ Silent /\ [Next]_vars => Silent'
<1> SUFFICES ASSUME NumOfCpus > 1, Inv, Silent, [Next]_vars PROVE Silent'
  OBVIOUS
<1> USE DEF Silent
<1>1. exiting = NumOfCpus
  <2>1. /\ exiting = NumOfCpus - Cardinality(Exited)
        /\ ApsIn({"arrive", "command"})
    BY DEF Inv, PhaseInv, Working, AcceptPages, NoCommand
  <2>2. Exited = {}
    BY <2>1 DEF ApsIn, Exited
  <2>3. QED
    BY <2>1, <2>2, ApNone, CpusAssumption
<1>2. CASE \E r \in Requests : MpSerializeStart(r)
  BY <1>2 DEF MpSerializeStart, BspGoto
<1>3. CASE BspNext
  BY <1>1, <1>3, CpusAssumption
     DEF BspNext, BspGoto, MpSerializeStartArrived, MpSerializeStartRelease,
         MpSendWakeupCommandClear, MpSendWakeupCommandArgs, MpSendWakeupCommandSend,
         BspAcceptDone, MpSerializeEndExited, MpSerializeEndNoop, MpSerializeEndZero,
         MpSerializeEndRestart
<1>4. CASE \E a \in AP : ApNext(a)
  BY <1>4 DEF ApNext, ApArrive, ApReleased, ApTakeAccept, ApTakeWakeup, ApAcceptDone,
              ApFinish, ApRestart, ApJump
<1>5. CASE UNCHANGED vars
  BY <1>5 DEF vars
<1>6. QED
  BY <1>2, <1>3, <1>4, <1>5 DEF Next, HandedOver

\* The exception is real for every machine with an AP: once the APs are
\* released without a command, MpSerializeEnd spins for ever.
THEOREM SilentCallNeverReturns ==
    ASSUME NumOfCpus > 1
    PROVE  Spec => [](Silent => []Silent)
<1>1. Inv /\ Silent /\ [Next]_vars => Silent'
  BY SilentStays
<1>2. QED
  BY <1>1, Invariance, PTL DEF Spec
=============================================================================
