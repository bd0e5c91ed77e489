---------------------------- MODULE MpAcceptProofs ----------------------------
(***************************************************************************)
(* MpAccept uses the mailbox as TdxMailbox says: whatever the CPUs accept, *)
(* and whatever fails, what they do to the mailbox is a behaviour of       *)
(* TdxMailbox.  The theorems about the protocol therefore hold of the      *)
(* acceptance of memory, too.                                              *)
(***************************************************************************)
EXTENDS MpAccept, TdxMailboxProofs

(* What MpAcceptMemoryResourceRange asks of TdxMpLib is a request that     *)
(* TdxMailbox knows.                                                       *)
LEMMA RequestIsServed ==
    ASSUME NEW r \in Ranges
    PROVE  RequestOf(r) \in Requests
BY RangesAssumption DEF RequestOf, Requests

(* A step of the acceptance is a step of the mailbox protocol or leaves    *)
(* the mailbox and the CPUs' places in the protocol alone.                 *)
LEMMA MpBspStep == MpBspNext => [Next]_vars
<1> SUFFICES ASSUME MpBspNext PROVE [Next]_vars
  OBVIOUS
<1>1. CASE BspProtocol
  <2>1. BspNext
    BY <1>1, Zenon DEF BspProtocol, BspNext
  <2>2. QED
    BY <2>1, Zenon DEF Next
<1>2. CASE BspAcceptOne \/ BspAcceptFails \/ BspPartDone \/ MpAcceptReturn
  <2>1. UNCHANGED vars
    BY <1>2, Zenon DEF BspAcceptOne, BspAcceptFails, BspPartDone, MpAcceptReturn
  <2>2. QED
    BY <2>1, Zenon
<1>3. QED
  BY <1>1, <1>2, Zenon DEF MpBspNext

LEMMA MpApStep ==
    ASSUME NEW a \in AP
    PROVE  MpApNext(a) => [Next]_vars
<1> SUFFICES ASSUME MpApNext(a) PROVE [Next]_vars
  OBVIOUS
<1>1. CASE ApProtocol(a) \/ ApAcceptPage(a) \/ ApAcceptEnds(a)
  <2>1. ApNext(a)
    BY <1>1, Zenon DEF ApProtocol, ApAcceptPage, ApAcceptEnds, ApNext
  <2>2. QED
    BY <2>1, Zenon DEF Next
<1>2. CASE ApAcceptOne(a) \/ ApAcceptFails(a)
  <2>1. UNCHANGED vars
    BY <1>2, Zenon DEF ApAcceptOne, ApAcceptFails
  <2>2. QED
    BY <2>1, Zenon
<1>3. QED
  BY <1>1, <1>2, Zenon DEF MpApNext

LEMMA MpStep == [MpNext]_mpvars => [Next]_vars
<1> SUFFICES ASSUME [MpNext]_mpvars PROVE [Next]_vars
  OBVIOUS
<1>1. ASSUME NEW r \in Ranges, MpAcceptCall(r) PROVE Next
  <2>1. MpSerializeStart(RequestOf(r))
    BY <1>1, Zenon DEF MpAcceptCall
  <2>2. QED
    BY <2>1, RequestIsServed, Zenon DEF Next
<1>2. CASE StartupWakeup
  <2>1. MpSerializeStart(WakeupRequest) /\ WakeupRequest \in Requests
    BY <1>2, Zenon DEF StartupWakeup, Requests
  <2>2. QED
    BY <2>1, Zenon DEF Next
<1>3. CASE StartupFails
  BY <1>3, Zenon DEF StartupFails
<1>4. CASE MpBspNext
  BY <1>4, MpBspStep
<1>5. ASSUME NEW a \in AP, MpApNext(a) PROVE [Next]_vars
  BY <1>5, MpApStep
<1>6. CASE Booted
  BY <1>6, Zenon DEF Booted, Next
<1>7. CASE Halted \/ UNCHANGED mpvars
  BY <1>7, Zenon DEF Halted, mpvars
<1>8. QED
  BY <1>1, <1>2, <1>3, <1>4, <1>5, <1>6, <1>7, Zenon DEF MpNext

\* However the memory is cut, mapped and accepted, and whichever CPU fails,
\* the BSP and the APs follow the mailbox protocol.
THEOREM UsesMailbox == MpSpec => Spec
<1>1. MpInit => Init
  BY DEF MpInit
<1>2. QED
  BY <1>1, MpStep, PTL DEF MpSpec, Spec

\* The arguments an AP re-reads from the mailbox between two TDACCEPTPAGE are
\* those of the call it works for, for any ranges and number of CPUs.
THEOREM MpArgsStable == MpSpec => []ArgsStableDuringAccept
BY UsesMailbox, ArgsStable, PTL

\* The counters of the mailbox stay a barrier from call to call, for any
\* ranges and number of CPUs, also when a CPU gives up with an error.
THEOREM MpBarrier == MpSpec => []BarrierCounts
BY UsesMailbox, Barrier, PTL

\* The acceptance of memory is a fork-join: MpAcceptMemoryResourceRange
\* returns only when no AP works for it any more.
THEOREM MpForkJoin == MpSpec => ImplementsForkJoin
BY UsesMailbox, Refinement, PTL
=============================================================================
