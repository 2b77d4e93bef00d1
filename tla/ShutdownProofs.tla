--------------------------- MODULE ShutdownProofs ---------------------------
(***************************************************************************)
(* A shutdown signal does no harm to the order of epochs: whatever it      *)
(* interrupts, the generator takes a step that it might take without it.   *)
(***************************************************************************)
EXTENDS Shutdown, EpochRejectionProofs

\* With signals the generator is still the one of EpochGenerator.
THEOREM SignalsAreFaults == ShutdownSpec => Spec
<1>1. ShutdownInit => Init
  BY DEF ShutdownInit
<1>2. ASSUME [ShutdownNext]_shutdownVars PROVE [Next]_vars
  <2>1. CASE Signal
    <3>1. CASE SignalCaught
      <4>1. First \/ Loop \/ Recover \/ UNCHANGED vars
        BY <3>1 DEF SignalCaught, First, Loop, Recover
      <4>2. QED
        BY <4>1 DEF Next, Generator
    <3>2. CASE SignalEnds
      BY <3>2 DEF SignalEnds, Next, Environment
    <3>3. QED
      BY <2>1, <3>1, <3>2 DEF Signal
  <2>2. CASE Next
    BY <2>2
  <2>3. CASE UNCHANGED shutdownVars
    BY <2>3 DEF shutdownVars
  <2>4. QED
    BY <1>2, <2>1, <2>2, <2>3 DEF ShutdownNext
<1>3. QED
  BY <1>1, <1>2, PTL DEF ShutdownSpec, Spec

\* So, whenever a signal arrives, what was sent is settled ...
THEOREM SignalsSettled == ShutdownSpec => []SentSettled
BY SignalsAreFaults, AnnouncedSettled

\* ... and blocks are announced once and in order.
THEOREM SignalsInOrder ==
  ASSUME NoFirstRelease, "revert" \notin FaultKinds
  PROVE  ShutdownSpec => []Contiguous
BY SignalsAreFaults, ExactlyOnceInOrder

\* The readers of the contract see no difference: what they are promised holds with
\* signals too.
THEOREM SignalsImplementLedger ==
  ASSUME ContractChecks \/ (NoFirstRelease /\ "revert" \notin FaultKinds)
  PROVE  ShutdownSpec => LedgerSpec
BY SignalsAreFaults, ImplementsLedger, ImplementsLedgerRejected

\* A signal does not make the process run further ahead of the contract, ...
THEOREM SignalsKeepBounds ==
  ASSUME BaseEnd > 0 \/ TickerBegin > 0, ContractChecks \/ "revert" \notin FaultKinds
  PROVE  ShutdownSpec => []BoundedDrift
BY SignalsAreFaults, DriftIsBounded, DriftIsBoundedRejected

\* ... nor send what the contract already has, although it makes a release in
\* progress look like a failed one.
THEOREM SignalsNeverResubmit ==
  ASSUME NoFirstRelease, ContractChecks \/ "revert" \notin FaultKinds
  PROVE  ShutdownSpec => NoResubmission
BY SignalsAreFaults, NeverResubmits, NeverResubmitsRejected
=============================================================================
