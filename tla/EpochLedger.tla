---------------------------- MODULE EpochLedger ----------------------------
(***************************************************************************)
(* What the epoch generator promises to the readers of the Protocol State  *)
(* contract: the released epochs are ranges of Height source-chain blocks, *)
(* each starting right after the one before it, and none reaches closer    *)
(* than Offset blocks to the head of the source chain.                     *)
(***************************************************************************)
EXTENDS Integers, Sequences

CONSTANTS
  Height,    \* settings.chain.epoch.height, the size of an epoch
  Offset,    \* settings.chain.epoch.head_offset
  BaseEnd    \* end of the last epoch released before the behaviour, 0 for none

ASSUME LedgerAssumption ==
  /\ Height \in Nat \ {0}
  /\ Offset \in Nat
  /\ BaseEnd \in Nat

VARIABLES
  head,      \* head of the source chain
  ledger     \* the epochs released, in the order the contract accepted them

\* currentEpoch().end of the contract, 0 while no epoch was released.
CurrentEnd == IF ledger = <<>> THEN BaseEnd ELSE ledger[Len(ledger)].end

\* Epoch e is the successor of the current epoch; any epoch may be the first.
Follows(e) == CurrentEnd = 0 \/ e.begin = CurrentEnd + 1

WellFormed(e) == e.begin >= 0 /\ e.end - e.begin + 1 = Height

\* Every block of e is at least Offset blocks behind the head.
Settled(e) == e.end <= head - Offset

Epoch == {e \in [begin : Int, end : Int] : WellFormed(e)}

LedgerInit == head \in Nat /\ ledger = <<>>

Release(e) ==
  /\ WellFormed(e) /\ Follows(e) /\ Settled(e)
  /\ ledger' = Append(ledger, e)
  /\ UNCHANGED head

Grow == head' = head + 1 /\ UNCHANGED ledger

LedgerNext ==
  \/ \E e \in {[begin |-> b, end |-> b + Height - 1] : b \in 0..head} : Release(e)
  \/ Grow

LedgerSpec == LedgerInit /\ [][LedgerNext]_<<head, ledger>>
=============================================================================
