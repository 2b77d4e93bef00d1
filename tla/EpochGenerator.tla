--------------------------- MODULE EpochGenerator ---------------------------
(***************************************************************************)
(* epoch_generator.py: the process that cuts the source chain into epochs  *)
(* of Height blocks and announces each with a releaseEpoch transaction on  *)
(* the anchor chain.  Most transactions are sent blind; every CheckEvery-th *)
(* one, and the first one after an error, waits for its receipt.  Nothing  *)
(* is persisted: after an error or a restart the nonce and the next epoch  *)
(* are read back from the anchor chain, in two separate calls.             *)
(***************************************************************************)
EXTENDS EpochLedger, AnchorAccount

CONSTANTS
  CheckEvery,     \* _check_receipt_every
  TickerBegin,    \* settings.ticker_begin_block, 0 when not set
  StartSet,       \* is settings.epoch_release_start_timestamp set?
  RetryLimit,     \* settings.anchor_chain.rpc.retry
  ContractChecks, \* does the contract reject an epoch that is no successor?
  FaultKinds,     \* what may go wrong
  MaxFaults,      \* bound: how often it goes wrong in one behaviour
  InitHead,       \* bound: first head of the source chain
  MaxHead,        \* bound: last head of the source chain
  Lag             \* how far behind the head a source chain node may answer

ASSUME GeneratorAssumption ==
  /\ CheckEvery \in Nat \ {0}
  /\ TickerBegin \in Nat
  /\ StartSet \in BOOLEAN
  /\ RetryLimit \in Nat \ {0}
  /\ ContractChecks \in BOOLEAN
  /\ FaultKinds \subseteq {"rpc", "lost", "revert", "drop", "crash"}
  /\ MaxFaults \in Nat
  /\ InitHead \in Nat /\ MaxHead \in Nat /\ Lag \in Nat

VARIABLES
  pc,        \* where the process is
  nonce,     \* self._nonce
  counter,   \* self.release_counter, modulo CheckEvery
  force,     \* self._force_tx
  begin,     \* begin_block_epoch, 0 when not set
  endb,      \* end_block_epoch of the chunking under way
  next,      \* first block of the chunk being released
  attempts,  \* failed attempts of _release_epoch_with_retry
  clock,     \* the time, relative to epoch_release_start_timestamp
  faults     \* how often something went wrong so far

localVars == <<nonce, counter, force, begin, endb, next, attempts>>
chainVars == <<mined, pool, ledger>>
envVars   == <<head, clock>>
vars      == <<pc, localVars, chainVars, envVars, faults>>

Locations ==
  {"down", "fetch", "first_check", "first_wait", "first_send", "first_receipt",
   "first_reset", "poll", "release", "receipt", "failed_nonce", "failed_epoch",
   "error_nonce", "error_epoch"}

-----------------------------------------------------------------------------
(* What the process computes from its state and from the chains.           *)

Fault(kind) == kind \in FaultKinds /\ faults < MaxFaults /\ faults' = faults + 1

\* Answers of rpc_eth_blocknumber.
ObservedHeads == {h \in head - Lag .. head : h >= 0}

\* Mutant: the head offset is forgotten.
HeadItself(h) == h
LastBlock(h) == h - Offset

\* Mutant: the -1 that stands for no epoch is taken for a block.
UncheckedEpoch(default) == IF CurrentEnd # 0 THEN CurrentEnd + 1 ELSE -1
\* Mutant: the epoch in the contract is not consulted.
RememberedEpoch(default) == default
\* Mutant: the current epoch is taken for the next one.
CurrentEpochAgain(default) == IF CurrentEnd # 0 THEN CurrentEnd ELSE default
\* _fetch_epoch_from_contract and what its callers make of the answer.
EpochFromContract(default) == IF CurrentEnd # 0 THEN CurrentEnd + 1 ELSE default

\* Mutant: the error handler moves on to the next nonce.
FollowingNonce == nonce + 1
NonceFromChain == TransactionCount

\* chunks(begin, end, Height): the chunk that starts at next.
ChunkEnd == IF next + Height - 1 <= endb THEN next + Height - 1 ELSE endb
\* Mutant: the check of the minimum epoch size is dropped.
AnyChunk == next <= endb
FullChunk == next <= endb /\ ChunkEnd - next + 1 >= Height
PartialChunk == next <= endb /\ ~FullChunk

\* Mutant: only an error makes the process wait for a receipt.
OnlyForced == force
ReceiptDue == counter = 0 \/ force

Gas(forced) == IF forced THEN 2 ELSE 1
HighGas == Gas(TRUE)

Transaction(e, gas) == [begin |-> e.begin, end |-> e.end, gas |-> gas]
Chunk == [begin |-> next, end |-> ChunkEnd]

(***************************************************************************)
(* write_transaction: the node takes the transaction, or refuses it, or    *)
(* the call fails before ("rpc") or after ("lost") the transaction reached *)
(* the node.  web3 does not encode a negative block number.                *)
(***************************************************************************)
Accept(n, tx) == tx.begin >= 0 /\ Acceptable(n, tx) /\ Submit(n, tx)

Send(n, tx, answer) ==
  /\ UNCHANGED <<mined, ledger>>
  /\ \/ answer = "ok" /\ Accept(n, tx) /\ UNCHANGED faults
     \/ answer \in Refusals(n, tx) /\ tx.begin >= 0 /\ UNCHANGED <<pool, faults>>
     \/ answer = "other" /\ tx.begin < 0 /\ UNCHANGED <<pool, faults>>
     \/ answer = "other" /\ Fault("rpc") /\ UNCHANGED pool
     \/ answer = "other" /\ Fault("lost") /\ Accept(n, tx)

Errors == {"nonce", "underpriced", "other"}

\* The process ends and pm2 starts it again: every local is lost.
Exit ==
  /\ pc' = "down"
  /\ nonce' = -1 /\ counter' = 0 /\ force' = FALSE
  /\ begin' = 0 /\ endb' = 0 /\ next' = 0 /\ attempts' = 0

-----------------------------------------------------------------------------
(* Start: __init__, setup and the first lines of run.                      *)

\* setup.
Setup ==
  /\ pc = "down"
  /\ pc' = "fetch" /\ nonce' = TransactionCount
  /\ UNCHANGED <<counter, force, begin, endb, next, attempts, chainVars, envVars, faults>>

FetchAtStart ==
  /\ pc = "fetch"
  /\ \/ /\ begin' = EpochFromContract(TickerBegin)
        /\ pc' = IF StartSet /\ begin' = 0 THEN "first_check" ELSE "poll"
        /\ UNCHANGED <<nonce, counter, force, endb, next, attempts, faults>>
     \/ Fault("rpc") /\ Exit
  /\ UNCHANGED <<chainVars, envVars>>

-----------------------------------------------------------------------------
(* _wait_and_release_first_epoch, _release_epoch_with_retry, _reset_nonce. *)

FirstCheck ==
  /\ pc = "first_check"
  /\ IF clock = "after"
     THEN Exit
     ELSE pc' = "first_wait" /\ UNCHANGED localVars
  /\ UNCHANGED <<chainVars, envVars, faults>>

FirstHead ==
  /\ pc = "first_wait" /\ clock # "before"
  /\ \/ \E h \in ObservedHeads :
          /\ endb' = LastBlock(h) /\ next' = LastBlock(h) - Height + 1
          /\ pc' = "first_send"
          /\ UNCHANGED <<nonce, counter, force, begin, attempts, faults>>
     \/ Fault("rpc") /\ Exit
  /\ UNCHANGED <<chainVars, envVars>>

FirstTx == Transaction([begin |-> next, end |-> endb], Gas(force))

\* tenacity: try again with the given locals, or give up, and run returns.
FailAttempt(n, c, f) ==
  \/ /\ attempts + 1 < RetryLimit
     /\ pc' = "first_send" /\ attempts' = attempts + 1
     /\ nonce' = n /\ counter' = c /\ force' = f
     /\ UNCHANGED <<begin, endb, next>>
  \/ attempts + 1 >= RetryLimit /\ Exit

\* The first epoch counts as released: the main loop goes on after it.
FirstDone ==
  /\ pc' = "poll"
  /\ begin' = endb + 1 /\ endb' = 0 /\ next' = 0 /\ attempts' = 0

Counted == (counter + 1) % CheckEvery

FirstSend ==
  /\ pc = "first_send"
  /\ \E answer \in Errors \cup {"ok"} :
       /\ Send(nonce, FirstTx, answer)
       /\ \/ /\ answer \in {"ok", "nonce"}
             /\ pc' = IF answer = "ok" THEN "first_receipt" ELSE "first_reset"
             /\ counter' = Counted
             /\ UNCHANGED <<nonce, force, begin, endb, next, attempts>>
          \/ /\ answer = "underpriced"
             /\ FirstDone
             /\ counter' = Counted
             /\ UNCHANGED <<nonce, force>>
          \/ answer = "other" /\ FailAttempt(nonce, Counted, force)
  /\ UNCHANGED envVars

\* The receipt arrives, or TimeExhausted, or the call fails.
FirstReceipt ==
  /\ pc = "first_receipt"
  /\ \/ /\ ReceiptOk(nonce, FirstTx)
        /\ FirstDone
        /\ nonce' = nonce + 1 /\ force' = FALSE
        /\ UNCHANGED <<counter, faults>>
     \/ /\ ReceiptFailed(nonce, FirstTx)
        /\ FailAttempt(nonce + 1, counter, FALSE)
        /\ UNCHANGED faults
     \/ /\ ~HasReceipt(nonce, FirstTx)
        /\ pc' = "first_reset"
        /\ UNCHANGED <<localVars, faults>>
     \/ Fault("rpc") /\ FailAttempt(nonce, counter, force)
  /\ UNCHANGED <<chainVars, envVars>>

\* _reset_nonce takes a count of 0 for no answer.
FirstReset ==
  /\ pc = "first_reset"
  /\ \/ /\ FailAttempt(IF TransactionCount # 0 THEN TransactionCount ELSE nonce,
                       counter, TRUE)
        /\ UNCHANGED faults
     \/ Fault("rpc") /\ FailAttempt(nonce, counter, force)
  /\ UNCHANGED <<chainVars, envVars>>

-----------------------------------------------------------------------------
(* The main loop.                                                          *)

\* No begin of epoch yet: it is set to the head of the source chain.
SetBegin ==
  /\ pc = "poll" /\ begin = 0
  /\ begin' \in ObservedHeads
  /\ UNCHANGED <<pc, nonce, counter, force, endb, next, attempts, chainVars, envVars, faults>>

\* Too few blocks have accumulated, or the source chain does not answer: the
\* loop sleeps and starts over.
PollIdle ==
  /\ pc = "poll"
  /\ begin # 0 => \E h \in ObservedHeads : LastBlock(h) - begin + 1 < Height
  /\ UNCHANGED vars

\* Enough blocks have accumulated.
StartChunks ==
  /\ pc = "poll" /\ begin # 0
  /\ \E h \in ObservedHeads :
       /\ LastBlock(h) - begin + 1 >= Height
       /\ endb' = LastBlock(h)
  /\ next' = begin /\ pc' = "release"
  /\ UNCHANGED <<nonce, counter, force, begin, attempts, chainVars, envVars, faults>>

LeaveChunks(b) ==
  /\ pc' = "poll" /\ begin' = b /\ endb' = 0 /\ next' = 0

SkipPartial ==
  /\ pc = "release" /\ PartialChunk
  /\ LeaveChunks(next)
  /\ UNCHANGED <<nonce, counter, force, attempts, chainVars, envVars, faults>>

ChunksDone ==
  /\ pc = "release" /\ next > endb
  /\ LeaveChunks(endb + 1)
  /\ UNCHANGED <<nonce, counter, force, attempts, chainVars, envVars, faults>>

\* The epoch was sent; the loop goes on with the next chunk.
Advance == pc' = "release" /\ nonce' = nonce + 1 /\ next' = next + Height

BlindRelease ==
  /\ pc = "release" /\ FullChunk /\ ~ReceiptDue
  /\ \E answer \in Errors \cup {"ok"} :
       /\ Send(nonce, Transaction(Chunk, Gas(FALSE)), answer)
       /\ IF answer = "ok"
          THEN Advance
          ELSE pc' = "error_nonce" /\ UNCHANGED <<nonce, next>>
  /\ counter' = Counted
  /\ UNCHANGED <<force, begin, endb, attempts, envVars>>

ReleaseWithReceipt ==
  /\ pc = "release" /\ FullChunk /\ ReceiptDue
  /\ \E answer \in Errors \cup {"ok"} :
       /\ Send(nonce, Transaction(Chunk, Gas(force)), answer)
       /\ pc' = IF answer = "ok" THEN "receipt" ELSE "error_nonce"
  /\ counter' = Counted
  /\ UNCHANGED <<nonce, force, begin, endb, next, attempts, envVars>>

AwaitedTx == Transaction(Chunk, Gas(force))

ReceiptConfirmed ==
  /\ pc = "receipt" /\ ReceiptOk(nonce, AwaitedTx)
  /\ Advance /\ force' = FALSE
  /\ UNCHANGED <<counter, begin, endb, attempts, chainVars, envVars, faults>>

ReceiptRejected ==
  /\ pc = "receipt" /\ ReceiptFailed(nonce, AwaitedTx)
  /\ pc' = "failed_nonce"
  /\ UNCHANGED <<localVars, chainVars, envVars, faults>>

\* TimeExhausted, or a failing call, ends in the except clause.
ReceiptMissing ==
  /\ pc = "receipt"
  /\ \/ ~HasReceipt(nonce, AwaitedTx) /\ UNCHANGED faults
     \/ Fault("rpc")
  /\ pc' = "error_nonce"
  /\ UNCHANGED <<localVars, chainVars, envVars>>

(***************************************************************************)
(* The two recoveries, after a failed transaction ("failed", inside the    *)
(* try) and after an exception ("error", in the except clause), read the   *)
(* nonce first and the epoch then.  A call that fails inside the try leads *)
(* to the except clause; in the except clause it ends the process.         *)
(***************************************************************************)
RecoverNonce ==
  /\ pc \in {"failed_nonce", "error_nonce"}
  /\ pc' = IF pc = "failed_nonce" THEN "failed_epoch" ELSE "error_epoch"
  /\ nonce' = NonceFromChain
  /\ UNCHANGED <<counter, force, begin, endb, next, attempts, chainVars, envVars, faults>>

\* Mutant: the next transaction is not made to wait for its receipt.
RecoverEpochUnforced ==
  /\ pc \in {"failed_epoch", "error_epoch"}
  /\ LeaveChunks(EpochFromContract(begin))
  /\ UNCHANGED <<nonce, counter, force, attempts, chainVars, envVars, faults>>
RecoverEpoch ==
  /\ pc \in {"failed_epoch", "error_epoch"}
  /\ LeaveChunks(EpochFromContract(begin))
  /\ force' = TRUE
  /\ UNCHANGED <<nonce, counter, attempts, chainVars, envVars, faults>>

RecoveryFails ==
  /\ \/ /\ pc \in {"failed_nonce", "failed_epoch"}
        /\ pc' = "error_nonce" /\ UNCHANGED localVars
     \/ /\ pc \in {"error_nonce", "error_epoch"}
        /\ Exit
  /\ Fault("rpc")
  /\ UNCHANGED <<chainVars, envVars>>

-----------------------------------------------------------------------------
(* The environment.                                                        *)

Crash ==
  /\ pc # "down"
  /\ Fault("crash") /\ Exit
  /\ UNCHANGED <<chainVars, envVars>>

AdvanceHead ==
  /\ head < MaxHead /\ head' = head + 1
  /\ UNCHANGED <<pc, localVars, chainVars, clock, faults>>

Tick ==
  /\ StartSet /\ clock # "after"
  /\ clock' = IF clock = "before" THEN "at" ELSE "after"
  /\ UNCHANGED <<pc, localVars, chainVars, head, faults>>

\* releaseEpoch of the contract: the epoch becomes the current one.
MineAccepted ==
  /\ Mine(TRUE)
  /\ ContractChecks => Follows(NextTx)
  /\ ledger' = Append(ledger, [begin |-> NextTx.begin, end |-> NextTx.end])
  /\ UNCHANGED <<pc, localVars, envVars, faults>>

MineReverted ==
  /\ Mine(FALSE)
  /\ \/ ContractChecks /\ ~Follows(NextTx) /\ UNCHANGED faults
     \/ Fault("revert")
  /\ UNCHANGED <<pc, localVars, ledger, envVars>>

\* The node forgets a pending transaction.
Drop ==
  /\ \E n \in DOMAIN pool : Evict(n)
  /\ Fault("drop")
  /\ UNCHANGED <<pc, localVars, ledger, envVars>>

-----------------------------------------------------------------------------
Init ==
  /\ pc = "down" /\ nonce = -1 /\ counter = 0 /\ force = FALSE
  /\ begin = 0 /\ endb = 0 /\ next = 0 /\ attempts = 0
  /\ AccountInit /\ ledger = <<>>
  /\ head = InitHead /\ clock = "before" /\ faults = 0

First == FirstCheck \/ FirstHead \/ FirstSend \/ FirstReceipt \/ FirstReset

Loop ==
  \/ SetBegin \/ PollIdle \/ StartChunks \/ SkipPartial \/ ChunksDone
  \/ BlindRelease \/ ReleaseWithReceipt
  \/ ReceiptConfirmed \/ ReceiptRejected \/ ReceiptMissing

Recover == RecoverNonce \/ RecoverEpoch \/ RecoveryFails

Generator == Setup \/ FetchAtStart \/ First \/ Loop \/ Recover

Environment ==
  Crash \/ AdvanceHead \/ Tick \/ MineAccepted \/ MineReverted \/ Drop

Next == Generator \/ Environment

Spec == Init /\ [][Next]_vars

(***************************************************************************)
(* The event loop runs the process, the source chain grows, and the anchor *)
(* chain mines what pays the high gas price; whether it mines a cheaper    *)
(* transaction is left open.                                               *)
(***************************************************************************)
Fairness ==
  /\ WF_vars(Generator)
  /\ WF_vars(AdvanceHead)
  /\ WF_vars(Minable /\ NextTx.gas = HighGas /\ (MineAccepted \/ MineReverted))

FairSpec == Spec /\ Fairness

-----------------------------------------------------------------------------
(* Properties.                                                             *)

Tx == [begin : Nat, end : Nat, gas : {1, 2}]

ProcessOK ==
  /\ pc \in Locations
  /\ nonce \in Nat \cup {-1} /\ counter \in 0 .. CheckEvery - 1
  /\ begin \in Nat /\ endb \in Int /\ next \in Int
  /\ attempts \in 0 .. RetryLimit - 1

FlagOK == force \in BOOLEAN

ChainOK ==
  /\ head \in Nat /\ clock \in {"before", "at", "after"} /\ faults \in Nat
  /\ mined \in Seq([tx : Tx, ok : BOOLEAN])
  /\ DOMAIN pool \subseteq Nat /\ pool \in [DOMAIN pool -> Tx]
  /\ ledger \in Seq([begin : Nat, end : Nat])

\* Types: what the variables range over, and that nonces, counters and block
\* numbers never turn negative where the code counts on it.
TypeOK == ProcessOK /\ FlagOK /\ ChainOK

\* The generator by itself, even against a contract that takes any epoch,
\* announces each epoch once and in order: blind transactions that are lost,
\* dropped or slow, and the two reads of a recovery, never make it skip or
\* repeat a block.
Contiguous ==
  \A i \in 1 .. Len(ledger) :
    LET before == IF i = 1 THEN BaseEnd ELSE ledger[i - 1].end
    IN  before # 0 => ledger[i].begin = before + 1

\* The contract has no epoch yet.
Unreleased == BaseEnd = 0 /\ ledger = <<>>

AtFirst ==
  pc \in {"first_check", "first_wait", "first_send", "first_receipt", "first_reset"}

(***************************************************************************)
(* Until the contract has an epoch, every send waits for its receipt, and  *)
(* no nonce beyond the next one is used: one transaction at most is on its *)
(* way, so that its epoch can become the first one without a rival.  With  *)
(* settings.ticker_begin_block it can only be the epoch that starts there. *)
(***************************************************************************)
FirstAlone ==
  /\ \A n \in DOMAIN pool : n = TransactionCount /\ pool[n].begin > 0
  /\ \A i \in 1 .. Len(mined) : ~mined[i].ok
  /\ pc # "down" => nonce <= TransactionCount
  /\ pc \in {"down", "fetch"} => counter = 0
  /\ pc \in {"poll", "release"} => ReceiptDue
  /\ pc \in {"release", "receipt"} => next > 0
  /\ pc = "receipt" /\ nonce \in DOMAIN pool => pool[nonce].begin = next
  /\ TickerBegin > 0 =>
       /\ \A n \in DOMAIN pool : pool[n].begin = TickerBegin
       /\ pc \notin {"down", "fetch"} => begin = TickerBegin
       /\ pc \in {"release", "receipt"} => next = TickerBegin

\* First block of the first epoch, and of the epoch that nonce n announces,
\* when nothing is rejected.
FirstBlock  == IF ledger = <<>> THEN BaseEnd + 1 ELSE ledger[1].begin
Position(n) == FirstBlock + n * Height

(***************************************************************************)
(* Why Contiguous holds when no transaction fails on chain and the process *)
(* never waits for a release time: once the contract has an epoch, a       *)
(* nonce, whoever sends it and however often, announces one epoch only.  A *)
(* nonce the process holds is either right for the epoch at hand, or       *)
(* already consumed, and then refused.                                     *)
(***************************************************************************)
LedgerAligned ==
  /\ Len(ledger) = TransactionCount
  /\ FirstBlock > 0 /\ (BaseEnd > 0 => FirstBlock = BaseEnd + 1)
  /\ \A i \in 1 .. Len(ledger) :
       ledger[i].begin = Position(i - 1) /\ ledger[i].end + 1 = Position(i)

PoolAligned ==
  \A n \in DOMAIN pool : n >= TransactionCount /\ pool[n].begin = Position(n)

ProcessAligned ==
  /\ pc = "poll" =>
       /\ BaseEnd > 0 \/ TickerBegin > 0 => begin > 0
       /\ nonce < TransactionCount \/ begin = Position(nonce)
  /\ pc = "release" => next > 0 /\ (nonce < TransactionCount \/ next = Position(nonce))
  /\ pc = "receipt" => next > 0 /\ next = Position(nonce)
  /\ pc \in {"fetch", "failed_epoch", "error_epoch"} => nonce <= TransactionCount

Aligned ==
  /\ LedgerAligned /\ ~AtFirst
  /\ IF Unreleased THEN FirstAlone ELSE PoolAligned /\ ProcessAligned

SettledEpoch(e) == e.end - e.begin + 1 = Height /\ e.end <= head - Offset

\* Every epoch the generator announces, pending or accepted, has the
\* configured size and stays head_offset blocks behind the source chain,
\* however far behind the node that answered was.
SentSettled ==
  /\ \A n \in DOMAIN pool : SettledEpoch(pool[n])
  /\ \A i \in 1 .. Len(ledger) : SettledEpoch(ledger[i])

\* What makes it inductive: the epoch at hand, at each place in the code.
Shape ==
  /\ pc # "down" => nonce \in Nat
  /\ pc \in {"first_send", "first_receipt", "first_reset"} =>
       endb = next + Height - 1 /\ endb <= head - Offset
  /\ pc = "first_receipt" => next >= 0
  /\ pc \in {"release", "receipt"} =>
       0 <= next /\ next <= endb + 1 /\ endb <= head - Offset
  /\ pc = "receipt" => FullChunk

SettledInv == TypeOK /\ Shape /\ SentSettled

\* What the generator believes released and the contract does not know is
\* bounded by the blind transactions between two receipts.
BoundedDrift ==
  pc = "release" /\ FullChunk /\ CurrentEnd # 0
    => next - (CurrentEnd + 1) <= (CheckEvery - 1) * Height

\* As long as the node drops nothing, the pending nonces leave no gap, so
\* that every transaction sent can be mined.
NonceGapFree ==
  \A n \in DOMAIN pool : \A m \in TransactionCount .. n : m \in DOMAIN pool

\* A transaction handed to the node announces an epoch the contract does not
\* have at that moment, whatever the contract rejected before.
NoResubmission ==
  [][\A n \in DOMAIN pool' :
        (n \notin DOMAIN pool \/ pool'[n] # pool[n])
          => pool'[n].begin > CurrentEnd]_vars

\* The contract catches up with the source chain, but for the epochs of the
\* blind transactions since the last receipt: a rejected, dropped or stuck
\* transaction is noticed and made good.
CatchUp == <>[](CurrentEnd + CheckEvery * Height > MaxHead - Offset)
=============================================================================
