------------------------ MODULE EpochGeneratorProofs ------------------------
(***************************************************************************)
(* What EpochGenerator guarantees for every value of its constants.        *)
(***************************************************************************)
EXTENDS EpochGenerator, SequenceTheorems, TLAPS

-----------------------------------------------------------------------------
(* Lemmas about the operators of the model.                                *)

\* The release counter, kept modulo CheckEvery, stays in range.
LEMMA CountedInRange ==
  ASSUME counter \in 0 .. CheckEvery - 1
  PROVE  Counted \in 0 .. CheckEvery - 1
  BY GeneratorAssumption DEF Counted

\* A chunk of full size ends Height - 1 blocks after its first block.
LEMMA FullChunkEnd ==
  ASSUME FullChunk, next \in Int, endb \in Int
  PROVE  ChunkEnd = next + Height - 1 /\ ChunkEnd <= endb
  BY LedgerAssumption DEF FullChunk, ChunkEnd

\* The end of the current epoch is a block number.
LEMMA CurrentEndNat ==
  ASSUME ledger \in Seq([begin : Nat, end : Nat])
  PROVE  CurrentEnd \in Nat
<1>1. CASE ledger = <<>>
  BY <1>1, LedgerAssumption DEF CurrentEnd
<1>2. CASE ledger # <<>>
  <2>1. Len(ledger) \in 1 .. Len(ledger)
    BY <1>2, EmptySeq
  <2>2. ledger[Len(ledger)] \in [begin : Nat, end : Nat]
    BY <2>1, ElementOfSeq
  <2>. QED  BY <1>2, <2>2 DEF CurrentEnd
<1>. QED  BY <1>1, <1>2

\* _fetch_epoch_from_contract never yields a negative first block.
LEMMA EpochFromContractNat ==
  ASSUME ChainOK, NEW default \in Nat
  PROVE  EpochFromContract(default) \in Nat
  BY CurrentEndNat DEF ChainOK, EpochFromContract

\* An answer about the head is a block, and not ahead of the chain.
LEMMA ObservedHeadsBehind ==
  ASSUME head \in Nat, NEW h \in ObservedHeads
  PROVE  LastBlock(h) \in Int /\ LastBlock(h) <= head - Offset
  BY LedgerAssumption, GeneratorAssumption DEF ObservedHeads, LastBlock

-----------------------------------------------------------------------------
(* The chains: what a step of each kind does to ChainOK and SentSettled.   *)

\* A step of the process that sends nothing.
LEMMA ChainsUntouched ==
  ASSUME ChainOK, SentSettled,
         UNCHANGED <<chainVars, envVars>>, faults' \in Nat
  PROVE  ChainOK' /\ SentSettled'
  BY DEF ChainOK, SentSettled, SettledEpoch, chainVars, envVars

\* A fault is counted.
LEMMA FaultCounted ==
  ASSUME ChainOK, NEW kind, Fault(kind) \/ UNCHANGED faults
  PROVE  faults' \in Nat
  BY DEF ChainOK, Fault

\* A settled transaction handed to the node.
LEMMA ChainsAfterSend ==
  ASSUME ChainOK, SentSettled, NEW n \in Nat,
         NEW tx \in [begin : Int, end : Int, gas : {1, 2}],
         tx.end = tx.begin + Height - 1, tx.end <= head - Offset,
         NEW answer, Send(n, tx, answer), UNCHANGED envVars
  PROVE  ChainOK' /\ SentSettled'
<1>1. faults' \in Nat
  BY DEF Send, ChainOK, Fault
<1>2. CASE UNCHANGED pool
  BY <1>1, <1>2, ChainsUntouched DEF Send, chainVars
<1>3. CASE Accept(n, tx)
  <2>1. tx \in Tx /\ SettledEpoch(tx)
    BY <1>3, LedgerAssumption DEF Accept, Tx, SettledEpoch, ChainOK
  <2>2. pool' = [m \in DOMAIN pool \cup {n} |-> IF m = n THEN tx ELSE pool[m]]
    BY <1>3 DEF Accept, Submit
  <2>3. DOMAIN pool' = DOMAIN pool \cup {n}
    BY <2>2
  <2>4. \A m \in DOMAIN pool' : pool'[m] = IF m = n THEN tx ELSE pool[m]
    BY <2>2
  <2>5. \A m \in DOMAIN pool : pool[m] \in Tx
    BY DEF ChainOK
  <2>6. DOMAIN pool' \subseteq Nat /\ pool' \in [DOMAIN pool' -> Tx]
    BY <2>1, <2>2, <2>3, <2>5 DEF ChainOK
  <2>7. \A m \in DOMAIN pool' : SettledEpoch(pool'[m])
    BY <2>1, <2>3, <2>4 DEF SentSettled
  <2>. QED
    BY <1>1, <2>6, <2>7 DEF Send, ChainOK, SentSettled, SettledEpoch, envVars
<1>. QED  BY <1>2, <1>3 DEF Send

\* The first pending transaction is mined.
LEMMA MinedTx ==
  ASSUME ChainOK, NEW ok \in BOOLEAN, Mine(ok)
  PROVE  /\ mined' \in Seq([tx : Tx, ok : BOOLEAN])
         /\ DOMAIN pool' \subseteq DOMAIN pool
         /\ \A m \in DOMAIN pool' : pool'[m] = pool[m]
         /\ pool' \in [DOMAIN pool' -> Tx]
         /\ NextTx \in Tx
         /\ TransactionCount \in DOMAIN pool
<1>1. TransactionCount \in DOMAIN pool /\ NextTx \in Tx
  BY DEF Mine, Minable, NextTx, ChainOK
<1>2. [tx |-> NextTx, ok |-> ok] \in [tx : Tx, ok : BOOLEAN]
  BY <1>1
<1>3. mined' \in Seq([tx : Tx, ok : BOOLEAN])
  BY <1>2, AppendProperties DEF Mine, ChainOK
<1>4. pool' = [m \in DOMAIN pool \ {TransactionCount} |-> pool[m]]
  BY DEF Mine, Restrict
<1>. QED  BY <1>1, <1>3, <1>4 DEF ChainOK

\* An accepted epoch was settled when it was sent, and the head only grew.
LEMMA ChainsAfterMineAccepted ==
  ASSUME ChainOK, SentSettled, MineAccepted
  PROVE  ChainOK' /\ SentSettled'
<1> DEFINE e == [begin |-> NextTx.begin, end |-> NextTx.end]
<1>1. /\ mined' \in Seq([tx : Tx, ok : BOOLEAN])
      /\ DOMAIN pool' \subseteq DOMAIN pool
      /\ \A m \in DOMAIN pool' : pool'[m] = pool[m]
      /\ pool' \in [DOMAIN pool' -> Tx]
      /\ NextTx \in Tx
      /\ TransactionCount \in DOMAIN pool
  BY MinedTx DEF MineAccepted
<1>2. ledger' = Append(ledger, e) /\ UNCHANGED <<envVars, faults>>
  BY DEF MineAccepted
<1>3. e \in [begin : Nat, end : Nat] /\ SettledEpoch(e)
  BY <1>1 DEF Tx, SentSettled, SettledEpoch, NextTx
<1>4. ChainOK'
  BY <1>1, <1>2, <1>3, AppendProperties DEF ChainOK, envVars
<1>5. \A n \in DOMAIN pool' : SettledEpoch(pool'[n])
  BY <1>1 DEF SentSettled
<1>6. ASSUME NEW i \in 1 .. Len(ledger') PROVE SettledEpoch(ledger'[i])
  BY <1>2, <1>3, AppendProperties DEF SentSettled, ChainOK
<1>. QED
  BY <1>2, <1>4, <1>5, <1>6 DEF SentSettled, SettledEpoch, envVars

\* A reverted transaction leaves the pool and adds no epoch.
LEMMA ChainsAfterMineReverted ==
  ASSUME ChainOK, SentSettled, MineReverted
  PROVE  ChainOK' /\ SentSettled'
<1>1. /\ mined' \in Seq([tx : Tx, ok : BOOLEAN])
      /\ DOMAIN pool' \subseteq DOMAIN pool
      /\ \A m \in DOMAIN pool' : pool'[m] = pool[m]
      /\ pool' \in [DOMAIN pool' -> Tx]
  BY MinedTx DEF MineReverted
<1>2. UNCHANGED <<ledger, envVars>>
  BY DEF MineReverted
<1>3. faults' \in Nat
  BY DEF MineReverted, ChainOK, Fault
<1>. QED
  BY <1>1, <1>2, <1>3 DEF ChainOK, SentSettled, SettledEpoch, envVars

\* A dropped transaction leaves the pool.
LEMMA ChainsAfterDrop ==
  ASSUME ChainOK, SentSettled, Drop
  PROVE  ChainOK' /\ SentSettled'
<1>1. PICK n \in DOMAIN pool : Evict(n)
  BY DEF Drop
<1>2. pool' = [m \in DOMAIN pool \ {n} |-> pool[m]] /\ UNCHANGED mined
  BY <1>1 DEF Evict, Restrict
<1>3. UNCHANGED <<ledger, envVars>> /\ faults' \in Nat
  BY DEF Drop, ChainOK, Fault
<1>. QED
  BY <1>2, <1>3 DEF ChainOK, SentSettled, SettledEpoch, envVars

\* What is settled stays so when the head grows.
LEMMA ChainsAfterAdvanceHead ==
  ASSUME ChainOK, SentSettled, AdvanceHead
  PROVE  ChainOK' /\ SentSettled'
<1>1. head' = head + 1 /\ UNCHANGED <<chainVars, clock, faults>>
  BY DEF AdvanceHead
<1>2. head \in Nat /\ Offset \in Nat
  BY LedgerAssumption DEF ChainOK
<1>3. ChainOK'
  BY <1>1, <1>2 DEF ChainOK, chainVars
<1>4. ASSUME NEW n \in DOMAIN pool PROVE SettledEpoch(pool[n])'
  <2>1. pool[n].end \in Nat /\ SettledEpoch(pool[n])
    BY DEF ChainOK, SentSettled, Tx
  <2>. QED  BY <1>1, <1>2, <2>1 DEF SettledEpoch, chainVars
<1>5. ASSUME NEW i \in 1 .. Len(ledger) PROVE SettledEpoch(ledger[i])'
  <2>1. ledger[i] \in [begin : Nat, end : Nat] /\ SettledEpoch(ledger[i])
    BY ElementOfSeq DEF ChainOK, SentSettled
  <2>. QED  BY <1>1, <1>2, <2>1 DEF SettledEpoch, chainVars
<1>. QED  BY <1>1, <1>3, <1>4, <1>5 DEF SentSettled, chainVars

\* Time does not touch the chains.
LEMMA ChainsAfterTick ==
  ASSUME ChainOK, SentSettled, Tick
  PROVE  ChainOK' /\ SentSettled'
  BY DEF Tick, ChainOK, SentSettled, SettledEpoch, chainVars

-----------------------------------------------------------------------------
(* The process: the locals stay well-typed and in shape.                   *)

\* A restart clears the locals.
LEMMA ExitShape ==
  ASSUME Exit
  PROVE  ProcessOK' /\ Shape'
<1>1. ProcessOK'
  BY GeneratorAssumption DEF Exit, ProcessOK, Locations
<1>2. Shape'
  BY DEF Exit, Shape
<1>. QED  BY <1>1, <1>2

\* A block that is head_offset behind the head stays so while the head grows.
LEMMA StaysSettled ==
  ASSUME NEW b \in Int, NEW h \in Int, NEW k \in Int, k >= h, b <= h - Offset
  PROVE  b <= k - Offset
  BY LedgerAssumption

\* A step of the environment keeps them, for the head never moves back.
LEMMA LocalsUntouched ==
  ASSUME ProcessOK, Shape, UNCHANGED <<pc, localVars>>,
         head \in Nat, head' \in Nat, head' >= head
  PROVE  ProcessOK' /\ Shape'
<1>1. FullChunk' <=> FullChunk
  BY DEF FullChunk, ChunkEnd, localVars
<1>2. endb <= head - Offset => endb <= head' - Offset
  <2>1. endb \in Int
    BY DEF ProcessOK
  <2>. QED  BY <2>1, StaysSettled
<1>. QED  BY <1>1, <1>2 DEF ProcessOK, Shape, localVars

\* An attempt of _release_epoch_with_retry that failed.
LEMMA FailAttemptShape ==
  ASSUME ProcessOK, Shape, UNCHANGED head,
         pc \in {"first_send", "first_receipt", "first_reset"},
         NEW n \in Nat, NEW c \in 0 .. CheckEvery - 1, NEW f \in BOOLEAN,
         FailAttempt(n, c, f)
  PROVE  ProcessOK' /\ Shape'
<1>1. CASE Exit
  BY <1>1, ExitShape
<1>2. CASE /\ attempts + 1 < RetryLimit
           /\ pc' = "first_send" /\ attempts' = attempts + 1
           /\ nonce' = n /\ counter' = c /\ force' = f
           /\ UNCHANGED <<begin, endb, next>>
  BY <1>2, GeneratorAssumption DEF ProcessOK, Shape, Locations
<1>. QED  BY <1>1, <1>2 DEF FailAttempt

\* The steps of the start, one by one.
LEMMA StartShape ==
  ASSUME ProcessOK, ChainOK, Shape, Setup \/ FetchAtStart
  PROVE  ProcessOK' /\ Shape'
<1>1. TransactionCount \in Nat
  BY LenProperties DEF TransactionCount, ChainOK
<1>2. EpochFromContract(TickerBegin) \in Nat
  BY EpochFromContractNat, GeneratorAssumption
<1>3. CASE Setup
  BY <1>1, <1>3 DEF Setup, ProcessOK, Shape, Locations
<1>4. CASE FetchAtStart /\ Exit
  BY <1>4, ExitShape
<1>5. CASE FetchAtStart /\ ~Exit
  <2>1. /\ pc = "fetch" /\ pc' \in {"first_check", "poll"}
        /\ begin' = EpochFromContract(TickerBegin)
        /\ UNCHANGED <<nonce, counter, endb, next, attempts>>
    BY <1>5 DEF FetchAtStart
  <2>. QED  BY <1>2, <2>1 DEF ProcessOK, Shape, Locations
<1>. QED  BY <1>3, <1>4, <1>5

\* The first epoch, from the wait for its time to its receipt.
LEMMA FirstDoneShape ==
  ASSUME ProcessOK, Shape, FirstDone,
         counter' \in 0 .. CheckEvery - 1, nonce' \in Nat, endb = next + Height - 1, next >= 0
  PROVE  ProcessOK' /\ Shape'
  BY LedgerAssumption, GeneratorAssumption
     DEF FirstDone, ProcessOK, Shape, Locations

\* The first epoch ends where the head offset allows.
LEMMA FirstHeadShape ==
  ASSUME ProcessOK, ChainOK, Shape, FirstCheck \/ FirstHead
  PROVE  ProcessOK' /\ Shape'
<1>1. CASE Exit
  BY <1>1, ExitShape
<1>2. CASE FirstCheck /\ ~Exit
  BY <1>2 DEF FirstCheck, localVars, ProcessOK, Shape, Locations
<1>3. CASE FirstHead /\ ~Exit
  <2>1. PICK h \in ObservedHeads :
           /\ endb' = LastBlock(h) /\ next' = LastBlock(h) - Height + 1
           /\ pc = "first_wait" /\ pc' = "first_send"
           /\ UNCHANGED <<nonce, counter, begin, attempts, head>>
    BY <1>3 DEF FirstHead, envVars
  <2>2. LastBlock(h) \in Int /\ LastBlock(h) <= head - Offset
    BY ObservedHeadsBehind DEF ChainOK
  <2>. QED  BY <2>1, <2>2, LedgerAssumption DEF ProcessOK, Shape, Locations
<1>. QED  BY <1>1, <1>2, <1>3
\* Sending the first epoch keeps the epoch at hand, or moves to the main loop after it.
LEMMA FirstSendShape ==
  ASSUME ProcessOK, FlagOK, Shape, FirstSend
  PROVE  ProcessOK' /\ Shape'
<1>1. /\ pc = "first_send" /\ UNCHANGED head
      /\ nonce \in Nat /\ endb = next + Height - 1 /\ endb <= head - Offset
  BY DEF FirstSend, envVars, Shape
<1>2. Counted \in 0 .. CheckEvery - 1
  BY CountedInRange DEF ProcessOK
<1>3. PICK answer \in Errors \cup {"ok"} :
         /\ Send(nonce, FirstTx, answer)
         /\ \/ /\ answer \in {"ok", "nonce"}
               /\ pc' = IF answer = "ok" THEN "first_receipt" ELSE "first_reset"
               /\ counter' = Counted
               /\ UNCHANGED <<nonce, force, begin, endb, next, attempts>>
            \/ /\ answer = "underpriced"
               /\ FirstDone
               /\ counter' = Counted
               /\ UNCHANGED <<nonce, force>>
            \/ answer = "other" /\ FailAttempt(nonce, Counted, force)
  BY DEF FirstSend
<1>4. answer # "other" => next >= 0
  BY <1>3 DEF Send, Accept, FirstTx, Transaction
<1>5. CASE /\ answer \in {"ok", "nonce"}
           /\ pc' = IF answer = "ok" THEN "first_receipt" ELSE "first_reset"
           /\ counter' = Counted
           /\ UNCHANGED <<nonce, force, begin, endb, next, attempts>>
  BY <1>1, <1>2, <1>4, <1>5 DEF ProcessOK, Shape, Locations
<1>6. CASE /\ answer = "underpriced" /\ FirstDone
           /\ counter' = Counted /\ UNCHANGED nonce
  BY <1>1, <1>2, <1>4, <1>6, FirstDoneShape
<1>7. CASE FailAttempt(nonce, Counted, force)
  BY <1>1, <1>2, <1>7, FailAttemptShape DEF FlagOK
<1>. QED  BY <1>3, <1>5, <1>6, <1>7

\* So do its receipt and the reset of the nonce.
LEMMA FirstReceiptShape ==
  ASSUME ProcessOK, FlagOK, ChainOK, Shape, FirstReceipt \/ FirstReset
  PROVE  ProcessOK' /\ Shape'
<1>1. /\ pc \in {"first_receipt", "first_reset"} /\ UNCHANGED head
      /\ nonce \in Nat /\ endb = next + Height - 1
      /\ pc = "first_receipt" => next >= 0
      /\ counter \in 0 .. CheckEvery - 1
  BY DEF FirstReceipt, FirstReset, envVars, Shape, ProcessOK
<1>2. TransactionCount \in Nat
  BY LenProperties DEF TransactionCount, ChainOK
<1>3. CASE FirstDone /\ pc = "first_receipt" /\ nonce' = nonce + 1 /\ UNCHANGED counter
  BY <1>1, <1>3, FirstDoneShape
<1>4. CASE \/ FailAttempt(nonce + 1, counter, FALSE)
           \/ FailAttempt(nonce, counter, force)
           \/ FailAttempt(nonce, counter, TRUE)
           \/ FailAttempt(TransactionCount, counter, TRUE)
  <2>1. nonce + 1 \in Nat
    BY <1>1
  <2>. QED  BY <1>1, <1>2, <1>4, <2>1, FailAttemptShape DEF FlagOK
<1>5. CASE FirstReceipt /\ pc' = "first_reset" /\ UNCHANGED localVars
  BY <1>1, <1>5 DEF ProcessOK, Shape, Locations, localVars
<1>. QED  BY <1>3, <1>4, <1>5 DEF FirstReceipt, FirstReset

\* The main loop.
LEMMA PollShape ==
  ASSUME ProcessOK, ChainOK, Shape, SetBegin \/ PollIdle \/ StartChunks
  PROVE  ProcessOK' /\ Shape'
<1>1. CASE PollIdle
  BY <1>1 DEF PollIdle, vars, localVars, ProcessOK, Shape, Locations
<1>2. CASE SetBegin
  BY <1>2 DEF SetBegin, ObservedHeads, ProcessOK, Shape, Locations
<1>3. CASE StartChunks
  <2>1. PICK h \in ObservedHeads :
           LastBlock(h) - begin + 1 >= Height /\ endb' = LastBlock(h)
    BY <1>3 DEF StartChunks
  <2>2. LastBlock(h) \in Int /\ LastBlock(h) <= head - Offset
    BY ObservedHeadsBehind DEF ChainOK
  <2>3. next' = begin /\ pc = "poll" /\ pc' = "release"
        /\ UNCHANGED <<nonce, counter, begin, attempts, head>>
    BY <1>3 DEF StartChunks, envVars
  <2>. QED  BY <2>1, <2>2, <2>3, LedgerAssumption DEF ProcessOK, Shape, Locations
<1>. QED  BY <1>1, <1>2, <1>3

\* Back to waiting for blocks there is no epoch at hand.
LEMMA LeaveChunksShape ==
  ASSUME ProcessOK, Shape, NEW b \in Nat, LeaveChunks(b),
         UNCHANGED <<counter, attempts>>, nonce' \in Nat
  PROVE  ProcessOK' /\ Shape'
  BY DEF LeaveChunks, ProcessOK, Shape, Locations

\* The two regular ends of the chunking.
LEMMA ChunksShape ==
  ASSUME ProcessOK, Shape, SkipPartial \/ ChunksDone
  PROVE  ProcessOK' /\ Shape'
<1>1. /\ next \in Nat /\ endb + 1 \in Nat /\ nonce' \in Nat
      /\ UNCHANGED <<counter, attempts>>
  BY DEF SkipPartial, ChunksDone, ProcessOK, Shape
<1>. QED  BY <1>1, LeaveChunksShape DEF SkipPartial, ChunksDone
\* The next chunk begins where the full chunk at hand ended.
LEMMA AdvanceShape ==
  ASSUME ProcessOK, Shape, Advance, FullChunk, pc \in {"release", "receipt"},
         counter' \in 0 .. CheckEvery - 1,
         UNCHANGED <<begin, endb, attempts, head>>
  PROVE  ProcessOK' /\ Shape'
<1>1. ChunkEnd = next + Height - 1 /\ ChunkEnd <= endb
  BY FullChunkEnd DEF ProcessOK
<1>. QED
  BY <1>1, LedgerAssumption DEF Advance, ProcessOK, Shape, Locations

\* Only a full chunk is sent.
LEMMA ReleaseShape ==
  ASSUME ProcessOK, Shape, BlindRelease \/ ReleaseWithReceipt
  PROVE  ProcessOK' /\ Shape'
<1>1. /\ pc = "release" /\ FullChunk /\ counter' = Counted
      /\ UNCHANGED <<begin, endb, attempts, head>>
  BY DEF BlindRelease, ReleaseWithReceipt, envVars
<1>2. Counted \in 0 .. CheckEvery - 1
  BY CountedInRange DEF ProcessOK
<1>3. \/ Advance
      \/ pc' \in {"receipt", "error_nonce"} /\ UNCHANGED <<nonce, next>>
  BY DEF BlindRelease, ReleaseWithReceipt
<1>4. CASE Advance
  BY <1>1, <1>2, <1>4, AdvanceShape
<1>5. CASE pc' \in {"receipt", "error_nonce"} /\ UNCHANGED <<nonce, next>>
  <2>1. FullChunk'
    BY <1>1, <1>5 DEF FullChunk, ChunkEnd
  <2>. QED  BY <1>1, <1>2, <1>5, <2>1 DEF ProcessOK, Shape, Locations
<1>. QED  BY <1>3, <1>4, <1>5

\* After a receipt the next chunk starts where the last one ended.
LEMMA ReceiptShape ==
  ASSUME ProcessOK, Shape,
         ReceiptConfirmed \/ ReceiptRejected \/ ReceiptMissing
  PROVE  ProcessOK' /\ Shape'
<1>1. CASE ReceiptConfirmed
  <2>1. /\ pc = "receipt" /\ FullChunk /\ Advance
        /\ counter' \in 0 .. CheckEvery - 1
        /\ UNCHANGED <<begin, endb, attempts, head>>
    BY <1>1 DEF ReceiptConfirmed, Shape, ProcessOK, envVars
  <2>. QED  BY <2>1, AdvanceShape
<1>2. CASE ReceiptRejected \/ ReceiptMissing
  BY <1>2 DEF ReceiptRejected, ReceiptMissing, localVars, ProcessOK, Shape, Locations
<1>. QED  BY <1>1, <1>2

\* The recoveries read a nonce and a first block that are natural numbers.
LEMMA RecoverShape ==
  ASSUME ProcessOK, ChainOK, Shape,
         RecoverNonce \/ RecoverEpoch \/ RecoveryFails
  PROVE  ProcessOK' /\ Shape'
<1>1. CASE RecoverNonce
  <2>1. TransactionCount \in Nat
    BY LenProperties DEF TransactionCount, ChainOK
  <2>. QED
    BY <1>1, <2>1 DEF RecoverNonce, NonceFromChain, ProcessOK, Shape, Locations
<1>2. CASE RecoverEpoch
  <2>1. EpochFromContract(begin) \in Nat
    BY EpochFromContractNat DEF ProcessOK
  <2>2. LeaveChunks(EpochFromContract(begin)) /\ UNCHANGED <<counter, attempts>>
        /\ nonce' \in Nat
    BY <1>2 DEF RecoverEpoch, Shape
  <2>. QED  BY <2>1, <2>2, LeaveChunksShape
<1>3. CASE RecoveryFails /\ Exit
  BY <1>3, ExitShape
<1>4. CASE RecoveryFails /\ ~Exit
  BY <1>4 DEF RecoveryFails, localVars, ProcessOK, Shape, Locations
<1>. QED  BY <1>1, <1>2, <1>3, <1>4

-----------------------------------------------------------------------------
(* Every transaction sent announces a settled epoch.                       *)

\* The first epoch, when sent, is settled.
LEMMA FirstSendChains ==
  ASSUME SettledInv, FirstSend
  PROVE  ChainOK' /\ SentSettled'
<1>1. /\ nonce \in Nat /\ next \in Int /\ endb \in Int
      /\ endb = next + Height - 1 /\ endb <= head - Offset
      /\ ChainOK /\ SentSettled
  BY DEF SettledInv, TypeOK, ProcessOK, Shape, FirstSend
<1>2. /\ FirstTx \in [begin : Int, end : Int, gas : {1, 2}]
      /\ FirstTx.begin = next /\ FirstTx.end = endb
  BY <1>1 DEF FirstTx, Transaction, Gas
<1>3. PICK answer : Send(nonce, FirstTx, answer) /\ UNCHANGED envVars
  BY DEF FirstSend
<1>. QED  BY <1>1, <1>2, <1>3, ChainsAfterSend

\* A chunk, when sent at either gas price, is settled.
LEMMA ChunkSentChains ==
  ASSUME SettledInv, pc = "release", FullChunk, NEW answer, NEW f,
         Send(nonce, Transaction(Chunk, Gas(f)), answer), UNCHANGED envVars
  PROVE  ChainOK' /\ SentSettled'
<1>1. ProcessOK /\ ChainOK /\ Shape /\ SentSettled
  BY DEF SettledInv, TypeOK
<1>2. nonce \in Nat /\ next \in Int /\ endb \in Int /\ endb <= head - Offset
  BY <1>1 DEF ProcessOK, Shape
<1>3. ChunkEnd = next + Height - 1 /\ ChunkEnd <= endb /\ ChunkEnd \in Int
  BY <1>2, FullChunkEnd, LedgerAssumption
<1>4. head \in Int /\ ChunkEnd <= head - Offset
  BY <1>1, <1>2, <1>3, LedgerAssumption DEF ChainOK
<1> DEFINE tx == Transaction(Chunk, Gas(f))
<1>5. /\ tx \in [begin : Int, end : Int, gas : {1, 2}]
      /\ tx.begin = next /\ tx.end = ChunkEnd
  BY <1>2, <1>3 DEF Transaction, Chunk, Gas
<1>6. Send(nonce, tx, answer)
  OBVIOUS
<1> HIDE DEF tx
<1>. QED  BY <1>1, <1>2, <1>3, <1>4, <1>5, <1>6, ChainsAfterSend

\* So both kinds of release keep what is pending settled.
LEMMA ReleaseChains ==
  ASSUME SettledInv, BlindRelease \/ ReleaseWithReceipt
  PROVE  ChainOK' /\ SentSettled'
<1>1. pc = "release" /\ FullChunk /\ UNCHANGED envVars
  BY DEF BlindRelease, ReleaseWithReceipt
<1>2. CASE BlindRelease
  <2>1. PICK answer : Send(nonce, Transaction(Chunk, Gas(FALSE)), answer)
    BY <1>2 DEF BlindRelease
  <2>. QED  BY <1>1, <2>1, ChunkSentChains
<1>3. CASE ReleaseWithReceipt
  <2>1. PICK answer : Send(nonce, Transaction(Chunk, Gas(force)), answer)
    BY <1>3 DEF ReleaseWithReceipt
  <2>. QED  BY <1>1, <2>1, ChunkSentChains
<1>. QED  BY <1>2, <1>3

\* The other steps of the process send nothing.
LEMMA SilentChains ==
  ASSUME SettledInv,
         \/ Setup \/ FetchAtStart
         \/ FirstCheck \/ FirstHead \/ FirstReceipt \/ FirstReset
         \/ SetBegin \/ PollIdle \/ StartChunks \/ SkipPartial \/ ChunksDone
         \/ ReceiptConfirmed \/ ReceiptRejected \/ ReceiptMissing
         \/ Recover \/ Crash
  PROVE  ChainOK' /\ SentSettled'
<1>1. ChainOK /\ SentSettled
  BY DEF SettledInv, TypeOK
<1>2. UNCHANGED <<chainVars, envVars>> /\ (UNCHANGED faults \/ \E kind : Fault(kind))
  <2>1. CASE Setup \/ FetchAtStart \/ FirstCheck \/ FirstHead
    BY <2>1 DEF Setup, FetchAtStart, FirstCheck, FirstHead
  <2>2. CASE FirstReceipt \/ FirstReset
    BY <2>2 DEF FirstReceipt, FirstReset
  <2>3. CASE SetBegin \/ PollIdle \/ StartChunks \/ SkipPartial \/ ChunksDone
    BY <2>3 DEF SetBegin, PollIdle, StartChunks, SkipPartial, ChunksDone, vars
  <2>4. CASE ReceiptConfirmed \/ ReceiptRejected \/ ReceiptMissing
    BY <2>4 DEF ReceiptConfirmed, ReceiptRejected, ReceiptMissing
  <2>5. CASE Recover \/ Crash
    BY <2>5 DEF Recover, RecoverNonce, RecoverEpoch, RecoveryFails, Crash
  <2>. QED  BY <2>1, <2>2, <2>3, <2>4, <2>5
<1>3. faults' \in Nat
  BY <1>1, <1>2, FaultCounted
<1>. QED  BY <1>1, <1>2, <1>3, ChainsUntouched

\* _force_tx stays a flag.
LEMMA FlagStays ==
  ASSUME FlagOK, [Next]_vars
  PROVE  FlagOK'
<1>1. UNCHANGED force \/ force' = TRUE \/ force' = FALSE
  <2>1. CASE Setup \/ FetchAtStart \/ Recover
    BY <2>1 DEF Setup, FetchAtStart, Exit, Recover, RecoverNonce, RecoverEpoch,
                RecoveryFails, localVars
  <2>2. CASE First
    BY <2>2 DEF First, FirstCheck, FirstHead, FirstSend, FirstReceipt, FirstReset,
                FailAttempt, Exit, localVars
  <2>3. CASE Loop
    BY <2>3 DEF Loop, SetBegin, PollIdle, StartChunks, SkipPartial, ChunksDone,
                BlindRelease, ReleaseWithReceipt, ReceiptConfirmed,
                ReceiptRejected, ReceiptMissing, localVars, vars
  <2>4. CASE Environment \/ UNCHANGED vars
    BY <2>4 DEF Environment, Crash, AdvanceHead, Tick, MineAccepted, MineReverted,
                Drop, Exit, localVars, vars
  <2>. QED  BY <2>1, <2>2, <2>3, <2>4 DEF Next, Generator
<1>. QED  BY <1>1 DEF FlagOK

-----------------------------------------------------------------------------
(* The induction.                                                          *)

\* Initially nothing is pending or accepted.
LEMMA SettledInvInit == Init => SettledInv
<1> SUFFICES ASSUME Init PROVE SettledInv
  OBVIOUS
<1>1. ProcessOK /\ Shape
  BY GeneratorAssumption DEF Init, ProcessOK, Shape, Locations
<1>2. FlagOK
  BY DEF Init, FlagOK
<1>3. ChainOK /\ SentSettled
  <2>1. ledger = <<>> /\ mined = <<>> /\ DOMAIN pool = {}
    BY DEF Init, AccountInit
  <2>2. /\ mined \in Seq([tx : Tx, ok : BOOLEAN])
        /\ ledger \in Seq([begin : Nat, end : Nat])
        /\ Len(ledger) = 0
    BY <2>1, EmptySeq
  <2>3. pool \in [DOMAIN pool -> Tx]
    BY <2>1 DEF Init, AccountInit
  <2>. QED
    BY <2>1, <2>2, <2>3, GeneratorAssumption DEF Init, ChainOK, SentSettled
<1>. QED  BY <1>1, <1>2, <1>3 DEF SettledInv, TypeOK

\* Every step keeps SettledInv: one case per action.
LEMMA SettledInvStep == SettledInv /\ [Next]_vars => SettledInv'
<1> SUFFICES ASSUME SettledInv, [Next]_vars PROVE SettledInv'
  OBVIOUS
<1>1. ProcessOK /\ FlagOK /\ ChainOK /\ Shape /\ SentSettled
  BY DEF SettledInv, TypeOK
<1>2. FlagOK'
  BY <1>1, FlagStays
<1>3. CASE Setup \/ FetchAtStart
  BY <1>1, <1>2, <1>3, StartShape, SilentChains DEF SettledInv, TypeOK
<1>4. CASE FirstCheck \/ FirstHead
  BY <1>1, <1>2, <1>4, FirstHeadShape, SilentChains DEF SettledInv, TypeOK
<1>5. CASE FirstSend
  BY <1>1, <1>2, <1>5, FirstSendShape, FirstSendChains DEF SettledInv, TypeOK
<1>6. CASE FirstReceipt \/ FirstReset
  BY <1>1, <1>2, <1>6, FirstReceiptShape, SilentChains DEF SettledInv, TypeOK
<1>7. CASE SetBegin \/ PollIdle \/ StartChunks
  BY <1>1, <1>2, <1>7, PollShape, SilentChains DEF SettledInv, TypeOK
<1>8. CASE SkipPartial \/ ChunksDone
  BY <1>1, <1>2, <1>8, ChunksShape, SilentChains DEF SettledInv, TypeOK
<1>9. CASE BlindRelease \/ ReleaseWithReceipt
  BY <1>1, <1>2, <1>9, ReleaseShape, ReleaseChains DEF SettledInv, TypeOK
<1>10. CASE ReceiptConfirmed \/ ReceiptRejected \/ ReceiptMissing
  BY <1>1, <1>2, <1>10, ReceiptShape, SilentChains DEF SettledInv, TypeOK
<1>11. CASE Recover
  BY <1>1, <1>2, <1>11, RecoverShape, SilentChains DEF SettledInv, TypeOK, Recover
<1>12. CASE Crash
  BY <1>1, <1>2, <1>12, ExitShape, SilentChains DEF SettledInv, TypeOK, Crash
<1>13. CASE AdvanceHead \/ Tick \/ MineAccepted \/ MineReverted \/ Drop
  <2>1. ChainOK' /\ SentSettled'
    BY <1>1, <1>13, ChainsAfterAdvanceHead, ChainsAfterTick,
       ChainsAfterMineAccepted, ChainsAfterMineReverted, ChainsAfterDrop
  <2>2. head \in Nat /\ head' \in Nat /\ (head' = head \/ head' = head + 1)
        /\ UNCHANGED <<pc, localVars>>
    BY <1>1, <1>13, <2>1
       DEF AdvanceHead, Tick, MineAccepted, MineReverted, Drop, envVars, ChainOK
  <2>3. ProcessOK' /\ Shape'
    <3>1. head' >= head
      BY <2>2
    <3>. QED  BY <1>1, <2>2, <3>1, LocalsUntouched
  <2>. QED  BY <1>2, <2>1, <2>3 DEF SettledInv, TypeOK
<1>14. CASE UNCHANGED vars
  <2>1. UNCHANGED <<chainVars, envVars, faults, pc, localVars>>
    BY <1>14 DEF vars
  <2>2. faults' \in Nat /\ head \in Nat /\ head' \in Nat /\ head' >= head
    BY <1>1, <2>1 DEF ChainOK, envVars
  <2>. QED
    BY <1>1, <1>2, <2>1, <2>2, ChainsUntouched, LocalsUntouched DEF SettledInv, TypeOK
<1>. QED
  BY <1>3, <1>4, <1>5, <1>6, <1>7, <1>8, <1>9, <1>10, <1>11, <1>12, <1>13, <1>14
     DEF Next, Generator, First, Loop, Environment

\* At every place of the code the epoch at hand is settled, or will be once its
\* chunk is full: what every send relies on, under every fault.
THEOREM SettledInvHolds == Spec => []SettledInv
  BY SettledInvInit, SettledInvStep, PTL DEF Spec

\* Nonces, counters and blocks stay in the range the code relies on.
THEOREM TypeCorrect == Spec => []TypeOK
<1>1. SettledInv => TypeOK
  BY DEF SettledInv
<1>. QED  BY <1>1, SettledInvHolds, PTL

\* Whatever is lost, dropped, rejected or restarted, every epoch announced has
\* the configured size and stays head_offset blocks behind the source chain.
THEOREM AnnouncedSettled == Spec => []SentSettled
<1>1. SettledInv => SentSettled
  BY DEF SettledInv
<1>. QED  BY <1>1, SettledInvHolds, PTL

-----------------------------------------------------------------------------
(* Alignment of nonces and epochs.                                         *)

\* The process never waits for settings.epoch_release_start_timestamp.
NoFirstRelease == BaseEnd > 0 \/ TickerBegin > 0 \/ ~StartSet

\* Once the contract has an epoch, nonces and epochs go together.
InLine == ~Unreleased /\ ~AtFirst /\ LedgerAligned /\ PoolAligned /\ ProcessAligned

\* The first block is a block.
LEMMA FirstBlockNat ==
  ASSUME ChainOK
  PROVE  FirstBlock \in Nat
<1>1. CASE ledger = <<>>
  BY <1>1, LedgerAssumption DEF FirstBlock
<1>2. CASE ledger # <<>>
  <2>1. 1 \in 1 .. Len(ledger)
    BY <1>2, EmptySeq, LenProperties DEF ChainOK
  <2>2. ledger[1] \in [begin : Nat, end : Nat]
    BY <2>1, ElementOfSeq DEF ChainOK
  <2>. QED  BY <1>2, <2>2 DEF FirstBlock
<1>. QED  BY <1>1, <1>2

\* Positions of successive nonces are Height blocks apart.
LEMMA PositionStep ==
  ASSUME ChainOK, NEW n \in Nat
  PROVE  /\ Position(n) \in Nat /\ Position(n) >= FirstBlock
         /\ Position(n + 1) = Position(n) + Height
<1>1. n * Height \in Nat /\ (n + 1) * Height = n * Height + Height
  BY LedgerAssumption
<1>2. PICK f \in Nat : f = FirstBlock
  BY FirstBlockNat
<1>. QED  BY <1>1, <1>2, LedgerAssumption DEF Position

\* The contract's next epoch is the one the next nonce announces.
LEMMA NextPosition ==
  ASSUME ChainOK, LedgerAligned
  PROVE  /\ TransactionCount \in Nat
         /\ CurrentEnd + 1 = Position(TransactionCount)
<1>1. TransactionCount \in Nat
  BY LenProperties DEF TransactionCount, ChainOK
<1>2. CASE ledger = <<>>
  <2>1. TransactionCount = 0 /\ FirstBlock = BaseEnd + 1 /\ CurrentEnd = BaseEnd
    BY <1>2 DEF LedgerAligned, FirstBlock, CurrentEnd
  <2>2. 0 * Height = 0
    BY LedgerAssumption
  <2>. QED  BY <1>1, <2>1, <2>2, LedgerAssumption DEF Position
<1>3. CASE ledger # <<>>
  <2>1. Len(ledger) \in 1 .. Len(ledger)
    BY <1>3, EmptySeq DEF ChainOK
  <2>. QED  BY <1>1, <1>3, <2>1 DEF LedgerAligned, CurrentEnd
<1>. QED  BY <1>1, <1>2, <1>3

\* Aligned epochs lie beyond block 0, and so does what the contract has.
LEMMA ContractHasEpoch ==
  ASSUME ChainOK, LedgerAligned, ~Unreleased
  PROVE  CurrentEnd \in Nat /\ CurrentEnd > 0
<1>1. CurrentEnd \in Nat
  BY CurrentEndNat DEF ChainOK
<1>2. CASE ledger = <<>>
  BY <1>2, LedgerAssumption DEF Unreleased, CurrentEnd
<1>3. CASE ledger # <<>>
  <2>1. TransactionCount \in Nat \ {0}
    BY <1>3, EmptySeq, NextPosition DEF LedgerAligned, ChainOK
  <2>2. PICK m \in Nat : TransactionCount = m + 1
    BY <2>1
  <2>3. /\ CurrentEnd + 1 = Position(m) + Height /\ Position(m) \in Nat
        /\ Position(m) >= FirstBlock
    BY <2>2, NextPosition, PositionStep
  <2>4. Position(m) > 0
    BY <2>3, FirstBlockNat DEF LedgerAligned
  <2>. QED  BY <1>1, <2>3, <2>4, LedgerAssumption
<1>. QED  BY <1>1, <1>2, <1>3

\* With an epoch in the contract, a start or a recovery resumes right after it.
LEMMA Resume ==
  ASSUME ChainOK, LedgerAligned, ~Unreleased, NEW default
  PROVE  /\ EpochFromContract(default) = Position(TransactionCount)
         /\ EpochFromContract(default) > 0
<1>1. CurrentEnd + 1 = Position(TransactionCount)
  BY NextPosition
<1>2. PICK c \in Nat \ {0} : c = CurrentEnd
  BY ContractHasEpoch
<1>. QED  BY <1>1, <1>2 DEF EpochFromContract

\* A transaction that announces the epoch of its nonce.
LEMMA PoolAfterSend ==
  ASSUME PoolAligned, ChainOK, NEW n \in Nat, NEW tx, NEW answer,
         Send(n, tx, answer),
         n < TransactionCount \/ tx.begin = Position(n)
  PROVE  /\ PoolAligned'
         /\ answer = "ok" => n >= TransactionCount /\ tx.begin = Position(n)
<1>1. /\ UNCHANGED mined /\ TransactionCount' = TransactionCount /\ TransactionCount \in Nat
      /\ FirstBlock' = FirstBlock
  BY LenProperties DEF Send, TransactionCount, ChainOK, FirstBlock
<1>2. CASE UNCHANGED pool /\ answer # "ok"
  BY <1>1, <1>2 DEF PoolAligned, Position
<1>3. CASE Accept(n, tx)
  <2>1. n >= TransactionCount /\ tx.begin = Position(n)
    BY <1>1, <1>3 DEF Accept, Acceptable, TooLow
  <2>2. pool' = [m \in DOMAIN pool \cup {n} |-> IF m = n THEN tx ELSE pool[m]]
    BY <1>3 DEF Accept, Submit
  <2>. QED  BY <1>1, <2>1, <2>2 DEF PoolAligned, Position
<1>4. "ok" \notin Refusals(n, tx)
  BY DEF Refusals
<1>. QED  BY <1>2, <1>3, <1>4 DEF Send
\* A step that leaves the chains alone leaves what they hold aligned.
LEMMA ChainsStayAligned ==
  ASSUME InLine, UNCHANGED chainVars
  PROVE  /\ ~Unreleased' /\ LedgerAligned' /\ PoolAligned'
         /\ TransactionCount' = TransactionCount /\ FirstBlock' = FirstBlock
<1>1. TransactionCount' = TransactionCount /\ FirstBlock' = FirstBlock
  BY DEF TransactionCount, FirstBlock, chainVars
<1>. QED
  BY <1>1 DEF InLine, Unreleased, LedgerAligned, PoolAligned, Position, chainVars

\* A process that has ended holds neither a nonce nor an epoch.
LEMMA ExitAligned ==
  ASSUME Exit
  PROVE  ProcessAligned' /\ ~AtFirst'
  BY DEF Exit, ProcessAligned, AtFirst

\* At the start the nonce is read before the epoch, so it is right or consumed.
LEMMA StartAligned ==
  ASSUME SettledInv, InLine, Setup \/ FetchAtStart
  PROVE  InLine'
<1>1. /\ ChainOK /\ LedgerAligned /\ ProcessAligned
      /\ UNCHANGED chainVars /\ ~Unreleased /\ ~Unreleased'
      /\ LedgerAligned' /\ PoolAligned' /\ TransactionCount' = TransactionCount
      /\ FirstBlock' = FirstBlock
  BY ChainsStayAligned DEF SettledInv, TypeOK, InLine, Setup, FetchAtStart
<1>2. TransactionCount \in Nat /\ (pc # "down" => nonce \in Nat)
  BY <1>1, NextPosition DEF SettledInv, Shape
<1>3. CASE Setup
  BY <1>1, <1>2, <1>3 DEF Setup, InLine, ProcessAligned, AtFirst
<1>4. CASE FetchAtStart /\ Exit
  BY <1>1, <1>4, ExitAligned DEF InLine
<1>5. CASE FetchAtStart /\ ~Exit
  <2>1. /\ pc = "fetch" /\ begin' = EpochFromContract(TickerBegin)
        /\ pc' = IF StartSet /\ begin' = 0 THEN "first_check" ELSE "poll"
        /\ nonce' = nonce
    BY <1>5 DEF FetchAtStart
  <2>2. begin' = Position(TransactionCount) /\ begin' > 0
    BY <1>1, <2>1, Resume
  <2>3. pc' = "poll"
    BY <2>1, <2>2
  <2>4. nonce <= TransactionCount
    BY <1>1, <2>1 DEF ProcessAligned
  <2>5. nonce < TransactionCount \/ nonce = TransactionCount
    BY <1>2, <2>1, <2>4
  <2>6. nonce' < TransactionCount' \/ begin' = Position(nonce')
    BY <1>1, <2>1, <2>2, <2>5
  <2>7. begin' = Position(nonce)' \/ nonce' < TransactionCount'
    BY <1>1, <2>6 DEF Position
  <2>. QED  BY <1>1, <2>2, <2>3, <2>7 DEF InLine, ProcessAligned, AtFirst
<1>. QED  BY <1>3, <1>4, <1>5

\* Waiting for blocks and chunking keep the first block of the epoch at hand.
LEMMA LoopAligned ==
  ASSUME SettledInv, InLine,
         SetBegin \/ PollIdle \/ StartChunks \/ SkipPartial \/ ChunksDone
  PROVE  InLine'
<1>1. /\ ProcessAligned /\ UNCHANGED <<chainVars, nonce>> /\ ~Unreleased' /\ ~AtFirst
      /\ LedgerAligned /\ LedgerAligned' /\ PoolAligned'
      /\ TransactionCount' = TransactionCount /\ FirstBlock' = FirstBlock
  BY ChainsStayAligned DEF InLine, SetBegin, PollIdle, StartChunks, SkipPartial,
       ChunksDone, vars, localVars
<1>2. Position(nonce)' = Position(nonce)
  BY <1>1 DEF Position
<1>3. CASE SetBegin
  <2>1. /\ pc = "poll" /\ pc' = "poll" /\ begin = 0
        /\ nonce < TransactionCount \/ begin = Position(nonce)
        /\ ~(BaseEnd > 0 \/ TickerBegin > 0)
    BY <1>1, <1>3 DEF SetBegin, ProcessAligned
  <2>2. nonce \in Nat /\ ChainOK
    BY <2>1 DEF SettledInv, TypeOK, Shape
  <2>3. Position(nonce) > 0
    BY <1>1, <2>2, PositionStep, FirstBlockNat DEF LedgerAligned
  <2>. QED  BY <1>1, <2>1, <2>3 DEF InLine, ProcessAligned, AtFirst
<1>4. CASE PollIdle
  BY <1>1, <1>2, <1>4 DEF PollIdle, vars, localVars, InLine, ProcessAligned, AtFirst
<1>5. CASE StartChunks
  <2>1. begin > 0
    BY <1>5 DEF StartChunks, SettledInv, TypeOK, ProcessOK
  <2>. QED
    BY <1>1, <1>2, <1>5, <2>1 DEF StartChunks, InLine, ProcessAligned, AtFirst
<1>6. ASSUME SkipPartial \/ ChunksDone PROVE InLine'
  <2>1. /\ nonce \in Nat /\ next \in Int /\ endb \in Int
        /\ 0 < next /\ next <= endb + 1 /\ pc = "release"
    BY <1>1, <1>6 DEF SkipPartial, ChunksDone, SettledInv, TypeOK, ProcessOK,
         Shape, ProcessAligned
  <2>2. begin' = next /\ pc' = "poll"
    BY <1>6, <2>1 DEF SkipPartial, ChunksDone, LeaveChunks
  <2>. QED  BY <1>1, <1>2, <2>1, <2>2 DEF InLine, ProcessAligned, AtFirst
<1>. QED  BY <1>3, <1>4, <1>5, <1>6
\* A send is refused if the nonce is consumed, and else announces the nonce's own epoch.
LEMMA ReleaseAligned ==
  ASSUME SettledInv, InLine, BlindRelease \/ ReleaseWithReceipt
  PROVE  InLine'
<1>1. /\ pc = "release" /\ FullChunk
      /\ LedgerAligned /\ PoolAligned /\ ProcessAligned /\ ChainOK /\ ~Unreleased
      /\ nonce \in Nat /\ next \in Int
      /\ next > 0 /\ (nonce < TransactionCount \/ next = Position(nonce))
  BY DEF BlindRelease, ReleaseWithReceipt, SettledInv, TypeOK, ProcessOK, Shape,
         InLine, ProcessAligned
<1>2. ASSUME NEW f, NEW answer, Send(nonce, Transaction(Chunk, Gas(f)), answer)
      PROVE  /\ PoolAligned'
             /\ answer = "ok" => nonce >= TransactionCount /\ next = Position(nonce)
             /\ LedgerAligned' /\ TransactionCount' = TransactionCount
             /\ FirstBlock' = FirstBlock /\ ~Unreleased'
  <2> DEFINE tx == Transaction(Chunk, Gas(f))
  <2>1. tx.begin = next
    BY DEF Transaction, Chunk
  <2>2. Send(nonce, tx, answer)
    BY <1>2
  <2> HIDE DEF tx
  <2>3. PoolAligned' /\ (answer = "ok" => nonce >= TransactionCount /\ next = Position(nonce))
    BY <1>1, <2>1, <2>2, PoolAfterSend
  <2>4. UNCHANGED <<mined, ledger>>
    BY <2>2 DEF Send
  <2>5. TransactionCount' = TransactionCount /\ FirstBlock' = FirstBlock /\ ~Unreleased'
    BY <1>1, <2>4 DEF TransactionCount, FirstBlock, Unreleased
  <2>. QED  BY <1>1, <2>3, <2>4, <2>5 DEF LedgerAligned, Position
<1>3. Position(nonce + 1) = Position(nonce) + Height
  BY <1>1, PositionStep
<1>4. CASE BlindRelease
  <2>1. PICK answer :
           /\ Send(nonce, Transaction(Chunk, Gas(FALSE)), answer)
           /\ IF answer = "ok"
              THEN Advance
              ELSE pc' = "error_nonce" /\ UNCHANGED <<nonce, next>>
    BY <1>4 DEF BlindRelease
  <2>2. /\ PoolAligned' /\ LedgerAligned' /\ TransactionCount' = TransactionCount
        /\ FirstBlock' = FirstBlock /\ ~Unreleased'
    BY <1>2, <2>1
  <2>3. CASE answer = "ok"
    <3>1. pc' = "release" /\ nonce' = nonce + 1 /\ next' = next + Height
      BY <2>1, <2>3 DEF Advance
    <3>2. next = Position(nonce)
      BY <1>2, <2>1, <2>3
    <3>3. next' = Position(nonce)' /\ next' > 0
      BY <1>1, <1>3, <2>2, <3>1, <3>2, LedgerAssumption DEF Position
    <3>. QED  BY <2>2, <3>1, <3>3 DEF InLine, ProcessAligned, AtFirst
  <2>4. CASE answer # "ok"
    BY <2>1, <2>2, <2>4 DEF InLine, ProcessAligned, AtFirst
  <2>. QED  BY <2>3, <2>4
<1>5. CASE ReleaseWithReceipt
  <2>1. PICK answer :
           /\ Send(nonce, Transaction(Chunk, Gas(force)), answer)
           /\ pc' = IF answer = "ok" THEN "receipt" ELSE "error_nonce"
    BY <1>5 DEF ReleaseWithReceipt
  <2>2. /\ PoolAligned' /\ LedgerAligned' /\ TransactionCount' = TransactionCount
        /\ FirstBlock' = FirstBlock /\ ~Unreleased'
        /\ answer = "ok" => next = Position(nonce)
    BY <1>2, <2>1
  <2>3. UNCHANGED <<nonce, next>> /\ Position(nonce)' = Position(nonce)
    BY <1>5, <2>2 DEF ReleaseWithReceipt, Position
  <2>. QED  BY <1>1, <2>1, <2>2, <2>3 DEF InLine, ProcessAligned, AtFirst
<1>. QED  BY <1>4, <1>5

\* After a receipt both nonce and epoch move by one.
LEMMA ReceiptAligned ==
  ASSUME SettledInv, InLine, ReceiptConfirmed \/ ReceiptRejected \/ ReceiptMissing
  PROVE  InLine'
<1>1. /\ pc = "receipt" /\ next > 0 /\ next = Position(nonce)
      /\ nonce \in Nat /\ next \in Int /\ ChainOK /\ ~Unreleased'
      /\ LedgerAligned' /\ PoolAligned' /\ TransactionCount' = TransactionCount
      /\ FirstBlock' = FirstBlock
  BY ChainsStayAligned DEF ReceiptConfirmed, ReceiptRejected, ReceiptMissing,
       SettledInv, TypeOK, ProcessOK, Shape, InLine, ProcessAligned
<1>2. CASE ReceiptConfirmed
  <2>1. pc' = "release" /\ nonce' = nonce + 1 /\ next' = next + Height
    BY <1>2 DEF ReceiptConfirmed, Advance
  <2>2. Position(nonce + 1) = Position(nonce) + Height
    BY <1>1, PositionStep
  <2>3. next' = Position(nonce)' /\ next' > 0
    BY <1>1, <2>1, <2>2, LedgerAssumption DEF Position
  <2>. QED  BY <1>1, <2>1, <2>3 DEF InLine, ProcessAligned, AtFirst
<1>3. CASE ReceiptRejected \/ ReceiptMissing
  BY <1>1, <1>3 DEF ReceiptRejected, ReceiptMissing, InLine, ProcessAligned, AtFirst
<1>. QED  BY <1>2, <1>3

\* A recovery reads the nonce before the epoch, as at the start.
LEMMA RecoverAligned ==
  ASSUME SettledInv, InLine, Recover
  PROVE  InLine'
<1>1. /\ ChainOK /\ LedgerAligned /\ ProcessAligned /\ UNCHANGED chainVars
      /\ (pc # "down" => nonce \in Nat) /\ ~Unreleased
  BY DEF Recover, RecoverNonce, RecoverEpoch, RecoveryFails, SettledInv, TypeOK,
         Shape, InLine
<1>2. /\ LedgerAligned' /\ PoolAligned' /\ TransactionCount' = TransactionCount
      /\ TransactionCount \in Nat /\ FirstBlock' = FirstBlock /\ ~Unreleased'
  BY <1>1, ChainsStayAligned, NextPosition
<1>3. CASE RecoverNonce
  BY <1>2, <1>3 DEF RecoverNonce, NonceFromChain, InLine, ProcessAligned, AtFirst
<1>4. CASE RecoverEpoch
  <2>1. /\ pc \in {"failed_epoch", "error_epoch"} /\ pc' = "poll"
        /\ begin' = EpochFromContract(begin) /\ nonce' = nonce
    BY <1>4 DEF RecoverEpoch, LeaveChunks
  <2>2. begin' = Position(TransactionCount) /\ begin' > 0
    BY <1>1, <2>1, Resume
  <2>3. nonce \in Nat /\ nonce <= TransactionCount
    BY <1>1, <2>1 DEF ProcessAligned
  <2>4. nonce < TransactionCount \/ nonce = TransactionCount
    BY <1>2, <2>3
  <2>5. nonce' < TransactionCount' \/ begin' = Position(nonce)'
    BY <1>2, <2>1, <2>2, <2>4 DEF Position
  <2>. QED  BY <1>2, <2>1, <2>2, <2>5 DEF InLine, ProcessAligned, AtFirst
<1>5. CASE RecoveryFails
  BY <1>2, <1>5, ExitAligned DEF RecoveryFails, InLine, ProcessAligned, AtFirst
<1>. QED  BY <1>3, <1>4, <1>5 DEF Recover
\* The contract takes the epoch of the next nonce.
LEMMA MineAligned ==
  ASSUME SettledInv, InLine, MineAccepted
  PROVE  InLine'
<1> DEFINE e == [begin |-> NextTx.begin, end |-> NextTx.end]
           t == TransactionCount
<1>1. /\ ChainOK /\ LedgerAligned /\ PoolAligned /\ ProcessAligned /\ SentSettled
      /\ (pc # "down" => nonce \in Nat)
  BY DEF SettledInv, TypeOK, Shape, InLine
<1>2. /\ t \in DOMAIN pool
      /\ ledger' = Append(ledger, e) /\ UNCHANGED <<pc, localVars>>
      /\ mined' = Append(mined, [tx |-> NextTx, ok |-> TRUE])
      /\ pool' = [m \in DOMAIN pool \ {t} |-> pool[m]]
  BY DEF MineAccepted, Mine, Minable, Restrict
<1>3. t \in Nat /\ Position(t + 1) = Position(t) + Height
  BY <1>1, NextPosition, PositionStep
<1>4. TransactionCount' = t + 1
  <2>1. Len(mined') = Len(mined) + 1
    BY <1>1, <1>2, MinedTx, AppendProperties DEF MineAccepted, ChainOK
  <2>. QED  BY <2>1 DEF TransactionCount
<1>5. e.begin = Position(t) /\ e.end + 1 = Position(t + 1)
  <2>1. NextTx \in Tx /\ NextTx.begin = Position(t) /\ SettledEpoch(NextTx)
    BY <1>1, <1>2 DEF NextTx, PoolAligned, SentSettled, ChainOK
  <2>. QED  BY <1>3, <2>1, LedgerAssumption DEF Tx, SettledEpoch
<1>6. /\ e \in [begin : Nat, end : Nat]
      /\ Len(ledger') = Len(ledger) + 1 /\ Len(ledger) = t
      /\ \A i \in 1 .. Len(ledger) : ledger'[i] = ledger[i]
      /\ ledger'[Len(ledger) + 1] = e
  <2>1. NextTx \in Tx /\ ledger \in Seq([begin : Nat, end : Nat])
    BY <1>1, <1>2 DEF NextTx, ChainOK
  <2>2. e \in [begin : Nat, end : Nat]
    BY <2>1 DEF Tx
  <2>3. Len(ledger) = t
    BY <1>1 DEF LedgerAligned
  <2> HIDE DEF e
  <2>. QED  BY <1>2, <2>1, <2>2, <2>3, AppendProperties
<1>7. FirstBlock' = FirstBlock /\ ~Unreleased'
  <2>1. ledger' # <<>>
    BY <1>3, <1>6
  <2>2. CASE ledger = <<>>
    <3>1. t = 0 /\ 0 * Height = 0
      BY <1>6, <2>2, LedgerAssumption
    <3>2. e.begin = FirstBlock
      BY <1>1, <1>5, <3>1, FirstBlockNat DEF Position
    <3>3. ledger'[1] = e
      BY <1>6, <3>1
    <3>. QED  BY <2>1, <3>2, <3>3 DEF FirstBlock, Unreleased
  <2>3. CASE ledger # <<>>
    <3>1. 1 \in 1 .. Len(ledger)
      BY <1>1, <2>3, EmptySeq, LenProperties DEF ChainOK
    <3>. QED  BY <1>6, <2>1, <2>3, <3>1 DEF FirstBlock, Unreleased
  <2>. QED  BY <2>2, <2>3
<1>8. LedgerAligned'
  <2>1. ASSUME NEW i \in 1 .. Len(ledger')
        PROVE  ledger'[i].begin = Position(i - 1) /\ ledger'[i].end + 1 = Position(i)
    <3>1. CASE i \in 1 .. Len(ledger)
      BY <1>1, <1>6, <3>1 DEF LedgerAligned
    <3>2. CASE i = Len(ledger) + 1
      <4>1. i = t + 1 /\ i - 1 = t
        BY <1>3, <1>6, <3>2
      <4>. QED  BY <1>5, <1>6, <4>1
    <3>3. i \in 1 .. Len(ledger) \/ i = Len(ledger) + 1
      BY <1>3, <1>6
    <3>. QED  BY <3>1, <3>2, <3>3
  <2>. QED
    BY <1>1, <1>4, <1>6, <1>7, <2>1 DEF LedgerAligned, Position
<1>9. PoolAligned'
  <2>1. ASSUME NEW n \in DOMAIN pool'
        PROVE  n >= t + 1 /\ pool'[n].begin = Position(n)
    BY <1>1, <1>2, <1>3 DEF PoolAligned, ChainOK
  <2>. QED  BY <1>4, <1>7, <2>1 DEF PoolAligned, Position
<1>10. ProcessAligned' /\ ~AtFirst'
  BY <1>1, <1>2, <1>3, <1>4, <1>7 DEF InLine, ProcessAligned, AtFirst, Position, localVars
<1>. QED  BY <1>7, <1>8, <1>9, <1>10 DEF InLine

\* No pending transaction can fail on chain.
LEMMA NeverReverted ==
  ASSUME SettledInv, InLine, "revert" \notin FaultKinds
  PROVE  ~MineReverted
<1> SUFFICES ASSUME MineReverted PROVE FALSE
  OBVIOUS
<1>1. ~Follows(NextTx) /\ TransactionCount \in DOMAIN pool
  BY DEF MineReverted, Fault, Mine, Minable
<1>2. NextTx.begin = Position(TransactionCount)
  BY <1>1 DEF InLine, PoolAligned, NextTx
<1>3. CurrentEnd + 1 = Position(TransactionCount)
  BY NextPosition DEF SettledInv, TypeOK, InLine
<1>. QED  BY <1>1, <1>2, <1>3 DEF Follows

\* Crashes, the head, time and dropped transactions disturb nothing.
LEMMA EnvironmentAligned ==
  ASSUME SettledInv, InLine, Crash \/ AdvanceHead \/ Tick \/ Drop
  PROVE  InLine'
<1>1. CASE Crash
  BY <1>1, ChainsStayAligned, ExitAligned DEF Crash, InLine
<1>2. CASE AdvanceHead \/ Tick
  <2>1. UNCHANGED <<pc, localVars, chainVars>>
    BY <1>2 DEF AdvanceHead, Tick
  <2>. QED
    BY <2>1, ChainsStayAligned
       DEF InLine, ProcessAligned, Position, AtFirst, localVars
<1>3. CASE Drop
  <2>1. PICK n \in DOMAIN pool : Evict(n)
    BY <1>3 DEF Drop
  <2>2. pool' = [m \in DOMAIN pool \ {n} |-> pool[m]]
        /\ UNCHANGED <<mined, ledger, pc, localVars>>
    BY <1>3, <2>1 DEF Evict, Restrict, Drop
  <2>3. /\ TransactionCount' = TransactionCount /\ FirstBlock' = FirstBlock
        /\ Unreleased' = Unreleased
    BY <2>2 DEF TransactionCount, FirstBlock, Unreleased
  <2>. QED
    BY <2>2, <2>3 DEF InLine, LedgerAligned, PoolAligned, ProcessAligned, Position,
                      AtFirst, localVars
<1>. QED  BY <1>1, <1>2, <1>3

-----------------------------------------------------------------------------
(* The first epoch.                                                        *)

\* Chunks that are over, or too short, leave off at the next block.
LEMMA LeavesAtNext ==
  ASSUME SettledInv, SkipPartial \/ ChunksDone
  PROVE  pc = "release" /\ pc' = "poll" /\ begin' = next
<1>1. CASE SkipPartial
  <2>1. pc = "release" /\ LeaveChunks(next)
    BY <1>1 DEF SkipPartial
  <2>2. pc' = "poll" /\ begin' = next
    BY <2>1, Zenon DEF LeaveChunks
  <2>. QED  BY <2>1, <2>2, Zenon
<1>2. CASE ChunksDone
  <2>1. pc = "release" /\ next > endb /\ pc' = "poll" /\ begin' = endb + 1
    BY <1>2 DEF ChunksDone, LeaveChunks
  <2>2. next <= endb + 1 /\ next \in Int /\ endb \in Int
    BY <2>1 DEF SettledInv, Shape, TypeOK, ProcessOK
  <2>. QED  BY <2>1, <2>2
<1>. QED  BY <1>1, <1>2

\* Without an epoch in the contract a start and a recovery go on where they are told.
LEMMA NoEpochYet ==
  ASSUME Unreleased
  PROVE  CurrentEnd = 0 /\ \A default : EpochFromContract(default) = default
<1>1. CurrentEnd = 0
  BY DEF Unreleased, CurrentEnd
<1>. QED  BY <1>1 DEF EpochFromContract

\* The steps of the process that send nothing.
LEMMA AloneReading ==
  ASSUME SettledInv, NoFirstRelease, Unreleased, FirstAlone, ~AtFirst,
         \/ Setup \/ FetchAtStart \/ SetBegin \/ PollIdle \/ StartChunks
         \/ SkipPartial \/ ChunksDone
         \/ ReceiptConfirmed \/ ReceiptRejected \/ ReceiptMissing
         \/ Recover \/ Crash \/ AdvanceHead \/ Tick \/ UNCHANGED vars
  PROVE  Unreleased' /\ FirstAlone' /\ ~AtFirst'
<1>1. UNCHANGED chainVars
  BY DEF Setup, FetchAtStart, SetBegin, PollIdle, StartChunks, SkipPartial, ChunksDone,
       ReceiptConfirmed, ReceiptRejected, ReceiptMissing, Recover, RecoverNonce,
       RecoverEpoch, RecoveryFails, Crash, AdvanceHead, Tick, vars
<1>2. TransactionCount' = TransactionCount /\ TransactionCount \in Nat /\ Unreleased'
  BY <1>1, LenProperties
     DEF TransactionCount, Unreleased, chainVars, SettledInv, TypeOK, ChainOK
<1>3. CASE Exit
  BY <1>1, <1>2, <1>3 DEF Exit, FirstAlone, AtFirst, chainVars
<1>4. CASE UNCHANGED <<pc, localVars>>
  BY <1>1, <1>2, <1>4 DEF FirstAlone, AtFirst, ReceiptDue, chainVars, localVars
<1>5. CASE Setup
  BY <1>1, <1>2, <1>5 DEF Setup, FirstAlone, AtFirst, chainVars
<1>6. ASSUME FetchAtStart, ~Exit PROVE FirstAlone' /\ ~AtFirst'
  <2>1. /\ pc = "fetch" /\ begin' = EpochFromContract(TickerBegin)
        /\ pc' = IF StartSet /\ begin' = 0 THEN "first_check" ELSE "poll"
        /\ UNCHANGED <<nonce, counter, force>>
    BY <1>6 DEF FetchAtStart
  <2>2. begin' = TickerBegin
    BY <2>1, NoEpochYet
  <2>3. pc' = "poll"
    BY <2>1, <2>2, LedgerAssumption, GeneratorAssumption DEF NoFirstRelease, Unreleased
  <2>. QED
    BY <1>1, <1>2, <2>1, <2>2, <2>3 DEF FirstAlone, AtFirst, ReceiptDue, chainVars
<1>7. CASE SetBegin
  BY <1>1, <1>2, <1>7 DEF SetBegin, FirstAlone, AtFirst, ReceiptDue, chainVars
<1>8. CASE StartChunks
  <2>1. begin > 0
    BY <1>8 DEF StartChunks, SettledInv, TypeOK, ProcessOK
  <2>. QED
    BY <1>1, <1>2, <1>8, <2>1 DEF StartChunks, FirstAlone, AtFirst, ReceiptDue, chainVars
<1>9. CASE SkipPartial \/ ChunksDone
  <2>1. /\ pc = "release" /\ pc' = "poll" /\ begin' = next
        /\ UNCHANGED <<nonce, counter, force>>
    BY <1>9, LeavesAtNext DEF SkipPartial, ChunksDone
  <2>. QED
    BY <1>1, <1>2, <2>1 DEF FirstAlone, AtFirst, ReceiptDue, chainVars
<1>10. ~ReceiptConfirmed
  <2> SUFFICES ASSUME ReceiptConfirmed PROVE FALSE
    OBVIOUS
  <2>1. 0 <= nonce /\ nonce < TransactionCount /\ mined[nonce + 1].ok /\ nonce \in Int
    BY DEF ReceiptConfirmed, ReceiptOk, HasReceipt, SettledInv, TypeOK, ProcessOK
  <2>2. nonce + 1 \in 1 .. Len(mined)
    BY <1>2, <2>1 DEF TransactionCount
  <2>. QED  BY <2>1, <2>2 DEF FirstAlone
<1>11. CASE ReceiptRejected \/ ReceiptMissing
  BY <1>1, <1>2, <1>11
     DEF ReceiptRejected, ReceiptMissing, FirstAlone, AtFirst, chainVars, localVars
<1>12. CASE RecoverNonce
  BY <1>1, <1>2, <1>12 DEF RecoverNonce, NonceFromChain, FirstAlone, AtFirst, chainVars
<1>13. CASE RecoverEpoch
  <2>1. /\ pc \in {"failed_epoch", "error_epoch"} /\ pc' = "poll"
        /\ begin' = begin /\ nonce' = nonce /\ force' = TRUE
    BY <1>13, NoEpochYet DEF RecoverEpoch, LeaveChunks
  <2>. QED
    BY <1>1, <1>2, <2>1 DEF FirstAlone, AtFirst, ReceiptDue, chainVars
<1>14. CASE RecoveryFails /\ ~Exit
  BY <1>1, <1>2, <1>14 DEF RecoveryFails, FirstAlone, AtFirst, chainVars, localVars
<1>15. \/ Exit \/ UNCHANGED <<pc, localVars>>
       \/ Setup \/ (FetchAtStart /\ ~Exit)
       \/ SetBegin \/ StartChunks \/ SkipPartial \/ ChunksDone
       \/ ReceiptRejected \/ ReceiptMissing
       \/ RecoverNonce \/ RecoverEpoch \/ (RecoveryFails /\ ~Exit)
  <2>1. PollIdle \/ AdvanceHead \/ Tick \/ UNCHANGED vars => UNCHANGED <<pc, localVars>>
    BY DEF PollIdle, AdvanceHead, Tick, vars
  <2>2. Crash => Exit
    BY DEF Crash
  <2>. QED  BY <1>10, <2>1, <2>2 DEF Recover
<1>. QED
  BY <1>2, <1>3, <1>4, <1>5, <1>6, <1>7, <1>8, <1>9, <1>11, <1>12, <1>13, <1>14, <1>15

\* A send: it waits for its receipt, and its nonce is the next one or refused.
LEMMA AloneSending ==
  ASSUME SettledInv, Unreleased, FirstAlone, ~AtFirst, BlindRelease \/ ReleaseWithReceipt
  PROVE  Unreleased' /\ FirstAlone' /\ ~AtFirst'
<1>1. /\ ReleaseWithReceipt /\ pc = "release" /\ next > 0 /\ nonce <= TransactionCount
      /\ nonce \in Nat /\ TransactionCount \in Nat
      /\ TickerBegin > 0 => next = TickerBegin
  BY LenProperties
     DEF BlindRelease, ReleaseWithReceipt, FirstAlone, SettledInv, TypeOK, Shape, ChainOK,
         TransactionCount
<1> DEFINE tx == Transaction(Chunk, Gas(force))
<1>2. PICK answer :
         Send(nonce, tx, answer) /\ pc' = IF answer = "ok" THEN "receipt" ELSE "error_nonce"
  BY <1>1 DEF ReleaseWithReceipt
<1>3. UNCHANGED <<mined, ledger, nonce, force, begin, next>>
  BY <1>1, <1>2 DEF ReleaseWithReceipt, Send
<1>4. tx.begin = next
  BY DEF Transaction, Chunk
<1> HIDE DEF tx
<1>5. TransactionCount' = TransactionCount /\ Unreleased'
  BY <1>3 DEF TransactionCount, Unreleased
<1>6. "ok" \notin Refusals(nonce, tx)
  BY DEF Refusals
<1>7. CASE UNCHANGED pool /\ answer # "ok"
  BY <1>1, <1>2, <1>3, <1>5, <1>7 DEF FirstAlone, AtFirst
<1>8. CASE Accept(nonce, tx)
  <2>1. nonce = TransactionCount
    BY <1>1, <1>8 DEF Accept, Acceptable, TooLow
  <2>2. pool' = [m \in DOMAIN pool \cup {nonce} |-> IF m = nonce THEN tx ELSE pool[m]]
    BY <1>8 DEF Accept, Submit
  <2>3. \A n \in DOMAIN pool' : n = TransactionCount /\ pool'[n] = tx
    BY <2>1, <2>2 DEF FirstAlone
  <2>. QED
    BY <1>1, <1>2, <1>3, <1>4, <1>5, <2>3 DEF FirstAlone, AtFirst
<1>. QED  BY <1>2, <1>6, <1>7, <1>8 DEF Send

\* A rejected or dropped transaction leaves nothing on its way.
LEMMA AloneChains ==
  ASSUME SettledInv, Unreleased, FirstAlone, ~AtFirst, MineReverted \/ Drop
  PROVE  Unreleased' /\ FirstAlone' /\ ~AtFirst'
<1>1. /\ UNCHANGED <<pc, localVars, ledger>> /\ Unreleased' /\ ChainOK
      /\ TransactionCount \in Nat /\ mined \in Seq([tx : Tx, ok : BOOLEAN])
      /\ pc # "down" => nonce \in Nat
  BY LenProperties
     DEF MineReverted, Drop, Unreleased, SettledInv, TypeOK, ChainOK, Shape, TransactionCount
<1>2. CASE Drop
  <2>1. PICK n \in DOMAIN pool : Evict(n)
    BY <1>2 DEF Drop
  <2>2. pool' = [m \in DOMAIN pool \ {n} |-> pool[m]] /\ UNCHANGED mined
    BY <2>1 DEF Evict, Restrict
  <2>3. TransactionCount' = TransactionCount
    BY <2>2 DEF TransactionCount
  <2>. QED
    BY <1>1, <2>2, <2>3 DEF FirstAlone, AtFirst, ReceiptDue, localVars
<1>3. CASE MineReverted
  <2> DEFINE new == [tx |-> NextTx, ok |-> FALSE]
  <2>1. Mine(FALSE)
    BY <1>3, Zenon DEF MineReverted
  <2>2. new \in [tx : Tx, ok : BOOLEAN] /\ ~new.ok
    BY <1>1, <2>1, MinedTx
  <2>3. mined' = Append(mined, new)
    BY <2>1 DEF Mine
  <2> HIDE DEF new
  <2>4. /\ Len(mined') = Len(mined) + 1 /\ Len(mined) \in Nat
        /\ \A i \in 1 .. Len(mined) : mined'[i] = mined[i]
        /\ mined'[Len(mined) + 1] = new
    BY <1>1, <2>2, <2>3, AppendProperties, LenProperties
  <2>5. \A i \in 1 .. Len(mined') : ~mined'[i].ok
    BY <2>2, <2>4 DEF FirstAlone
  <2>6. DOMAIN pool' = {}
    BY <2>1 DEF Mine, Restrict, FirstAlone
  <2>7. TransactionCount' = TransactionCount + 1
    BY <2>4 DEF TransactionCount
  <2>8. pc # "down" => nonce <= TransactionCount'
    BY <1>1, <2>7 DEF FirstAlone
  <2>. QED
    BY <1>1, <2>5, <2>6, <2>8 DEF FirstAlone, AtFirst, ReceiptDue, localVars
<1>. QED  BY <1>2, <1>3

\* As long as no epoch is accepted, the first one stays without a rival.
LEMMA FirstStaysAlone ==
  ASSUME SettledInv, NoFirstRelease, Unreleased, FirstAlone, ~AtFirst, [Next]_vars,
         ~MineAccepted
  PROVE  Unreleased' /\ FirstAlone' /\ ~AtFirst'
<1>1. ~First
  BY DEF AtFirst, First, FirstCheck, FirstHead, FirstSend, FirstReceipt, FirstReset
<1>. QED
  BY <1>1, AloneReading, AloneSending, AloneChains
     DEF Next, Generator, Loop, Environment

\* Only a block changes what is mined and what the contract has.
LEMMA OnlyBlocksCount ==
  ASSUME [Next]_vars
  PROVE  MineAccepted \/ MineReverted \/ UNCHANGED <<mined, ledger>>
  BY ZenonT(30) DEF Next, Generator, First, Loop, Recover, Environment, Setup, FetchAtStart,
       FirstCheck, FirstHead, FirstSend, FirstReceipt, FirstReset, Send,
       SetBegin, PollIdle, StartChunks, SkipPartial, ChunksDone, BlindRelease,
       ReleaseWithReceipt, ReceiptConfirmed, ReceiptRejected, ReceiptMissing,
       RecoverNonce, RecoverEpoch, RecoveryFails, Crash, AdvanceHead, Tick,
       Drop, Evict, chainVars, vars

\* Initially nothing is pending, accepted or held.
LEMMA AlignedInit == Init => Aligned
<1> SUFFICES ASSUME Init PROVE Aligned
  OBVIOUS
<1>1. /\ ledger = <<>> /\ Len(ledger) = 0 /\ Len(mined) = 0 /\ DOMAIN pool = {}
      /\ pc = "down" /\ counter = 0
  BY EmptySeq DEF Init, AccountInit
<1>2. LedgerAligned
  BY <1>1, LedgerAssumption DEF LedgerAligned, FirstBlock, TransactionCount
<1>3. FirstAlone /\ ~AtFirst
  BY <1>1 DEF FirstAlone, AtFirst
<1>4. PoolAligned /\ ProcessAligned
  BY <1>1 DEF PoolAligned, ProcessAligned
<1>. QED
  BY <1>2, <1>3, <1>4 DEF Aligned

\* With an epoch in the contract every step keeps nonces and epochs together.
LEMMA InLineStep ==
  ASSUME SettledInv, InLine, [Next]_vars, "revert" \notin FaultKinds
  PROVE  InLine'
<1>1. ~First
  BY DEF InLine, AtFirst, First, FirstCheck, FirstHead, FirstSend, FirstReceipt, FirstReset
<1>2. CASE Setup \/ FetchAtStart
  BY <1>2, StartAligned
<1>3. CASE Loop
  BY <1>3, LoopAligned, ReleaseAligned, ReceiptAligned DEF Loop
<1>4. CASE Recover
  BY <1>4, RecoverAligned
<1>5. CASE Environment
  BY <1>5, MineAligned, NeverReverted, EnvironmentAligned DEF Environment
<1>6. CASE UNCHANGED vars
  BY <1>6, ChainsStayAligned
     DEF vars, InLine, ProcessAligned, Position, AtFirst, localVars
<1>. QED  BY <1>1, <1>2, <1>3, <1>4, <1>5, <1>6 DEF Next, Generator

\* Whatever comes first, the contract takes it.
LEMMA FirstNotReverted ==
  ASSUME Unreleased, "revert" \notin FaultKinds
  PROVE  ~MineReverted
  BY NoEpochYet DEF MineReverted, Fault, Follows

\* What the first accepted transaction finds: nothing else pending, and a process that
\* waits for this very transaction or holds a nonce that is used up by now.
LEMMA FirstAccepted ==
  ASSUME SettledInv, Unreleased, FirstAlone, MineAccepted
  PROVE  /\ NextTx \in Tx /\ NextTx.begin > 0 /\ NextTx.end = NextTx.begin + Height - 1
         /\ TickerBegin > 0 => NextTx.begin = TickerBegin
         /\ ledger' = Append(ledger, [begin |-> NextTx.begin, end |-> NextTx.end])
         /\ ledger = <<>> /\ DOMAIN pool' = {} /\ UNCHANGED <<pc, localVars>>
         /\ TransactionCount \in Nat /\ TransactionCount' = TransactionCount + 1
         /\ pc # "down" => nonce \in Nat /\ nonce <= TransactionCount
         /\ pc = "receipt" => nonce < TransactionCount \/ next = NextTx.begin
<1>1. /\ ChainOK /\ SentSettled /\ TransactionCount \in Nat
      /\ pc # "down" => nonce \in Nat /\ nonce <= TransactionCount
      /\ mined \in Seq([tx : Tx, ok : BOOLEAN])
  BY LenProperties
     DEF SettledInv, TypeOK, ChainOK, Shape, FirstAlone, TransactionCount
<1>2. /\ TransactionCount \in DOMAIN pool /\ UNCHANGED <<pc, localVars>>
      /\ ledger' = Append(ledger, [begin |-> NextTx.begin, end |-> NextTx.end])
      /\ mined' = Append(mined, [tx |-> NextTx, ok |-> TRUE])
      /\ pool' = [m \in DOMAIN pool \ {TransactionCount} |-> pool[m]]
  BY DEF MineAccepted, Mine, Minable, Restrict
<1>3. /\ NextTx \in Tx /\ SettledEpoch(NextTx) /\ NextTx.begin > 0
      /\ TickerBegin > 0 => NextTx.begin = TickerBegin
  BY <1>1, <1>2 DEF ChainOK, SentSettled, NextTx, FirstAlone
<1>4. NextTx.end = NextTx.begin + Height - 1
  BY <1>3, LedgerAssumption DEF SettledEpoch, Tx
<1>5. DOMAIN pool' = {}
  BY <1>2 DEF FirstAlone
<1>6. TransactionCount' = TransactionCount + 1
  <2>1. [tx |-> NextTx, ok |-> TRUE] \in [tx : Tx, ok : BOOLEAN]
    BY <1>3
  <2>. QED  BY <1>1, <1>2, <2>1, AppendProperties DEF TransactionCount
<1>7. pc = "receipt" => nonce < TransactionCount \/ next = NextTx.begin
  BY <1>1, <1>2 DEF FirstAlone, NextTx
<1>. QED
  BY <1>1, <1>2, <1>3, <1>4, <1>5, <1>6, <1>7 DEF Unreleased

\* The epoch accepted first fixes the positions of all the others.
LEMMA FirstInLine ==
  ASSUME SettledInv, Aligned, Unreleased, MineAccepted
  PROVE  InLine'
<1> DEFINE e == [begin |-> NextTx.begin, end |-> NextTx.end]
<1>1. FirstAlone /\ ~AtFirst /\ BaseEnd = 0 /\ ledger = <<>> /\ TransactionCount = 0
  <2>1. Len(ledger) = TransactionCount /\ ledger = <<>>
    BY DEF Aligned, LedgerAligned, Unreleased
  <2>. QED  BY <2>1 DEF Aligned, Unreleased
<1>2. /\ NextTx \in Tx /\ NextTx.begin > 0 /\ NextTx.end = NextTx.begin + Height - 1
      /\ ledger' = Append(ledger, e)
      /\ DOMAIN pool' = {} /\ UNCHANGED <<pc, localVars>> /\ TransactionCount' = 1
      /\ TickerBegin > 0 => NextTx.begin = TickerBegin
      /\ pc # "down" => nonce = 0
      /\ pc = "receipt" => next = NextTx.begin
  BY <1>1, FirstAccepted
<1>3. e \in [begin : Nat, end : Nat] /\ e.begin = NextTx.begin /\ e.end = NextTx.end
  BY <1>2 DEF Tx
<1>4. Len(ledger') = 1 /\ ledger'[1] = e /\ ledger' # <<>>
  <2> HIDE DEF e
  <2>1. ledger' = <<e>>
    BY <1>1, <1>2, <1>3, EmptySeq
  <2>. QED  BY <2>1
<1>5. FirstBlock' = e.begin /\ ~Unreleased'
  BY <1>4 DEF FirstBlock, Unreleased
<1>6. PICK b \in Nat \ {0} : b = NextTx.begin
  BY <1>2 DEF Tx
<1>7. Position(0)' = b /\ Position(1)' = b + Height
  BY <1>3, <1>5, <1>6, LedgerAssumption DEF Position
<1>8. LedgerAligned'
  <2>1. ledger'[1].begin = b /\ ledger'[1].end + 1 = b + Height
    BY <1>2, <1>3, <1>4, <1>6, LedgerAssumption
  <2>2. ASSUME NEW i \in 1 .. Len(ledger')
        PROVE  ledger'[i].begin = Position(i - 1)' /\ ledger'[i].end + 1 = Position(i)'
    <3>1. i = 1 /\ i - 1 = 0
      BY <1>4
    <3>. QED  BY <1>7, <2>1, <3>1
  <2>. QED
    BY <1>1, <1>2, <1>3, <1>4, <1>5, <1>6, <2>2 DEF LedgerAligned
<1>9. PoolAligned'
  BY <1>2 DEF PoolAligned
<1>10. ProcessAligned' /\ ~AtFirst'
  <2>1. pc = "poll" /\ TickerBegin > 0 => begin > 0
    BY <1>1 DEF FirstAlone
  <2>2. pc = "release" => next > 0
    BY <1>1 DEF FirstAlone
  <2>. QED
    BY <1>1, <1>2, <1>6, <1>7, <2>1, <2>2 DEF ProcessAligned, AtFirst, localVars
<1>. QED  BY <1>5, <1>8, <1>9, <1>10 DEF InLine

\* Every step keeps Aligned, given SettledInv.
LEMMA AlignedStep ==
  ASSUME NoFirstRelease, "revert" \notin FaultKinds
  PROVE  SettledInv /\ Aligned /\ [Next]_vars => Aligned'
<1> SUFFICES ASSUME SettledInv, Aligned, [Next]_vars PROVE Aligned'
  OBVIOUS
<1>1. CASE ~Unreleased
  <2>1. InLine
    BY <1>1 DEF Aligned, InLine
  <2>. QED  BY <2>1, InLineStep DEF InLine, Aligned
<1>2. CASE Unreleased /\ MineAccepted
  BY <1>2, FirstInLine DEF InLine, Aligned
<1>3. CASE Unreleased /\ ~MineAccepted
  <2>1. Unreleased' /\ FirstAlone' /\ ~AtFirst'
    BY <1>3, FirstStaysAlone DEF Aligned
  <2>2. UNCHANGED <<mined, ledger>>
    BY <1>3, OnlyBlocksCount, FirstNotReverted
  <2>3. LedgerAligned'
    BY <2>2 DEF Aligned, LedgerAligned, TransactionCount, FirstBlock, Position
  <2>. QED  BY <2>1, <2>3 DEF Aligned
<1>. QED  BY <1>1, <1>2, <1>3

\* When no transaction fails on chain, and the process does not wait for a release
\* time, a nonce announces one epoch only, whatever is lost, dropped, delayed or
\* restarted; before the contract has an epoch there is only one candidate at a time.
THEOREM NoncesAligned ==
  ASSUME NoFirstRelease, "revert" \notin FaultKinds
  PROVE  Spec => []Aligned
<1>1. Init => Aligned
  BY AlignedInit
<1>2. SettledInv /\ Aligned /\ [Next]_vars => Aligned'
  BY AlignedStep
<1>. QED  BY <1>1, <1>2, SettledInvHolds, PTL DEF Spec

\* Epochs at successive positions continue one another.
LEMMA AlignedContiguous == Aligned => Contiguous
<1> SUFFICES ASSUME Aligned, NEW i \in 1 .. Len(ledger)
             PROVE  LET before == IF i = 1 THEN BaseEnd ELSE ledger[i - 1].end
                    IN  before # 0 => ledger[i].begin = before + 1
  BY DEF Contiguous
<1>1. ledger[i].begin = Position(i - 1)
  BY DEF Aligned, LedgerAligned
<1>2. CASE i = 1
  <2>1. ledger # <<>>
    BY <1>2
  <2>2. BaseEnd > 0 => ledger[1].begin = BaseEnd + 1
    BY <2>1 DEF Aligned, LedgerAligned, FirstBlock
  <2>. QED  BY <1>2, <2>2, LedgerAssumption
<1>3. CASE i # 1
  <2>1. i - 1 \in 1 .. Len(ledger)
    BY <1>3 DEF Aligned, LedgerAligned
  <2>2. ledger[i - 1].end + 1 = Position(i - 1)
    BY <2>1 DEF Aligned, LedgerAligned
  <2>. QED  BY <1>1, <1>3, <2>2
<1>. QED  BY <1>2, <1>3

\* Then the generator announces every block once and in order, even to a
\* contract that would take any epoch.
THEOREM ExactlyOnceInOrder ==
  ASSUME NoFirstRelease, "revert" \notin FaultKinds
  PROVE  Spec => []Contiguous
<1>1. Spec => []Aligned
  BY NoncesAligned
<1>. QED  BY <1>1, AlignedContiguous, PTL

-----------------------------------------------------------------------------
(* Refinement: every step is a step of EpochLedger or leaves it alone.     *)

\* An accepted transaction is a Release of the abstract ledger.
LEMMA MineReleases ==
  ASSUME SettledInv, MineAccepted, Follows(NextTx)
  PROVE  LedgerNext
<1> DEFINE e == [begin |-> NextTx.begin, end |-> NextTx.end]
<1>1. /\ TransactionCount \in DOMAIN pool /\ head \in Nat
      /\ NextTx \in Tx /\ SettledEpoch(NextTx)
      /\ ledger' = Append(ledger, e) /\ UNCHANGED head
  BY DEF MineAccepted, Mine, Minable, NextTx, SettledInv, TypeOK, ChainOK,
         SentSettled, envVars
<1>2. /\ e.begin = NextTx.begin /\ e.end = NextTx.end
      /\ e.begin \in Nat /\ e.end \in Nat
  BY <1>1 DEF Tx
<1>3. Follows(e)
  BY <1>2 DEF Follows
<1>4. WellFormed(e) /\ Settled(e)
  BY <1>1, <1>2 DEF SettledEpoch, WellFormed, Settled
<1>5. e.end = e.begin + Height - 1 /\ e.begin \in 0 .. head
  <2>1. e.end - e.begin + 1 = Height /\ e.end <= head - Offset
    BY <1>1, <1>2 DEF SettledEpoch
  <2> HIDE DEF e
  <2>. QED  BY <1>1, <1>2, <2>1, LedgerAssumption
<1>6. e \in {[begin |-> b, end |-> b + Height - 1] : b \in 0 .. head}
  BY <1>2, <1>5
<1>7. Release(e)
  BY <1>1, <1>3, <1>4 DEF Release
<1>. QED  BY <1>6, <1>7 DEF LedgerNext

\* The next transaction announces the contract's next epoch, or the first one.
LEMMA AlignedFollows ==
  ASSUME SettledInv, Aligned, MineAccepted
  PROVE  Follows(NextTx)
<1>1. CASE Unreleased
  BY <1>1, NoEpochYet DEF Follows
<1>2. CASE ~Unreleased
  BY <1>2, NextPosition
     DEF MineAccepted, Mine, Minable, Aligned, PoolAligned, NextTx, SettledInv,
         TypeOK, Follows
<1>. QED  BY <1>1, <1>2

\* As long as accepted epochs follow one another, every step is a step of the
\* abstract ledger or a stutter.
LEMMA StepRefines ==
  ASSUME SettledInv, [Next]_vars, MineAccepted => Follows(NextTx)
  PROVE  [LedgerNext]_<<head, ledger>>
<1> SUFFICES LedgerNext \/ UNCHANGED <<head, ledger>>
  OBVIOUS
<1>1. CASE Setup \/ FetchAtStart
  BY <1>1 DEF Setup, FetchAtStart, chainVars, envVars
<1>2. CASE First
  BY <1>2 DEF First, FirstCheck, FirstHead, FirstSend, FirstReceipt, FirstReset,
              Send, chainVars, envVars
<1>3. CASE Loop
  BY <1>3 DEF Loop, SetBegin, PollIdle, StartChunks, SkipPartial, ChunksDone,
              BlindRelease, ReleaseWithReceipt, ReceiptConfirmed,
              ReceiptRejected, ReceiptMissing, Send, chainVars, envVars, vars
<1>4. CASE Recover
  BY <1>4 DEF Recover, RecoverNonce, RecoverEpoch, RecoveryFails, chainVars, envVars
<1>5. CASE Crash \/ Tick \/ Drop
  BY <1>5 DEF Crash, Tick, Drop, chainVars, envVars
<1>6. CASE AdvanceHead
  BY <1>6 DEF AdvanceHead, chainVars, LedgerNext, Grow
<1>7. CASE MineAccepted
  BY <1>7, MineReleases
<1>8. CASE MineReverted
  BY <1>8 DEF MineReverted, envVars
<1>9. CASE UNCHANGED vars
  BY <1>9 DEF vars, chainVars, envVars
<1>. QED
  BY <1>1, <1>2, <1>3, <1>4, <1>5, <1>6, <1>7, <1>8, <1>9
     DEF Next, Generator, Environment

\* Then the generator implements the promise made to the contract's readers.
THEOREM ImplementsLedger ==
  ASSUME NoFirstRelease, "revert" \notin FaultKinds
  PROVE  Spec => LedgerSpec
<1>1. Init => LedgerInit
  BY GeneratorAssumption DEF Init, LedgerInit
<1>2. SettledInv /\ Aligned /\ [Next]_vars => [LedgerNext]_<<head, ledger>>
  BY StepRefines, AlignedFollows
<1>. QED  BY <1>1, <1>2, SettledInvHolds, NoncesAligned, PTL DEF Spec, LedgerSpec

-----------------------------------------------------------------------------
(* Without dropped transactions the pending nonces have no holes.          *)

\* Every nonce from the mined ones up to the process's own is pending.
Filled(n) == \A m \in TransactionCount .. n - 1 : m \in DOMAIN pool

\* The inductive form: the nonce sent next leaves no hole either.
GapInv == NonceGapFree /\ (pc # "down" => Filled(nonce))

\* Nothing lies below a nonce that is not ahead.
LEMMA NothingBelow ==
  ASSUME NEW a \in Int, NEW b \in Int, b <= a
  PROVE  a .. b - 1 = {}
  OBVIOUS

\* A nonce that is mined or already there, or none at all, needs no filling.
LEMMA GapStays ==
  ASSUME GapInv, nonce \in Int, nonce' \in Int,
         TransactionCount \in Nat, UNCHANGED chainVars,
         pc = "down" => pc' = "down" \/ nonce' <= TransactionCount,
         pc' = "down" \/ nonce' = nonce \/ nonce' <= TransactionCount
  PROVE  GapInv'
<1>1. TransactionCount' = TransactionCount /\ pool' = pool
  BY DEF TransactionCount, chainVars
<1>2. NonceGapFree'
  BY <1>1 DEF GapInv, NonceGapFree
<1>3. CASE pc' = "down"
  BY <1>2, <1>3 DEF GapInv
<1>4. CASE nonce' <= TransactionCount
  <2>1. PICK n \in Int : n = nonce'
    OBVIOUS
  <2>2. PICK c \in Int : c = TransactionCount
    OBVIOUS
  <2>3. c .. n - 1 = {}
    BY <1>4, <2>1, <2>2, NothingBelow
  <2>. QED  BY <1>1, <1>2, <2>1, <2>2, <2>3 DEF GapInv, Filled
<1>5. CASE pc' # "down" /\ pc # "down" /\ nonce' = nonce
  BY <1>1, <1>2, <1>5 DEF GapInv, Filled
<1>. QED  BY <1>3, <1>4, <1>5

\* What the node accepts under the next nonce closes up to the nonce after it.
LEMMA GapAfterSend ==
  ASSUME GapInv, pc # "down", nonce \in Nat, TransactionCount \in Nat,
         DOMAIN pool \subseteq Nat,
         NEW tx, NEW answer, Send(nonce, tx, answer)
  PROVE  /\ NonceGapFree' /\ TransactionCount' = TransactionCount
         /\ DOMAIN pool \subseteq DOMAIN pool'
         /\ answer = "ok" => nonce \in DOMAIN pool'
<1>1. TransactionCount' = TransactionCount
  BY DEF Send, TransactionCount
<1>2. \A m \in TransactionCount .. nonce - 1 : m \in DOMAIN pool
  BY DEF GapInv, Filled
<1>3. CASE UNCHANGED pool /\ answer # "ok"
  BY <1>1, <1>3 DEF GapInv, NonceGapFree
<1>4. CASE Accept(nonce, tx)
  <2>1. DOMAIN pool' = DOMAIN pool \cup {nonce}
    BY <1>4 DEF Accept, Submit
  <2>2. ASSUME NEW n \in DOMAIN pool', NEW m \in TransactionCount .. n
        PROVE  m \in DOMAIN pool'
    <3>1. CASE n \in DOMAIN pool
      BY <2>1, <2>2, <3>1 DEF GapInv, NonceGapFree
    <3>2. CASE n = nonce
      <4>1. m = nonce \/ m \in TransactionCount .. nonce - 1
        BY <2>2, <3>2
      <4>. QED  BY <1>2, <2>1, <4>1
    <3>. QED  BY <2>1, <2>2, <3>1, <3>2
  <2>. QED  BY <1>1, <2>1, <2>2 DEF NonceGapFree
<1>5. "ok" \notin Refusals(nonce, tx)
  BY DEF Refusals
<1>. QED  BY <1>3, <1>4, <1>5 DEF Send

\* A process that sends goes on with the same nonce, the next one after a
\* success, or ends.
LEMMA GapSending ==
  ASSUME SettledInv, GapInv, FirstSend \/ BlindRelease \/ ReleaseWithReceipt
  PROVE  GapInv'
<1>1. /\ pc # "down" /\ nonce \in Nat /\ DOMAIN pool \subseteq Nat
      /\ TransactionCount \in Nat
  BY LenProperties DEF FirstSend, BlindRelease, ReleaseWithReceipt, SettledInv,
       TypeOK, ChainOK, Shape, TransactionCount
<1>2. PICK tx, answer :
        /\ Send(nonce, tx, answer)
        /\ \/ pc' = "down" \/ nonce' = nonce
           \/ answer = "ok" /\ nonce' = nonce + 1
  BY DEF FirstSend, BlindRelease, ReleaseWithReceipt, Advance, FirstDone,
         FailAttempt, Exit
<1>3. /\ NonceGapFree' /\ TransactionCount' = TransactionCount
      /\ DOMAIN pool \subseteq DOMAIN pool'
      /\ answer = "ok" => nonce \in DOMAIN pool'
  BY <1>1, <1>2, GapAfterSend
<1>4. \A m \in TransactionCount .. nonce - 1 : m \in DOMAIN pool'
  BY <1>1, <1>3 DEF GapInv, Filled
<1>5. CASE pc' = "down"
  BY <1>3, <1>5 DEF GapInv
<1>6. CASE nonce' = nonce
  BY <1>3, <1>4, <1>6 DEF GapInv, Filled
<1>7. CASE answer = "ok" /\ nonce' = nonce + 1
  <2>1. ASSUME NEW m \in TransactionCount .. nonce' - 1
        PROVE  m = nonce \/ m \in TransactionCount .. nonce - 1
    BY <1>1, <1>7
  <2>2. \A m \in TransactionCount .. nonce' - 1 : m \in DOMAIN pool'
    BY <1>3, <1>4, <1>7, <2>1
  <2>. QED  BY <1>3, <2>2 DEF GapInv, Filled
<1>. QED  BY <1>2, <1>5, <1>6, <1>7

\* The count of mined transactions moves past the lowest pending nonce only.
LEMMA GapMining ==
  ASSUME SettledInv, GapInv, MineAccepted \/ MineReverted
  PROVE  GapInv'
<1>1. TransactionCount \in Nat /\ DOMAIN pool \subseteq Nat
      /\ mined \in Seq([tx : Tx, ok : BOOLEAN])
  BY LenProperties DEF SettledInv, TypeOK, ChainOK, TransactionCount
<1>2. PICK ok \in BOOLEAN : Mine(ok)
  BY DEF MineAccepted, MineReverted
<1>3. UNCHANGED <<pc, nonce>> /\ (pc # "down" => nonce \in Nat)
  BY DEF MineAccepted, MineReverted, localVars, SettledInv, Shape
<1>4. TransactionCount' = TransactionCount + 1
  <2>1. mined' = Append(mined, [tx |-> NextTx, ok |-> ok])
        /\ [tx |-> NextTx, ok |-> ok] \in [tx : Tx, ok : BOOLEAN]
    BY <1>2 DEF Mine, Minable, NextTx, SettledInv, TypeOK, ChainOK
  <2>2. Len(mined') = Len(mined) + 1
    BY <1>1, <2>1, AppendProperties
  <2>. QED  BY <2>2 DEF TransactionCount
<1>5. DOMAIN pool' = DOMAIN pool \ {TransactionCount}
  BY <1>2 DEF Mine, Restrict
<1>6. NonceGapFree'
  <2>1. ASSUME NEW n \in DOMAIN pool', NEW m \in TransactionCount + 1 .. n
        PROVE  m \in DOMAIN pool'
    BY <1>1, <1>5, <2>1 DEF GapInv, NonceGapFree
  <2>. QED  BY <1>4, <2>1 DEF NonceGapFree
<1>7. pc # "down" => Filled(nonce)'
  <2>1. ASSUME pc # "down", NEW m \in TransactionCount + 1 .. nonce - 1
        PROVE  m \in DOMAIN pool'
    BY <1>1, <1>3, <1>5, <2>1 DEF GapInv, Filled
  <2>. QED  BY <1>3, <1>4, <2>1 DEF Filled
<1>. QED  BY <1>3, <1>6, <1>7 DEF GapInv

\* A receipt shows that the nonce is mined, and every reset or recovery reads
\* the count of what is mined.
LEMMA GapReading ==
  ASSUME SettledInv, GapInv,
         \/ Setup \/ FetchAtStart \/ FirstCheck \/ FirstHead \/ FirstReceipt \/ FirstReset
         \/ SetBegin \/ PollIdle \/ StartChunks \/ SkipPartial \/ ChunksDone
         \/ ReceiptConfirmed \/ ReceiptRejected \/ ReceiptMissing
         \/ Recover \/ Crash \/ AdvanceHead \/ Tick \/ UNCHANGED vars
  PROVE  GapInv'
<1>1. TransactionCount \in Nat /\ nonce \in Int
  BY LenProperties DEF SettledInv, TypeOK, ProcessOK, ChainOK, TransactionCount
<1>2. UNCHANGED chainVars
  BY DEF Setup, FetchAtStart, FirstCheck, FirstHead, FirstReceipt, FirstReset,
       SetBegin, PollIdle, StartChunks, SkipPartial, ChunksDone,
       ReceiptConfirmed, ReceiptRejected, ReceiptMissing, Recover, RecoverNonce,
       RecoverEpoch, RecoveryFails, Crash, AdvanceHead, Tick, vars
<1>3. /\ pc = "down" => pc' = "down" \/ nonce' = TransactionCount
      /\ \/ pc' = "down" /\ nonce' = -1
         \/ nonce' = nonce \/ nonce' = TransactionCount
         \/ nonce < TransactionCount /\ nonce' = nonce + 1
  BY DEF Setup, FetchAtStart, FirstCheck, FirstHead, FirstReceipt, FirstReset,
       SetBegin, PollIdle, StartChunks, SkipPartial, ChunksDone,
       ReceiptConfirmed, ReceiptRejected, ReceiptMissing, Recover, RecoverNonce,
       RecoverEpoch, RecoveryFails, Crash, AdvanceHead, Tick, vars, localVars,
       Exit, FirstDone, FailAttempt, LeaveChunks, Advance, NonceFromChain,
       ReceiptOk, ReceiptFailed, HasReceipt
<1>4. nonce' \in Int
  BY <1>1, <1>3
<1>5. /\ pc = "down" => pc' = "down" \/ nonce' <= TransactionCount
      /\ pc' = "down" \/ nonce' = nonce \/ nonce' <= TransactionCount
  BY <1>1, <1>3
<1>. QED  BY <1>1, <1>2, <1>4, <1>5, GapStays

\* Unless the node drops a transaction, every nonce below a pending one is
\* pending or mined, whatever else fails: every transaction sent can be mined.
THEOREM NoncesLeaveNoGap ==
  ASSUME "drop" \notin FaultKinds
  PROVE  Spec => []NonceGapFree
<1>1. Init => GapInv
  BY DEF Init, AccountInit, GapInv, NonceGapFree
<1>2. SettledInv /\ GapInv /\ [Next]_vars => GapInv'
  <2> SUFFICES ASSUME SettledInv, GapInv, [Next]_vars PROVE GapInv'
    OBVIOUS
  <2>1. ~Drop
    BY DEF Drop, Fault
  <2>. QED
    BY <2>1, GapSending, GapMining, GapReading
       DEF Next, Generator, First, Loop, Environment
<1>3. GapInv => NonceGapFree
  BY DEF GapInv
<1>. QED  BY <1>1, <1>2, <1>3, SettledInvHolds, PTL DEF Spec

-----------------------------------------------------------------------------
(* How far the process may be ahead of the contract, and behind it.        *)

\* Later nonces announce later epochs.
LEMMA PositionGrows ==
  ASSUME ChainOK, NEW a \in Nat, NEW b \in Nat, a <= b
  PROVE  Position(a) <= Position(b)
<1>1. b * Height = a * Height + (b - a) * Height /\ (b - a) * Height >= 0
      /\ a * Height \in Nat /\ b * Height \in Nat
  BY LedgerAssumption
<1>2. PICK f \in Nat : f = FirstBlock
  BY FirstBlockNat
<1>. QED  BY <1>1, <1>2, LedgerAssumption DEF Position

\* What the contract accepts becomes its current epoch.
LEMMA AcceptedIsCurrent ==
  ASSUME ChainOK, MineAccepted
  PROVE  CurrentEnd' = NextTx.end
<1> DEFINE e == [begin |-> NextTx.begin, end |-> NextTx.end]
<1>1. NextTx \in Tx /\ ledger' = Append(ledger, e) /\ ledger \in Seq([begin : Nat, end : Nat])
  BY MinedTx DEF MineAccepted, ChainOK
<1>2. e \in [begin : Nat, end : Nat] /\ e.end = NextTx.end
  BY <1>1 DEF Tx
<1> HIDE DEF e
<1>3. Len(ledger') = Len(ledger) + 1 /\ ledger'[Len(ledger) + 1] = e /\ Len(ledger) \in Nat
  BY <1>1, <1>2, AppendProperties, LenProperties
<1>4. ledger' # <<>>
  BY <1>3, EmptySeq
<1>. QED  BY <1>2, <1>3, <1>4 DEF CurrentEnd

\* The contract's current epoch is the one before the next nonce's.
EndAtPosition ==
  /\ TransactionCount \in Nat /\ CurrentEnd \in Nat
  /\ CurrentEnd + 1 = Position(TransactionCount)

LEMMA EndPosition == SettledInv /\ Aligned => EndAtPosition
  BY NextPosition, CurrentEndNat
     DEF SettledInv, TypeOK, Aligned, ChainOK, EndAtPosition

\* What is pending lies beyond the contract's current epoch.
PendingAhead == \A n \in DOMAIN pool : pool[n].begin > CurrentEnd

LEMMA PendingIsAhead == SettledInv /\ Aligned => PendingAhead
<1> SUFFICES ASSUME SettledInv, Aligned, NEW n \in DOMAIN pool
             PROVE  pool[n].begin > CurrentEnd
  BY DEF PendingAhead
<1>1. CASE Unreleased
  BY <1>1, NoEpochYet DEF Aligned, FirstAlone
<1>2. CASE ~Unreleased
  <2>1. ChainOK /\ n \in Nat /\ n >= TransactionCount /\ pool[n].begin = Position(n)
    BY <1>2 DEF Aligned, PoolAligned, SettledInv, TypeOK, ChainOK
  <2>2. /\ TransactionCount \in Nat /\ CurrentEnd \in Nat
        /\ CurrentEnd + 1 = Position(TransactionCount)
    BY EndPosition DEF EndAtPosition
  <2>3. Position(TransactionCount) <= Position(n) /\ Position(n) \in Nat
    BY <2>1, <2>2, PositionGrows, PositionStep
  <2>. QED  BY <2>1, <2>2, <2>3
<1>. QED  BY <1>1, <1>2

\* So it does after every step.
LEMMA PendingStaysAhead == SettledInv' /\ Aligned' => PendingAhead'
  BY PendingIsAhead, PTL

\* So the contract's current epoch never moves back.
LEMMA CurrentEndGrows ==
  ASSUME SettledInv, SettledInv', Aligned, [Next]_vars
  PROVE  /\ CurrentEnd \in Nat /\ CurrentEnd' \in Nat
         /\ CurrentEnd' >= CurrentEnd
<1>1. ChainOK /\ CurrentEnd \in Nat
  BY CurrentEndNat DEF SettledInv, TypeOK, ChainOK
<1>2. CASE MineAccepted
  <2>1. NextTx \in Tx /\ TransactionCount \in DOMAIN pool
    BY <1>1, <1>2, MinedTx DEF MineAccepted
  <2>2. SettledEpoch(NextTx) /\ NextTx.begin > CurrentEnd
    BY <2>1, PendingIsAhead DEF SettledInv, SentSettled, NextTx, PendingAhead
  <2>3. NextTx.end \in Nat /\ NextTx.end >= CurrentEnd
    BY <1>1, <2>1, <2>2, LedgerAssumption DEF SettledEpoch, Tx
  <2>4. CurrentEnd' = NextTx.end
    BY <1>1, <1>2, AcceptedIsCurrent
  <2>. QED  BY <1>1, <2>3, <2>4
<1>3. CASE ~MineAccepted
  <2>1. MineReverted => UNCHANGED ledger
    BY DEF MineReverted
  <2>2. UNCHANGED ledger
    BY <1>3, <2>1, OnlyBlocksCount
  <2>. QED  BY <1>1, <2>2 DEF CurrentEnd
<1>. QED  BY <1>2, <1>3

\* After every step, what is pending lies beyond the contract's epoch before it.
LEMMA PendingIsNew ==
  ASSUME SettledInv, SettledInv', Aligned, Aligned', [Next]_vars,
         NEW n \in DOMAIN pool'
  PROVE  pool'[n].begin > CurrentEnd
<1>1. pool'[n].begin > CurrentEnd'
  BY PendingStaysAhead DEF PendingAhead
<1>2. pool'[n].begin \in Nat
  BY DEF SettledInv, TypeOK, ChainOK, Tx
<1>. QED  BY <1>1, <1>2, CurrentEndGrows

\* No restart and no recovery makes the generator hand the node an epoch the
\* contract has.
THEOREM NeverResubmits ==
  ASSUME NoFirstRelease, "revert" \notin FaultKinds
  PROVE  Spec => NoResubmission
<1>1. SettledInv /\ SettledInv' /\ Aligned /\ Aligned' /\ [Next]_vars
      => \A n \in DOMAIN pool' :
           (n \notin DOMAIN pool \/ pool'[n] # pool[n])
             => pool'[n].begin > CurrentEnd
  BY PendingIsNew
<1>. QED
  BY <1>1, SettledInvHolds, NoncesAligned, PTL DEF Spec, NoResubmission

\* How many blind transactions the counter allows since the last receipt.
Blind == IF counter = 0 THEN CheckEvery - 1 ELSE counter - 1

\* An epoch that starts at b is at most that many epochs ahead.
Near(b) == b - (CurrentEnd + 1) <= Blind * Height

DriftInv == (pc = "poll" => Near(begin)) /\ (pc = "release" => Near(next))

\* The bound is a number, and grows by a height with each blind transaction.
LEMMA BlindBounds ==
  ASSUME SettledInv
  PROVE  /\ Blind \in Nat /\ Blind * Height \in Nat
         /\ Blind * Height <= (CheckEvery - 1) * Height
         /\ (CheckEvery - 1) * Height \in Nat
<1>1. Blind \in Nat /\ CheckEvery - 1 \in Nat /\ Blind <= CheckEvery - 1
  BY GeneratorAssumption DEF SettledInv, TypeOK, ProcessOK, Blind
<1>2. ASSUME NEW a \in Nat, NEW b \in Nat, a <= b
      PROVE  a * Height \in Nat /\ b * Height \in Nat /\ a * Height <= b * Height
  <2>1. PICK d \in Nat : b = a + d
    BY <1>2
  <2>2. a * Height \in Nat /\ d * Height \in Nat
        /\ b * Height = a * Height + d * Height
    BY <2>1, LedgerAssumption
  <2>. QED  BY <2>2
<1>. QED  BY <1>1, <1>2

\* One more blind transaction.
LEMMA BlindStep ==
  ASSUME SettledInv, counter # 0, counter' = Counted
  PROVE  Blind' * Height = Blind * Height + Height
<1>1. counter \in 1 .. CheckEvery - 1
  BY DEF SettledInv, TypeOK, ProcessOK
<1>2. Counted = IF counter + 1 = CheckEvery THEN 0 ELSE counter + 1
  BY <1>1, GeneratorAssumption DEF Counted
<1>3. Blind' = counter /\ Blind = counter - 1
  BY <1>1, <1>2 DEF Blind
<1>4. counter * Height = (counter - 1) * Height + Height
  BY <1>1, LedgerAssumption
<1>. QED  BY <1>3, <1>4

\* What was near stays near, for the contract only moves on.
LEMMA NearStays ==
  ASSUME SettledInv, CurrentEnd \in Nat, CurrentEnd' \in Nat,
         CurrentEnd' >= CurrentEnd, counter' = counter,
         NEW b \in Int, Near(b)
  PROVE  b - (CurrentEnd' + 1) <= Blind' * Height
<1>1. Blind' = Blind
  BY DEF Blind
<1>2. PICK d \in Nat : d = Blind * Height
  BY BlindBounds
<1>3. PICK c \in Nat : c = CurrentEnd
  OBVIOUS
<1>4. PICK k \in Nat : k = CurrentEnd'
  OBVIOUS
<1>5. b - (c + 1) <= d /\ c <= k
  BY <1>2, <1>3, <1>4 DEF Near
<1>6. b - (k + 1) <= d
  BY <1>5
<1>. QED  BY <1>1, <1>2, <1>4, <1>6

\* The contract's next epoch is near.
LEMMA NextIsNear ==
  ASSUME SettledInv, CurrentEnd \in Nat, NEW b \in Int, b <= CurrentEnd + 1
  PROVE  Near(b)
<1>1. PICK d \in Nat : d = Blind * Height
  BY BlindBounds
<1>. QED  BY <1>1 DEF Near

\* Waiting, chunking and the environment move on with the epoch at hand.
LEMMA DriftKept ==
  ASSUME SettledInv, pc = "poll" => begin > 0, DriftInv, CurrentEnd \in Nat, CurrentEnd' \in Nat,
         CurrentEnd' >= CurrentEnd,
         \/ SetBegin \/ PollIdle \/ StartChunks \/ SkipPartial \/ ChunksDone
         \/ AdvanceHead \/ Tick \/ MineAccepted \/ MineReverted \/ Drop \/ UNCHANGED vars
  PROVE  DriftInv'
<1>1. begin \in Nat /\ endb \in Int /\ next \in Int /\ counter' = counter
  BY DEF SettledInv, TypeOK, ProcessOK, SetBegin, PollIdle, StartChunks,
       SkipPartial, ChunksDone, LeaveChunks, AdvanceHead, Tick, MineAccepted,
       MineReverted, Drop, vars, localVars
<1>2. CASE SetBegin
  BY <1>2 DEF SetBegin
<1>3. CASE StartChunks
  <2>1. pc = "poll" /\ pc' = "release" /\ next' = begin
    BY <1>3 DEF StartChunks
  <2>2. begin - (CurrentEnd' + 1) <= Blind' * Height
    BY <1>1, <2>1, NearStays DEF DriftInv
  <2>. QED  BY <2>1, <2>2 DEF DriftInv, Near
<1>4. CASE SkipPartial \/ ChunksDone
  <2>1. pc = "release" /\ pc' = "poll" /\ begin' = next
    BY <1>4, LeavesAtNext
  <2>2. next - (CurrentEnd' + 1) <= Blind' * Height
    BY <1>1, <2>1, NearStays DEF DriftInv
  <2>. QED  BY <2>1, <2>2 DEF DriftInv, Near
<1>5. CASE UNCHANGED <<pc, begin, next>>
  <2>1. pc = "poll" => begin - (CurrentEnd' + 1) <= Blind' * Height
    BY <1>1, NearStays DEF DriftInv
  <2>2. pc = "release" => next - (CurrentEnd' + 1) <= Blind' * Height
    BY <1>1, NearStays DEF DriftInv
  <2>. QED  BY <1>5, <2>1, <2>2 DEF DriftInv, Near
<1>6. CASE PollIdle \/ AdvanceHead \/ Tick \/ MineAccepted \/ MineReverted \/ Drop \/ UNCHANGED vars
  BY <1>5, <1>6 DEF PollIdle, AdvanceHead, Tick, MineAccepted, MineReverted, Drop,
       vars, localVars
<1>. QED  BY <1>2, <1>3, <1>4, <1>6

\* A blind transaction uses up one epoch of the bound; a receipt shows that the
\* contract has the epoch; a recovery reads the contract's.
LEMMA DriftMade ==
  ASSUME SettledInv, SettledInv', DriftInv,
         CurrentEnd \in Nat, CurrentEnd' \in Nat, CurrentEnd' >= CurrentEnd, CurrentEnd # 0,
         ReceiptConfirmed => next + Height <= CurrentEnd + 1,
         \/ Setup \/ FetchAtStart \/ BlindRelease \/ ReleaseWithReceipt
         \/ ReceiptConfirmed \/ ReceiptRejected \/ ReceiptMissing
         \/ Recover \/ Crash
  PROVE  DriftInv'
<1>1. CASE pc' \notin {"poll", "release"}
  BY <1>1 DEF DriftInv
<1>2. ASSUME FetchAtStart \/ RecoverEpoch, pc' = "poll" PROVE DriftInv'
  <2>1. PICK default : begin' = EpochFromContract(default)
    BY <1>2 DEF FetchAtStart, RecoverEpoch, LeaveChunks, Exit
  <2>2. begin' = CurrentEnd + 1 /\ counter' = counter
    BY <1>2, <2>1 DEF EpochFromContract, FetchAtStart, RecoverEpoch, Exit
  <2>3. Near(CurrentEnd + 1)
    BY NextIsNear
  <2>4. CurrentEnd + 1 - (CurrentEnd' + 1) <= Blind' * Height
    BY <2>2, <2>3, NearStays
  <2>. QED  BY <1>2, <2>2, <2>4 DEF DriftInv, Near
<1>3. ASSUME BlindRelease, pc' = "release" PROVE DriftInv'
  <2>1. /\ pc = "release" /\ counter # 0 /\ counter' = Counted
        /\ next' = next + Height
    BY <1>3 DEF BlindRelease, ReceiptDue, Advance
  <2>2. Blind' * Height = Blind * Height + Height
    BY <2>1, BlindStep
  <2>3. PICK d \in Nat : d = Blind * Height
    BY BlindBounds
  <2>4. PICK c \in Nat : c = CurrentEnd
    OBVIOUS
  <2>5. PICK k \in Nat : k = CurrentEnd'
    OBVIOUS
  <2>6. next \in Int /\ next - (c + 1) <= d /\ c <= k
    BY <2>1, <2>3, <2>4, <2>5 DEF DriftInv, Near, SettledInv, TypeOK, ProcessOK
  <2>7. PICK b \in Int : b = next + Height
    BY <2>6, LedgerAssumption
  <2>8. PICK e \in Nat : e = d + Height
    BY LedgerAssumption
  <2>9. b - (k + 1) <= e
    BY <2>6, <2>7, <2>8, LedgerAssumption
  <2>10. next' = b /\ Blind' * Height = e
    BY <2>1, <2>2, <2>3, <2>7, <2>8
  <2>11. next' - (CurrentEnd' + 1) <= Blind' * Height
    BY <2>5, <2>9, <2>10
  <2>. QED  BY <1>3, <2>11 DEF DriftInv, Near
<1>4. ASSUME ReceiptConfirmed PROVE DriftInv'
  <2>1. /\ pc = "receipt" /\ pc' = "release" /\ counter' = counter
        /\ next' = next + Height
    BY <1>4 DEF ReceiptConfirmed, Advance
  <2>2. next \in Int
    BY DEF SettledInv, TypeOK, ProcessOK
  <2>3. next + Height <= CurrentEnd + 1
    BY <1>4
  <2>4. PICK b \in Int : b = next + Height
    BY <2>2, LedgerAssumption
  <2>5. Near(b)
    BY <2>3, <2>4, NextIsNear
  <2>6. b - (CurrentEnd' + 1) <= Blind' * Height
    BY <2>1, <2>5, NearStays
  <2>7. next' - (CurrentEnd' + 1) <= Blind' * Height
    BY <2>1, <2>4, <2>6
  <2>. QED  BY <2>1, <2>7 DEF DriftInv, Near
<1>5. \/ pc' \notin {"poll", "release"}
      \/ (FetchAtStart \/ RecoverEpoch) /\ pc' = "poll"
      \/ BlindRelease /\ pc' = "release"
      \/ ReceiptConfirmed
  <2>1. CASE FetchAtStart
    BY <2>1 DEF FetchAtStart, Exit
  <2>2. CASE Setup \/ ReleaseWithReceipt \/ ReceiptRejected \/ ReceiptMissing \/ Crash
    BY <2>2 DEF Setup, ReleaseWithReceipt, ReceiptRejected, ReceiptMissing, Crash, Exit
  <2>3. CASE BlindRelease
    BY <2>3 DEF BlindRelease, Advance
  <2>4. CASE Recover
    BY <2>4 DEF Recover, RecoverNonce, RecoverEpoch, RecoveryFails, LeaveChunks, Exit
  <2>. QED  BY <2>1, <2>2, <2>3, <2>4
<1>. QED  BY <1>1, <1>2, <1>3, <1>4, <1>5

\* The first epoch that the contract takes leaves the process at or before it, if
\* settings.ticker_begin_block says where that epoch starts.
LEMMA FirstIsNear ==
  ASSUME SettledInv, Unreleased, FirstAlone, TickerBegin > 0, MineAccepted
  PROVE  DriftInv'
<1>1. /\ NextTx \in Tx /\ NextTx.begin = TickerBegin
      /\ NextTx.end = NextTx.begin + Height - 1
      /\ UNCHANGED <<pc, localVars>> /\ ChainOK
  BY FirstAccepted DEF SettledInv, TypeOK
<1>2. CurrentEnd' + 1 = TickerBegin + Height
  <2>1. CurrentEnd' = NextTx.end
    BY <1>1, AcceptedIsCurrent
  <2>. QED  BY <1>1, <2>1, LedgerAssumption, GeneratorAssumption
<1>3. Blind' = Blind
  BY <1>1 DEF Blind, localVars
<1>4. PICK d \in Nat : d = Blind * Height
  BY BlindBounds
<1>5. TickerBegin - (TickerBegin + Height) <= d
  BY <1>4, LedgerAssumption, GeneratorAssumption
<1>6. /\ pc = "poll" => begin = TickerBegin
      /\ pc = "release" => next = TickerBegin
  BY DEF FirstAlone
<1>. QED
  BY <1>1, <1>2, <1>3, <1>4, <1>5, <1>6 DEF DriftInv, Near, localVars

\* A receipt shows that the contract has the epoch of its nonce.
LEMMA ReceiptShows ==
  ASSUME SettledInv, Aligned, ~Unreleased, ReceiptConfirmed
  PROVE  next + Height <= CurrentEnd + 1
<1>1. pc = "receipt" /\ nonce < TransactionCount
  BY DEF ReceiptConfirmed, ReceiptOk, HasReceipt
<1>2. next = Position(nonce) /\ nonce \in Nat /\ next \in Int
  BY <1>1 DEF Aligned, ProcessAligned, SettledInv, Shape, TypeOK, ProcessOK
<1>3. TransactionCount \in Nat /\ CurrentEnd + 1 = Position(TransactionCount)
  BY EndPosition DEF EndAtPosition
<1>4. nonce + 1 \in Nat /\ nonce + 1 <= TransactionCount
  BY <1>1, <1>2, <1>3
<1>5. ChainOK /\ Position(nonce + 1) = next + Height
  BY <1>2, PositionStep DEF SettledInv, TypeOK
<1>. QED  BY <1>3, <1>4, <1>5, PositionGrows

\* A process that sends is no further ahead than between two receipts.
LEMMA NearIsBounded ==
  ASSUME SettledInv, DriftInv, CurrentEnd \in Nat
  PROVE  BoundedDrift
<1> SUFFICES ASSUME pc = "release"
             PROVE  next - (CurrentEnd + 1) <= (CheckEvery - 1) * Height
  BY DEF BoundedDrift
<1>1. next \in Int
  BY DEF SettledInv, TypeOK, ProcessOK
<1>2. PICK d \in Nat : d = Blind * Height
  BY BlindBounds
<1>3. PICK k \in Nat : k = (CheckEvery - 1) * Height
  BY BlindBounds
<1>4. d <= k
  BY <1>2, <1>3, BlindBounds
<1>5. next - (CurrentEnd + 1) <= d
  BY <1>2 DEF DriftInv, Near
<1>. QED  BY <1>1, <1>3, <1>4, <1>5

\* Whenever the process sends, what it takes for released and the contract does
\* not have is at most the blind transactions between two receipts, provided that the
\* contract or the settings say where the first epoch begins.
THEOREM DriftIsBounded ==
  ASSUME BaseEnd > 0 \/ TickerBegin > 0, "revert" \notin FaultKinds
  PROVE  Spec => []BoundedDrift
<1>0. NoFirstRelease
  BY DEF NoFirstRelease
<1>1. Init => Unreleased \/ DriftInv
  BY DEF Init, DriftInv
<1>2. SettledInv /\ SettledInv' /\ Aligned /\ (Unreleased \/ DriftInv) /\ [Next]_vars
      => (Unreleased \/ DriftInv)'
  <2> SUFFICES ASSUME SettledInv, SettledInv', Aligned, Unreleased \/ DriftInv, [Next]_vars
               PROVE  Unreleased' \/ DriftInv'
    OBVIOUS
  <2>1. CASE Unreleased /\ ~MineAccepted
    BY <1>0, <2>1, FirstStaysAlone DEF Aligned
  <2>2. CASE Unreleased /\ MineAccepted
    <3>1. TickerBegin > 0
      BY <2>2 DEF Unreleased
    <3>. QED  BY <2>2, <3>1, FirstIsNear DEF Aligned
  <2>3. CASE ~Unreleased
    <3>1. /\ CurrentEnd \in Nat /\ CurrentEnd' \in Nat
          /\ CurrentEnd' >= CurrentEnd
      BY CurrentEndGrows
    <3>2. ~First
      BY DEF Aligned, AtFirst, First, FirstCheck, FirstHead, FirstSend,
             FirstReceipt, FirstReset
    <3>3. (pc = "poll" => begin > 0) /\ CurrentEnd # 0
      BY <2>3, ContractHasEpoch DEF Aligned, ProcessAligned, SettledInv, TypeOK
    <3>4. ReceiptConfirmed => next + Height <= CurrentEnd + 1
      BY <2>3, ReceiptShows
    <3>. QED
      BY <2>3, <3>1, <3>2, <3>3, <3>4, DriftKept, DriftMade
         DEF Next, Generator, Loop, Environment
  <2>. QED  BY <2>1, <2>2, <2>3
<1>3. SettledInv /\ Aligned /\ (Unreleased \/ DriftInv) => BoundedDrift
  BY EndPosition, NearIsBounded, NoEpochYet DEF EndAtPosition, BoundedDrift
<1>. QED
  BY <1>0, <1>1, <1>2, <1>3, SettledInvHolds, NoncesAligned, PTL DEF Spec
=============================================================================
