------------------------ MODULE EpochRejectionProofs ------------------------
(***************************************************************************)
(* The generator before a contract that rejects what is no successor, with *)
(* every fault, reverted transactions included.  A nonce no longer tells   *)
(* the epoch: a rejected transaction uses up a nonce without an epoch, so  *)
(* that the epoch at hand may be farther from the contract's than its      *)
(* nonce is from the mined ones, but never nearer.                         *)
(***************************************************************************)
EXTENDS EpochGeneratorProofs

-----------------------------------------------------------------------------
(* The contract.                                                           *)

\* A block moves the account on by one nonce, and the contract by one epoch or not.
Moved ==
  \/ TransactionCount' = TransactionCount /\ CurrentEnd' = CurrentEnd
  \/ /\ TransactionCount' = TransactionCount + 1
     /\ CurrentEnd' = CurrentEnd \/ CurrentEnd' = CurrentEnd + Height

\* One transaction more.
LEMMA CountedOnce ==
  ASSUME ChainOK, NEW ok \in BOOLEAN, Mine(ok)
  PROVE  TransactionCount' = TransactionCount + 1
<1>1. [tx |-> NextTx, ok |-> ok] \in [tx : Tx, ok : BOOLEAN]
  BY MinedTx
<1>. QED  BY <1>1, AppendProperties DEF Mine, ChainOK, TransactionCount

\* Every step moves the two chains as a block does, or not at all.
LEMMA ChainsMove ==
  ASSUME ContractChecks, SettledInv, CurrentEnd > 0, [Next]_vars
  PROVE  Moved
<1>1. ChainOK
  BY DEF SettledInv, TypeOK
<1>2. CASE MineAccepted
  <2>1. /\ Follows(NextTx) /\ NextTx \in Tx /\ TransactionCount \in DOMAIN pool
    BY <1>1, <1>2, MinedTx DEF MineAccepted
  <2>2. SettledEpoch(NextTx)
    BY <2>1 DEF SettledInv, SentSettled, NextTx
  <2>3. CurrentEnd \in Nat
    BY <1>1, CurrentEndNat DEF ChainOK
  <2>4. NextTx.begin = CurrentEnd + 1
    BY <2>1, <2>3 DEF Follows
  <2>5. NextTx.end = CurrentEnd + Height
    BY <2>1, <2>2, <2>3, <2>4, LedgerAssumption DEF SettledEpoch, Tx
  <2>6. TransactionCount' = TransactionCount + 1
    BY <1>1, <1>2, CountedOnce DEF MineAccepted
  <2>. QED  BY <1>1, <1>2, <2>5, <2>6, AcceptedIsCurrent DEF Moved
<1>3. CASE MineReverted
  <2>1. TransactionCount' = TransactionCount + 1
    BY <1>1, <1>3, CountedOnce DEF MineReverted
  <2>. QED  BY <1>3, <2>1 DEF MineReverted, CurrentEnd, Moved
<1>4. CASE UNCHANGED <<mined, ledger>>
  BY <1>4 DEF Moved, TransactionCount, CurrentEnd
<1>. QED  BY <1>2, <1>3, <1>4, OnlyBlocksCount

\* The contract never moves back.
LEMMA MovesOn ==
  ASSUME ContractChecks, SettledInv, CurrentEnd > 0, [Next]_vars
  PROVE  /\ CurrentEnd \in Nat /\ CurrentEnd' \in Nat
         /\ CurrentEnd' >= CurrentEnd /\ CurrentEnd' > 0
<1>1. CurrentEnd \in Nat
  BY CurrentEndNat DEF SettledInv, TypeOK, ChainOK
<1>2. PICK c \in Nat : c = CurrentEnd
  BY <1>1
<1>3. CurrentEnd' = c \/ CurrentEnd' = c + Height
  BY <1>2, ChainsMove DEF Moved
<1>. QED  BY <1>2, <1>3, LedgerAssumption

-----------------------------------------------------------------------------
(* The epoch at hand is not behind its nonce.                              *)

\* Nonce n is used up, or epoch b is at least as many epochs after the contract's as n
\* is nonces after the mined ones.
Ahead(n, b) ==
  n < TransactionCount \/ b >= CurrentEnd + 1 + (n - TransactionCount) * Height

NotBehind ==
  /\ CurrentEnd > 0 /\ ~AtFirst
  /\ pc = "poll" => (BaseEnd > 0 \/ TickerBegin > 0 => begin > 0) /\ Ahead(nonce, begin)
  /\ pc = "release" => next > 0 /\ Ahead(nonce, next)
  /\ pc = "receipt" => next > 0 /\ Ahead(nonce + 1, next + Height)
  /\ pc \in {"fetch", "failed_epoch", "error_epoch"} => nonce <= TransactionCount

\* That is so as soon as the contract has an epoch; before, the first one is alone.
BehindInv == ~AtFirst /\ (IF Unreleased THEN FirstAlone ELSE NotBehind)

\* The numbers that Ahead is about.
LEMMA Numbers ==
  ASSUME SettledInv
  PROVE  /\ TransactionCount \in Nat /\ CurrentEnd \in Nat
         /\ begin \in Nat /\ next \in Int /\ endb \in Int /\ nonce \in Int
         /\ pc # "down" => nonce \in Nat
  BY CurrentEndNat, LenProperties
     DEF SettledInv, TypeOK, ProcessOK, ChainOK, Shape, TransactionCount

\* A distance in epochs, and one epoch less.
LEMMA OneEpochLess ==
  ASSUME NEW k \in Int
  PROVE  /\ k * Height \in Int
         /\ (k - 1) * Height = k * Height - Height
         /\ (k + 1) * Height = k * Height + Height
  BY LedgerAssumption

\* A block takes away one nonce, and at most one epoch.
LEMMA AheadStays ==
  ASSUME SettledInv, Moved, NEW n \in Int, NEW b \in Int, Ahead(n, b)
  PROVE  n < TransactionCount' \/ b >= CurrentEnd' + 1 + (n - TransactionCount') * Height
<1>1. PICK t \in Nat : t = TransactionCount
  BY Numbers
<1>2. PICK c \in Nat : c = CurrentEnd
  BY Numbers
<1>3. PICK h \in Nat \ {0} : h = Height
  BY LedgerAssumption
<1>4. PICK d \in Int : d = n - t
  OBVIOUS
<1>5. PICK x \in Int : x = d * Height
  BY OneEpochLess
<1>6. n < t \/ b >= c + 1 + x
  BY <1>1, <1>2, <1>4, <1>5 DEF Ahead
<1>7. CASE TransactionCount' = TransactionCount /\ CurrentEnd' = CurrentEnd
  BY <1>1, <1>2, <1>4, <1>5, <1>6, <1>7
<1>8. CASE /\ TransactionCount' = TransactionCount + 1
           /\ CurrentEnd' = CurrentEnd \/ CurrentEnd' = CurrentEnd + Height
  <2>1. n - TransactionCount' = d - 1
    BY <1>1, <1>4, <1>8
  <2>2. (d - 1) * Height = x - h
    BY <1>3, <1>5, OneEpochLess
  <2>3. PICK e \in Nat : e = CurrentEnd'
    BY <1>2, <1>3, <1>8
  <2>4. e <= c + h
    BY <1>2, <1>3, <1>8, <2>3
  <2>5. n < t + 1 \/ b >= e + 1 + (x - h)
    BY <1>6, <2>4
  <2>. QED  BY <1>1, <1>8, <2>1, <2>2, <2>3, <2>5
<1>. QED  BY <1>7, <1>8 DEF Moved

\* After what is sent with a free nonce comes the next nonce with the next epoch.
LEMMA AheadNext ==
  ASSUME SettledInv, NEW n \in Int, NEW b \in Int, Ahead(n, b), n >= TransactionCount
  PROVE  Ahead(n + 1, b + Height) /\ b > CurrentEnd
<1>1. PICK t \in Nat : t = TransactionCount
  BY Numbers
<1>2. PICK c \in Nat : c = CurrentEnd
  BY Numbers
<1>3. PICK h \in Nat \ {0} : h = Height
  BY LedgerAssumption
<1>4. PICK d \in Nat : d = n - t
  BY <1>1
<1>5. PICK x \in Nat : x = d * Height
  BY LedgerAssumption
<1>6. b >= c + 1 + x
  BY <1>1, <1>2, <1>4, <1>5 DEF Ahead
<1>7. (d + 1) * Height = x + h
  BY <1>3, <1>5, OneEpochLess
<1>8. n + 1 - t = d + 1
  BY <1>4
<1>9. b + h >= c + 1 + (x + h)
  BY <1>6
<1>. QED  BY <1>1, <1>2, <1>3, <1>6, <1>7, <1>8, <1>9 DEF Ahead

\* The contract's next epoch goes with a nonce read before it.
LEMMA AheadAtCurrent ==
  ASSUME SettledInv, NEW n \in Int, n <= TransactionCount
  PROVE  Ahead(n, CurrentEnd + 1)
<1>1. PICK t \in Nat : t = TransactionCount
  BY Numbers
<1>2. PICK c \in Nat : c = CurrentEnd
  BY Numbers
<1>3. n < t \/ n - t = 0
  BY <1>1
<1>4. 0 * Height = 0
  BY LedgerAssumption
<1>. QED  BY <1>1, <1>2, <1>3, <1>4 DEF Ahead

-----------------------------------------------------------------------------
(* NotBehind is inductive.                                                 *)

\* What a place in the code holds stays ahead as long as the process stays there.
LEMMA HeldStays ==
  ASSUME SettledInv, NotBehind, Moved, CurrentEnd' > 0,
         UNCHANGED <<pc, nonce, begin, next>>
  PROVE  NotBehind'
<1>1. nonce \in Int /\ nonce + 1 \in Int /\ begin \in Int /\ next \in Int /\ next + Height \in Int
  BY Numbers, LedgerAssumption
<1>2. ASSUME NEW n \in Int, NEW b \in Int, Ahead(n, b)
      PROVE  n < TransactionCount' \/ b >= CurrentEnd' + 1 + (n - TransactionCount') * Height
  BY <1>2, AheadStays
<1>3. pc = "poll" =>
        (BaseEnd > 0 \/ TickerBegin > 0 => begin > 0) /\ Ahead(nonce, begin)'
  BY <1>1, <1>2 DEF NotBehind, Ahead
<1>4. pc = "release" => next > 0 /\ Ahead(nonce, next)'
  BY <1>1, <1>2 DEF NotBehind, Ahead
<1>5. pc = "receipt" => next > 0 /\ Ahead(nonce + 1, next + Height)'
  BY <1>1, <1>2 DEF NotBehind, Ahead
<1>6. pc \in {"fetch", "failed_epoch", "error_epoch"} => nonce <= TransactionCount'
  BY <1>1, Numbers DEF NotBehind, Moved
<1>. QED  BY <1>3, <1>4, <1>5, <1>6 DEF NotBehind, AtFirst

\* Without a block, nonces and epochs compare as before.
LEMMA ChainsStand ==
  ASSUME UNCHANGED <<mined, ledger>>
  PROVE  /\ TransactionCount' = TransactionCount /\ CurrentEnd' = CurrentEnd
         /\ \A n, b : Ahead(n, b) => n < TransactionCount'
              \/ b >= CurrentEnd' + 1 + (n - TransactionCount') * Height
  BY DEF TransactionCount, CurrentEnd, Ahead

\* Starts and recoveries read the nonce and then the contract's epoch.
LEMMA ReadingNotBehind ==
  ASSUME SettledInv, NotBehind, Setup \/ FetchAtStart \/ Recover \/ Crash
  PROVE  NotBehind'
<1>1. /\ UNCHANGED <<mined, ledger>>
      /\ TransactionCount' = TransactionCount /\ CurrentEnd' = CurrentEnd
      /\ CurrentEnd > 0 /\ TransactionCount \in Nat /\ CurrentEnd \in Nat
  <2>1. UNCHANGED <<mined, ledger>>
    BY DEF Setup, FetchAtStart, Recover, RecoverNonce, RecoverEpoch, RecoveryFails,
           Crash, chainVars
  <2>. QED  BY <2>1, ChainsStand, Numbers DEF NotBehind
<1>2. CASE pc' \in {"down", "failed_nonce", "error_nonce"}
  BY <1>1, <1>2 DEF NotBehind, AtFirst
<1>3. CASE Setup \/ RecoverNonce
  BY <1>1, <1>3 DEF Setup, RecoverNonce, NonceFromChain, NotBehind, AtFirst
<1>4. ASSUME FetchAtStart \/ RecoverEpoch, pc' # "down" PROVE NotBehind'
  <2>0. \A default : EpochFromContract(default) = CurrentEnd + 1 /\ CurrentEnd + 1 # 0
    <3>1. PICK c \in Nat \ {0} : c = CurrentEnd
      BY <1>1
    <3>. QED  BY <3>1 DEF EpochFromContract
  <2>1. /\ pc' = "poll" /\ nonce' = nonce /\ begin' = CurrentEnd + 1
        /\ nonce <= TransactionCount
    <3>1. CASE FetchAtStart
      <4>1. /\ pc = "fetch" /\ begin' = EpochFromContract(TickerBegin) /\ nonce' = nonce
            /\ pc' = IF StartSet /\ begin' = 0 THEN "first_check" ELSE "poll"
        BY <1>4, <3>1 DEF FetchAtStart, Exit
      <4>2. begin' = CurrentEnd + 1 /\ begin' # 0
        BY <2>0, <4>1
      <4>. QED  BY <4>1, <4>2 DEF NotBehind
    <3>2. CASE RecoverEpoch
      BY <2>0, <3>2 DEF RecoverEpoch, LeaveChunks, NotBehind
    <3>. QED  BY <1>4, <3>1, <3>2
  <2>2. Ahead(nonce, CurrentEnd + 1)
    BY <2>1, AheadAtCurrent, Numbers
  <2>3. Ahead(nonce, begin)'
    BY <1>1, <2>1, <2>2 DEF Ahead
  <2>. QED  BY <1>1, <2>1, <2>3 DEF NotBehind, AtFirst
<1>5. \/ pc' \in {"down", "failed_nonce", "error_nonce"}
      \/ Setup \/ RecoverNonce
      \/ (FetchAtStart \/ RecoverEpoch) /\ pc' # "down"
  BY DEF Recover, RecoveryFails, Crash, Exit
<1>. QED  BY <1>2, <1>3, <1>4, <1>5

\* Waiting and chunking keep the first block of the epoch at hand.
LEMMA LoopNotBehind ==
  ASSUME SettledInv, NotBehind,
         SetBegin \/ StartChunks \/ SkipPartial \/ ChunksDone
  PROVE  NotBehind'
<1>1. /\ UNCHANGED <<mined, ledger, nonce>>
      /\ TransactionCount' = TransactionCount /\ CurrentEnd' = CurrentEnd
      /\ CurrentEnd > 0
  <2>1. UNCHANGED <<mined, ledger, nonce>>
    BY DEF SetBegin, StartChunks, SkipPartial, ChunksDone, chainVars
  <2>. QED  BY <2>1, ChainsStand DEF NotBehind
<1>2. CASE SetBegin
  <2>1. pc = "poll" /\ begin = 0 /\ pc' = "poll" /\ nonce \in Nat
    BY <1>2, Numbers DEF SetBegin
  <2>2. PICK c \in Nat \ {0} : c = CurrentEnd
    BY <1>1, Numbers
  <2>3. ~(0 >= CurrentEnd + 1 + (nonce - TransactionCount) * Height)
        \/ nonce < TransactionCount
    <3>1. PICK d \in Int : d = nonce - TransactionCount
      BY <2>1, Numbers
    <3>2. d \in Nat => d * Height \in Nat
      BY LedgerAssumption
    <3>3. PICK x \in Int : x = d * Height
      BY OneEpochLess
    <3>4. d \in Nat => ~(0 >= c + 1 + x)
      BY <3>2, <3>3
    <3>. QED  BY <2>1, <2>2, <3>1, <3>3, <3>4, Numbers
  <2>4. nonce < TransactionCount /\ ~(BaseEnd > 0 \/ TickerBegin > 0)
    BY <2>1, <2>3 DEF NotBehind, Ahead
  <2>. QED  BY <1>1, <2>1, <2>4 DEF NotBehind, AtFirst, Ahead
<1>3. CASE StartChunks
  <2>1. pc = "poll" /\ pc' = "release" /\ next' = begin /\ begin > 0
    BY <1>3, Numbers DEF StartChunks
  <2>2. Ahead(nonce, next)'
    BY <1>1, <2>1 DEF NotBehind, Ahead
  <2>. QED  BY <1>1, <2>1, <2>2 DEF NotBehind, AtFirst
<1>4. ASSUME SkipPartial \/ ChunksDone PROVE NotBehind'
  <2>1. pc = "release" /\ pc' = "poll" /\ begin' = next /\ next > 0
    BY <1>4, LeavesAtNext DEF NotBehind
  <2>2. Ahead(nonce, begin)'
    BY <1>1, <2>1 DEF NotBehind, Ahead
  <2>. QED  BY <1>1, <2>1, <2>2 DEF NotBehind, AtFirst
<1>. QED  BY <1>2, <1>3, <1>4

\* A send the node takes has a free nonce, and so an epoch beyond the contract's; it
\* leaves the next nonce with the next epoch.
LEMMA SendNotBehind ==
  ASSUME SettledInv, NotBehind, BlindRelease \/ ReleaseWithReceipt
  PROVE  /\ NotBehind'
         /\ \A n \in DOMAIN pool' :
              n \notin DOMAIN pool \/ pool'[n] # pool[n] => pool'[n].begin > CurrentEnd
<1>1. /\ pc = "release" /\ next > 0 /\ Ahead(nonce, next) /\ CurrentEnd > 0
      /\ nonce \in Int /\ next \in Int /\ TransactionCount \in Nat
  BY Numbers DEF BlindRelease, ReleaseWithReceipt, NotBehind
<1>2. ASSUME NEW f, NEW answer, Send(nonce, Transaction(Chunk, Gas(f)), answer)
      PROVE  /\ TransactionCount' = TransactionCount /\ CurrentEnd' = CurrentEnd
             /\ answer = "ok" => Ahead(nonce + 1, next + Height)
             /\ \A n \in DOMAIN pool' :
                  n \notin DOMAIN pool \/ pool'[n] # pool[n] => pool'[n].begin > CurrentEnd
  <2> DEFINE tx == Transaction(Chunk, Gas(f))
  <2>1. tx.begin = next
    BY DEF Transaction, Chunk
  <2>2. Send(nonce, tx, answer)
    BY <1>2
  <2> HIDE DEF tx
  <2>3. TransactionCount' = TransactionCount /\ CurrentEnd' = CurrentEnd
    BY <2>2, ChainsStand DEF Send
  <2>4. CASE Accept(nonce, tx)
    <3>1. nonce >= TransactionCount
      BY <1>1, <2>4 DEF Accept, Acceptable, TooLow
    <3>2. Ahead(nonce + 1, next + Height) /\ next > CurrentEnd
      BY <1>1, <3>1, AheadNext
    <3>3. pool' = [m \in DOMAIN pool \cup {nonce} |-> IF m = nonce THEN tx ELSE pool[m]]
      BY <2>4 DEF Accept, Submit
    <3>. QED  BY <2>1, <2>3, <3>2, <3>3
  <2>5. CASE UNCHANGED pool /\ answer # "ok"
    BY <2>3, <2>5
  <2>6. "ok" \notin Refusals(nonce, tx)
    BY DEF Refusals
  <2>. QED  BY <2>2, <2>4, <2>5, <2>6 DEF Send
<1>3. CASE BlindRelease
  <2>1. PICK answer :
           /\ Send(nonce, Transaction(Chunk, Gas(FALSE)), answer)
           /\ IF answer = "ok"
              THEN Advance
              ELSE pc' = "error_nonce" /\ UNCHANGED <<nonce, next>>
    BY <1>3 DEF BlindRelease
  <2>2. /\ TransactionCount' = TransactionCount /\ CurrentEnd' = CurrentEnd
        /\ answer = "ok" => Ahead(nonce + 1, next + Height)
        /\ \A n \in DOMAIN pool' :
             n \notin DOMAIN pool \/ pool'[n] # pool[n] => pool'[n].begin > CurrentEnd
    BY <1>2, <2>1
  <2>3. CASE answer = "ok"
    <3>1. pc' = "release" /\ nonce' = nonce + 1 /\ next' = next + Height
      BY <2>1, <2>3 DEF Advance
    <3>2. Ahead(nonce, next)' /\ next' > 0
      BY <1>1, <2>2, <2>3, <3>1, LedgerAssumption DEF Ahead
    <3>. QED  BY <1>1, <2>2, <3>1, <3>2 DEF NotBehind, AtFirst
  <2>4. CASE answer # "ok"
    BY <1>1, <2>1, <2>2, <2>4 DEF NotBehind, AtFirst
  <2>. QED  BY <2>3, <2>4
<1>4. CASE ReleaseWithReceipt
  <2>1. PICK answer :
           /\ Send(nonce, Transaction(Chunk, Gas(force)), answer)
           /\ pc' = IF answer = "ok" THEN "receipt" ELSE "error_nonce"
    BY <1>4 DEF ReleaseWithReceipt
  <2>2. /\ TransactionCount' = TransactionCount /\ CurrentEnd' = CurrentEnd
        /\ answer = "ok" => Ahead(nonce + 1, next + Height)
        /\ \A n \in DOMAIN pool' :
             n \notin DOMAIN pool \/ pool'[n] # pool[n] => pool'[n].begin > CurrentEnd
    BY <1>2, <2>1
  <2>3. UNCHANGED <<nonce, next>>
    BY <1>4 DEF ReleaseWithReceipt
  <2>4. answer = "ok" => Ahead(nonce + 1, next + Height)'
    BY <2>2, <2>3 DEF Ahead
  <2>. QED  BY <1>1, <2>1, <2>2, <2>3, <2>4 DEF NotBehind, AtFirst
<1>. QED  BY <1>3, <1>4

\* After a receipt both nonce and epoch have moved on.
LEMMA ReceiptNotBehind ==
  ASSUME SettledInv, NotBehind, ReceiptConfirmed \/ ReceiptRejected \/ ReceiptMissing
  PROVE  NotBehind'
<1>1. /\ pc = "receipt" /\ next > 0 /\ Ahead(nonce + 1, next + Height)
      /\ CurrentEnd > 0 /\ next \in Int
      /\ TransactionCount' = TransactionCount /\ CurrentEnd' = CurrentEnd
  BY Numbers, ChainsStand
     DEF ReceiptConfirmed, ReceiptRejected, ReceiptMissing, NotBehind, chainVars
<1>2. CASE ReceiptConfirmed
  <2>1. pc' = "release" /\ nonce' = nonce + 1 /\ next' = next + Height
    BY <1>2 DEF ReceiptConfirmed, Advance
  <2>2. Ahead(nonce, next)' /\ next' > 0
    BY <1>1, <2>1, LedgerAssumption DEF Ahead
  <2>. QED  BY <1>1, <2>1, <2>2 DEF NotBehind, AtFirst
<1>3. CASE ReceiptRejected \/ ReceiptMissing
  BY <1>1, <1>3 DEF ReceiptRejected, ReceiptMissing, NotBehind, AtFirst
<1>. QED  BY <1>2, <1>3

\* Every step keeps NotBehind, given SettledInv.
LEMMA NotBehindStep ==
  ASSUME ContractChecks
  PROVE  SettledInv /\ NotBehind /\ [Next]_vars => NotBehind'
<1> SUFFICES ASSUME SettledInv, NotBehind, [Next]_vars PROVE NotBehind'
  OBVIOUS
<1>1. ~First
  BY DEF NotBehind, AtFirst, First, FirstCheck, FirstHead, FirstSend, FirstReceipt, FirstReset
<1>2. CASE Setup \/ FetchAtStart \/ Recover \/ Crash
  BY <1>2, ReadingNotBehind
<1>3. CASE SetBegin \/ StartChunks \/ SkipPartial \/ ChunksDone
  BY <1>3, LoopNotBehind
<1>4. CASE BlindRelease \/ ReleaseWithReceipt
  BY <1>4, SendNotBehind
<1>5. CASE ReceiptConfirmed \/ ReceiptRejected \/ ReceiptMissing
  BY <1>5, ReceiptNotBehind
<1>6. CASE \/ PollIdle \/ AdvanceHead \/ Tick \/ MineAccepted \/ MineReverted \/ Drop
           \/ UNCHANGED vars
  <2>1. UNCHANGED <<pc, nonce, begin, next>>
    BY <1>6 DEF PollIdle, AdvanceHead, Tick, MineAccepted, MineReverted, Drop, vars, localVars
  <2>2. Moved /\ CurrentEnd' > 0
    BY ChainsMove, MovesOn DEF NotBehind
  <2>. QED  BY <2>1, <2>2, HeldStays
<1>. QED
  BY <1>1, <1>2, <1>3, <1>4, <1>5, <1>6 DEF Next, Generator, Loop, Environment

\* The epoch that the contract takes first leaves behind it the nonce of the process,
\* or the epoch that the process waits for.
LEMMA FirstTaken ==
  ASSUME SettledInv, Unreleased, FirstAlone, ~AtFirst, MineAccepted
  PROVE  NotBehind'
<1>1. /\ NextTx \in Tx /\ NextTx.begin > 0 /\ NextTx.end = NextTx.begin + Height - 1
      /\ UNCHANGED <<pc, localVars>> /\ ChainOK
      /\ TransactionCount \in Nat /\ TransactionCount' = TransactionCount + 1
      /\ pc # "down" => nonce \in Nat /\ nonce <= TransactionCount
      /\ pc = "receipt" => nonce < TransactionCount \/ next = NextTx.begin
  BY FirstAccepted DEF SettledInv, TypeOK
<1>2. PICK b \in Nat \ {0} : b = NextTx.begin
  BY <1>1 DEF Tx
<1>3. PICK t \in Nat : t = TransactionCount
  BY <1>1
<1>4. CurrentEnd' + 1 = b + Height /\ CurrentEnd' > 0
  <2>1. CurrentEnd' = NextTx.end
    BY <1>1, AcceptedIsCurrent
  <2>. QED  BY <1>1, <1>2, <2>1, LedgerAssumption
<1>5. pc # "down" => nonce < TransactionCount'
  BY <1>1, <1>3
<1>6. pc = "poll" => (BaseEnd > 0 \/ TickerBegin > 0 => begin > 0)
  <2>1. BaseEnd = 0 /\ TickerBegin \in Nat
    BY GeneratorAssumption DEF Unreleased
  <2>2. pc = "poll" /\ TickerBegin > 0 => begin = TickerBegin
    BY DEF FirstAlone
  <2>. QED  BY <2>1, <2>2
<1>7. pc \in {"release", "receipt"} => next > 0
  BY DEF FirstAlone
<1>8. ASSUME pc = "receipt" PROVE Ahead(nonce + 1, next + Height)'
  <2>1. CASE nonce < TransactionCount
    <3>1. nonce + 1 < TransactionCount'
      BY <1>1, <1>3, <1>8, <2>1
    <3>. QED  BY <1>1, <3>1 DEF Ahead, localVars
  <2>2. CASE ~(nonce < TransactionCount)
    <3>1. (nonce + 1) - TransactionCount' = 0 /\ next = b
      BY <1>1, <1>2, <1>3, <1>8, <2>2
    <3>2. 0 * Height = 0
      BY LedgerAssumption
    <3>3. next' = b /\ (nonce' + 1) - TransactionCount' = 0
      BY <1>1, <3>1 DEF localVars
    <3>4. ((nonce' + 1) - TransactionCount') * Height = 0
      BY <3>2, <3>3
    <3>5. CurrentEnd' + 1 + 0 = b + Height /\ b + Height \in Int
      BY <1>4, LedgerAssumption
    <3>6. next' + Height >= CurrentEnd' + 1 + ((nonce' + 1) - TransactionCount') * Height
      BY <3>3, <3>4, <3>5
    <3>. QED  BY <3>6 DEF Ahead
  <2>. QED  BY <2>1, <2>2
<1>9. pc \in {"fetch", "failed_epoch", "error_epoch"} => nonce <= TransactionCount'
  BY <1>1, <1>3
<1>. QED
  BY <1>1, <1>4, <1>5, <1>6, <1>7, <1>8, <1>9 DEF NotBehind, AtFirst, Ahead, localVars

\* Every step keeps BehindInv, given SettledInv.
LEMMA BehindStep ==
  ASSUME ContractChecks, NoFirstRelease
  PROVE  SettledInv /\ BehindInv /\ [Next]_vars => BehindInv'
<1> SUFFICES ASSUME SettledInv, BehindInv, [Next]_vars PROVE BehindInv'
  OBVIOUS
<1>1. ASSUME NotBehind' PROVE BehindInv'
  <2>1. ~(CurrentEnd' = 0) /\ ~AtFirst'
    BY <1>1 DEF NotBehind
  <2>2. ~Unreleased'
    BY <2>1 DEF Unreleased, CurrentEnd
  <2>. QED  BY <1>1, <2>1, <2>2 DEF BehindInv
<1>2. CASE ~Unreleased
  <2>1. NotBehind'
    BY <1>2, NotBehindStep DEF BehindInv
  <2>. QED  BY <1>1, <2>1
<1>3. CASE Unreleased /\ MineAccepted
  <2>1. NotBehind'
    BY <1>3, FirstTaken DEF BehindInv
  <2>. QED  BY <1>1, <2>1
<1>4. CASE Unreleased /\ ~MineAccepted
  BY <1>4, FirstStaysAlone DEF BehindInv
<1>. QED  BY <1>2, <1>3, <1>4

\* What a receipt may confirm is within the contract's current epoch.
Delivered == \A i \in 1 .. Len(mined) : mined[i].ok => mined[i].tx.end <= CurrentEnd

LEMMA DeliveredStep ==
  ASSUME ContractChecks
  PROVE  SettledInv /\ BehindInv /\ Delivered /\ [Next]_vars => Delivered'
<1> SUFFICES ASSUME SettledInv, BehindInv, Delivered, [Next]_vars PROVE Delivered'
  OBVIOUS
<1>1. ChainOK /\ mined \in Seq([tx : Tx, ok : BOOLEAN])
  BY DEF SettledInv, TypeOK, ChainOK
<1>2. ASSUME NEW i \in 1 .. Len(mined), mined[i].ok PROVE mined[i].tx.end <= CurrentEnd'
  <2>0. /\ CurrentEnd \in Nat /\ CurrentEnd' \in Nat /\ CurrentEnd' >= CurrentEnd
    <3>1. ~Unreleased
      BY <1>2 DEF BehindInv, FirstAlone
    <3>. QED  BY <3>1, MovesOn DEF BehindInv, NotBehind
  <2>1. mined[i] \in [tx : Tx, ok : BOOLEAN]
    BY <1>1, ElementOfSeq
  <2>2. mined[i].tx.end \in Nat /\ mined[i].tx.end <= CurrentEnd
    BY <1>2, <2>1 DEF Delivered, Tx
  <2>3. PICK m \in Nat : m = mined[i].tx.end
    BY <2>2
  <2>. QED  BY <2>0, <2>2, <2>3
<1>3. CASE UNCHANGED mined
  BY <1>2, <1>3 DEF Delivered
<1>4. ASSUME NEW ok \in BOOLEAN, Mine(ok), ok => NextTx.end <= CurrentEnd'
      PROVE  Delivered'
  <2> DEFINE new == [tx |-> NextTx, ok |-> ok]
  <2>1. new \in [tx : Tx, ok : BOOLEAN] /\ new.ok = ok /\ new.tx = NextTx
    BY <1>1, <1>4, MinedTx
  <2>2. mined' = Append(mined, new)
    BY <1>4 DEF Mine
  <2> HIDE DEF new
  <2>3. /\ Len(mined') = Len(mined) + 1 /\ Len(mined) \in Nat
        /\ \A i \in 1 .. Len(mined) : mined'[i] = mined[i]
        /\ mined'[Len(mined) + 1] = new
    BY <1>1, <2>1, <2>2, AppendProperties, LenProperties
  <2>4. ASSUME NEW i \in 1 .. Len(mined'), mined'[i].ok PROVE mined'[i].tx.end <= CurrentEnd'
    <3>1. i \in 1 .. Len(mined) \/ i = Len(mined) + 1
      BY <2>3
    <3>2. CASE i \in 1 .. Len(mined)
      BY <1>2, <2>3, <2>4, <3>2
    <3>3. CASE i = Len(mined) + 1
      BY <1>4, <2>1, <2>3, <2>4, <3>3
    <3>. QED  BY <3>1, <3>2, <3>3
  <2>. QED  BY <2>4 DEF Delivered
<1>5. CASE MineAccepted
  <2>1. CurrentEnd' = NextTx.end
    BY <1>1, <1>5, AcceptedIsCurrent
  <2>2. NextTx \in Tx
    BY <1>1, <1>5, MinedTx DEF MineAccepted
  <2>3. NextTx.end <= CurrentEnd'
    BY <2>1, <2>2 DEF Tx
  <2>4. Mine(TRUE)
    BY <1>5 DEF MineAccepted
  <2>. QED  BY <1>4, <2>3, <2>4
<1>6. CASE MineReverted
  BY <1>4, <1>6 DEF MineReverted
<1>. QED  BY <1>3, <1>5, <1>6, OnlyBlocksCount

\* So a receipt shows that the contract has the epoch.
LEMMA DeliveredShows ==
  ASSUME SettledInv, Delivered, ReceiptConfirmed
  PROVE  next + Height <= CurrentEnd + 1
<1>1. /\ pc = "receipt" /\ 0 <= nonce /\ nonce < TransactionCount
      /\ mined[nonce + 1].tx = AwaitedTx /\ mined[nonce + 1].ok
      /\ nonce \in Int /\ next \in Int /\ endb \in Int
      /\ TransactionCount \in Nat /\ CurrentEnd \in Nat
  BY Numbers DEF ReceiptConfirmed, ReceiptOk, HasReceipt
<1>2. nonce + 1 \in 1 .. Len(mined)
  BY <1>1 DEF TransactionCount
<1>3. AwaitedTx.end <= CurrentEnd
  BY <1>1, <1>2 DEF Delivered
<1>4. AwaitedTx.end = ChunkEnd
  BY DEF AwaitedTx, Transaction, Chunk
<1>5. FullChunk
  BY <1>1 DEF SettledInv, Shape
<1>6. ChunkEnd = next + Height - 1
  BY <1>1, <1>5, LedgerAssumption DEF FullChunk, ChunkEnd
<1>. QED  BY <1>1, <1>3, <1>4, <1>6, LedgerAssumption

-----------------------------------------------------------------------------
(* Theorems.                                                               *)

\* What a rejection costs is a nonce, never a place in the order: the contract's next
\* epoch is never behind what the process is about to send with a free nonce.
LEMMA BehindInvHolds ==
  ASSUME ContractChecks, NoFirstRelease
  PROVE  Spec => []BehindInv
<1>1. Init => BehindInv
  <2> SUFFICES ASSUME Init PROVE BehindInv
    OBVIOUS
  <2>1. AtFirst = FALSE
    BY DEF Init, AtFirst
  <2>2. FirstAlone
    BY AlignedInit, EmptySeq DEF Init, AccountInit, FirstAlone
  <2>3. CASE ~Unreleased
    <3>1. CurrentEnd = BaseEnd /\ BaseEnd > 0
      BY <2>3, LedgerAssumption DEF Init, CurrentEnd, Unreleased
    <3>2. NotBehind
      BY <2>1, <3>1 DEF Init, NotBehind
    <3>. QED  BY <2>1, <2>3, <3>2 DEF BehindInv
  <2>4. CASE Unreleased
    BY <2>1, <2>2, <2>4 DEF BehindInv
  <2>. QED  BY <2>3, <2>4
<1>2. SettledInv /\ BehindInv /\ [Next]_vars => BehindInv'
  BY BehindStep
<1>. QED  BY <1>1, <1>2, SettledInvHolds, PTL DEF Spec

\* Reverted or not, with restarts, lost answers and repeated reads in between: the
\* process never hands the node an epoch that the contract has.
THEOREM NeverResubmitsRejected ==
  ASSUME ContractChecks, NoFirstRelease
  PROVE  Spec => NoResubmission
<1>1. SettledInv /\ BehindInv /\ [Next]_vars
      => \A n \in DOMAIN pool' :
           (n \notin DOMAIN pool \/ pool'[n] # pool[n])
             => pool'[n].begin > CurrentEnd
  <2> SUFFICES ASSUME SettledInv, BehindInv, [Next]_vars
               PROVE  \A n \in DOMAIN pool' :
                        (n \notin DOMAIN pool \/ pool'[n] # pool[n])
                          => pool'[n].begin > CurrentEnd
    OBVIOUS
  <2>1. CASE BlindRelease \/ ReleaseWithReceipt
    <3>1. CASE Unreleased
      <4>1. FirstAlone' /\ CurrentEnd = 0
        BY <2>1, <3>1, AloneSending, NoEpochYet DEF BehindInv
      <4>. QED  BY <4>1 DEF FirstAlone
    <3>2. CASE ~Unreleased
      BY <2>1, <3>2, SendNotBehind DEF BehindInv
    <3>. QED  BY <3>1, <3>2
  <2>2. CASE MineAccepted \/ MineReverted \/ Drop
    <3>1. PICK S \in SUBSET DOMAIN pool : pool' = [m \in S |-> pool[m]]
      BY <2>2 DEF MineAccepted, MineReverted, Mine, Drop, Evict, Restrict
    <3>. QED  BY <3>1
  <2>3. CASE UNCHANGED pool
    BY <2>3
  <2>4. ~First
    BY DEF BehindInv, AtFirst, First, FirstCheck, FirstHead, FirstSend, FirstReceipt,
           FirstReset
  <2>5. \/ BlindRelease \/ ReleaseWithReceipt \/ MineAccepted \/ MineReverted \/ Drop
        \/ UNCHANGED pool
    BY <2>4, ZenonT(30)
       DEF Next, Generator, Loop, Recover, Environment, Setup, FetchAtStart,
           SetBegin, PollIdle, StartChunks, SkipPartial, ChunksDone,
           ReceiptConfirmed, ReceiptRejected, ReceiptMissing,
           RecoverNonce, RecoverEpoch, RecoveryFails, Crash, AdvanceHead, Tick,
           chainVars, vars
  <2>. QED  BY <2>1, <2>2, <2>3, <2>5
<1>. QED
  BY <1>1, SettledInvHolds, BehindInvHolds, PTL DEF Spec, NoResubmission

\* Nor do rejections make it run ahead: what it takes for released and the contract
\* does not have is at most the blind transactions between two receipts, provided that
\* the contract or the settings say where the first epoch begins.
THEOREM DriftIsBoundedRejected ==
  ASSUME ContractChecks, BaseEnd > 0 \/ TickerBegin > 0
  PROVE  Spec => []BoundedDrift
<1>0. NoFirstRelease
  BY DEF NoFirstRelease
<1>1. Init => Delivered /\ (Unreleased \/ DriftInv)
  BY DEF Init, AccountInit, Delivered, DriftInv
<1>2. SettledInv /\ BehindInv /\ Delivered /\ [Next]_vars => Delivered'
  BY DeliveredStep
<1>3. SettledInv /\ SettledInv' /\ BehindInv /\ Delivered /\ (Unreleased \/ DriftInv)
      /\ [Next]_vars => (Unreleased \/ DriftInv)'
  <2> SUFFICES ASSUME SettledInv, SettledInv', BehindInv, Delivered,
                      Unreleased \/ DriftInv, [Next]_vars
               PROVE  Unreleased' \/ DriftInv'
    OBVIOUS
  <2>1. CASE Unreleased /\ ~MineAccepted
    BY <1>0, <2>1, FirstStaysAlone DEF BehindInv
  <2>2. CASE Unreleased /\ MineAccepted
    <3>1. TickerBegin > 0
      BY <2>2 DEF Unreleased
    <3>. QED  BY <2>2, <3>1, FirstIsNear DEF BehindInv
  <2>3. CASE ~Unreleased
    <3>1. NotBehind /\ DriftInv
      BY <2>3 DEF BehindInv
    <3>2. /\ CurrentEnd \in Nat /\ CurrentEnd' \in Nat
          /\ CurrentEnd' >= CurrentEnd /\ CurrentEnd # 0
      BY <3>1, MovesOn DEF NotBehind
    <3>3. ~First
      BY DEF BehindInv, AtFirst, First, FirstCheck, FirstHead, FirstSend,
             FirstReceipt, FirstReset
    <3>4. pc = "poll" => begin > 0
      BY <3>1 DEF NotBehind
    <3>5. ReceiptConfirmed => next + Height <= CurrentEnd + 1
      BY DeliveredShows
    <3>. QED
      BY <3>1, <3>2, <3>3, <3>4, <3>5, DriftKept, DriftMade
         DEF Next, Generator, Loop, Environment
  <2>. QED  BY <2>1, <2>2, <2>3
<1>4. SettledInv /\ BehindInv /\ (Unreleased \/ DriftInv) => BoundedDrift
  BY Numbers, NearIsBounded, NoEpochYet DEF BoundedDrift
<1>. QED
  BY <1>0, <1>1, <1>2, <1>3, <1>4, SettledInvHolds, BehindInvHolds, PTL DEF Spec

\* With such a contract the generator implements the promise to the contract's readers
\* under every fault, from the first epoch on: the contract keeps the order, and what
\* it accepts has the size and the distance from the head that the generator gave it.
THEOREM ImplementsLedgerRejected ==
  ASSUME ContractChecks
  PROVE  Spec => LedgerSpec
<1>1. Init => LedgerInit
  BY GeneratorAssumption DEF Init, LedgerInit
<1>2. SettledInv /\ [Next]_vars => [LedgerNext]_<<head, ledger>>
  BY StepRefines DEF MineAccepted
<1>. QED  BY <1>1, <1>2, SettledInvHolds, PTL DEF Spec, LedgerSpec
=============================================================================
