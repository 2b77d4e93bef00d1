------------------------ MODULE ConsensusTasksProofs ------------------------
(***************************************************************************)
(* What the writer lock and the nonce reset of ConsensusTasks guarantee    *)
(* for any number of tasks and permits and under every fault.              *)
(***************************************************************************)
EXTENDS ConsensusTasks, SequenceTheorems, FiniteSetTheorems, TLAPS

-----------------------------------------------------------------------------
(* The account.                                                            *)

\* The number of mined transactions is a nonce.
LEMMA CountNat == ASSUME SharedOK PROVE TransactionCount \in Nat
  BY LenProperties DEF SharedOK, TransactionCount

\* A task's transaction, handed to the node with nonce n, joins the pool.
LEMMA Submitted ==
  ASSUME SharedOK, NEW t \in Tasks, NEW n \in Nat, Submit(n, Transaction(t))
  PROVE  /\ DOMAIN pool' = DOMAIN pool \cup {n}
         /\ DOMAIN pool' \subseteq Nat /\ pool' \in [DOMAIN pool' -> Tx]
<1>1. pool' = [m \in DOMAIN pool \cup {n} |-> IF m = n THEN Transaction(t) ELSE pool[m]]
  BY DEF Submit
<1>2. Transaction(t) \in Tx
  BY TasksAssumption DEF Transaction, Tx
<1>3. \A m \in DOMAIN pool : pool[m] \in Tx
  BY DEF SharedOK
<1>. QED  BY <1>1, <1>2, <1>3 DEF SharedOK

\* Mining moves one transaction out of the pool, and the count by one.
LEMMA Mined ==
  ASSUME SharedOK, NEW ok \in BOOLEAN, Mine(ok)
  PROVE  /\ mined' \in Seq([tx : Tx, ok : BOOLEAN])
         /\ TransactionCount' = TransactionCount + 1
         /\ DOMAIN pool' = DOMAIN pool \ {TransactionCount}
         /\ pool' \in [DOMAIN pool' -> Tx]
<1>1. [tx |-> NextTx, ok |-> ok] \in [tx : Tx, ok : BOOLEAN]
  BY DEF Mine, Minable, NextTx, SharedOK
<1>2. mined' \in Seq([tx : Tx, ok : BOOLEAN]) /\ Len(mined') = Len(mined) + 1
  BY <1>1, AppendProperties DEF Mine, SharedOK
<1>3. pool' = [m \in DOMAIN pool \ {TransactionCount} |-> pool[m]]
  BY DEF Mine, Restrict
<1>. QED  BY <1>2, <1>3 DEF SharedOK, TransactionCount

-----------------------------------------------------------------------------
(* NonceInv is inductive.                                                  *)

\* Initially no task has started and nothing was sent.
LEMMA NonceInvInit == Init => NonceInv
<1> SUFFICES ASSUME Init PROVE NonceInv
  OBVIOUS
<1>1. mined \in Seq([tx : Tx, ok : BOOLEAN]) /\ TransactionCount = 0
  BY EmptySeq DEF Init, AccountInit, TransactionCount
<1>2. pool \in [DOMAIN pool -> Tx] /\ DOMAIN pool = {}
  BY DEF Init, AccountInit
<1>3. TypeOK
  BY <1>1, <1>2, GuardAssumption
  DEF Init, GuardInit, TypeOK, TasksOK, SharedOK, Locations
<1>4. OneAtATime /\ SendsSharedNonce
  BY DEF Init, OneAtATime, SendsSharedNonce
<1>5. NoGap
  BY <1>1 DEF Init, NoGap
<1>. QED  BY <1>3, <1>4, <1>5 DEF NonceInv

\* A task moves, and what the invariant speaks of stays as it is but for pc.
LEMMA Moves ==
  ASSUME NonceInv, NEW t \in Tasks, NEW l \in Locations \ {"build", "send", "reset"},
         Goto(t, l), failures' \in [Tasks -> Nat], faults' \in Nat,
         UNCHANGED <<used, nonce, guardVars, accountVars>>
  PROVE  NonceInv'
<1>1. pc' = [pc EXCEPT ![t] = l]
  BY DEF Goto
<1>2. TypeOK'
  BY <1>1 DEF NonceInv, TypeOK, TasksOK, SharedOK, guardVars, accountVars
<1>3. OneAtATime' /\ SendsSharedNonce'
  BY <1>1 DEF NonceInv, TypeOK, TasksOK, OneAtATime, SendsSharedNonce, guardVars
<1>4. NoGap'
  BY DEF NonceInv, NoGap, TransactionCount, accountVars
<1>. QED  BY <1>2, <1>3, <1>4 DEF NonceInv

\* Nobody but the owner of the lock is in the guarded code.
LEMMA OthersOutside ==
  ASSUME NonceInv, NEW t \in Tasks, owner \in {NoTask, t}
  PROVE  \A u \in Tasks \ {t} : pc[u] \notin {"build", "send", "reset"}
  BY GuardAssumption DEF NonceInv, OneAtATime

\* A task takes a permit.
LEMMA PermitTaken ==
  ASSUME NonceInv, NEW t \in Tasks, AcquireSemaphore(t)
  PROVE  NonceInv'
<1>1. /\ permits' \in Nat
      /\ UNCHANGED <<owner, depth, failures, used, nonce, accountVars, faults>>
  BY DEF AcquireSemaphore, TakePermit, NonceInv, TypeOK, SharedOK
<1>2. PICK l \in {"lock", "reset_lock"} : pc' = [pc EXCEPT ![t] = l]
  BY DEF AcquireSemaphore, Goto
<1>3. TypeOK'
  BY <1>1, <1>2 DEF NonceInv, TypeOK, TasksOK, SharedOK, accountVars, Locations
<1>4. OneAtATime' /\ SendsSharedNonce'
  BY <1>1, <1>2 DEF NonceInv, TypeOK, TasksOK, OneAtATime, SendsSharedNonce
<1>5. NoGap'
  BY <1>1 DEF NonceInv, NoGap, TransactionCount, accountVars
<1>. QED  BY <1>3, <1>4, <1>5 DEF NonceInv

\* A task takes the writer lock, for the first time or again.
LEMMA LockTaken ==
  ASSUME NonceInv, NEW t \in Tasks, AcquireLock(t)
  PROVE  NonceInv'
<1>1. /\ owner \in {NoTask, t} /\ owner' = t /\ depth' = depth + 1
      /\ UNCHANGED <<permits, failures, used, nonce, accountVars, faults>>
  BY DEF AcquireLock, TakeLock
<1>2. PICK l \in {"build", "reset"} : pc' = [pc EXCEPT ![t] = l]
  BY DEF AcquireLock, Goto
<1>3. depth' \in Nat /\ depth' > 0
  BY <1>1 DEF NonceInv, TypeOK, SharedOK
<1>4. TypeOK'
  BY <1>1, <1>2, <1>3 DEF NonceInv, TypeOK, TasksOK, SharedOK, accountVars, Locations
<1>5. OneAtATime'
  BY <1>1, <1>2, <1>3, OthersOutside
  DEF NonceInv, TypeOK, TasksOK, OneAtATime
<1>6. SendsSharedNonce'
  BY <1>1, <1>2 DEF NonceInv, TypeOK, TasksOK, SendsSharedNonce
<1>7. NoGap'
  BY <1>1 DEF NonceInv, NoGap, TransactionCount, accountVars
<1>. QED  BY <1>4, <1>5, <1>6, <1>7 DEF NonceInv

\* The lock's owner t leaves for l, outside of the guarded code, and both
\* locks are released: the types and the exclusion survive.
LEMMA Released ==
  ASSUME NonceInv, NEW t \in Tasks, pc[t] \in {"send", "reset"}, Leave(t),
         NEW l \in {"sent", "done"}, Goto(t, l)
  PROVE  /\ pc' \in [Tasks -> Locations]
         /\ permits' \in Nat /\ depth' \in Nat /\ owner' \in Tasks \cup {NoTask}
         /\ \A u \in Tasks : pc'[u] \notin {"build", "send", "reset"}
<1>1. owner = t /\ depth > 0
  BY DEF NonceInv, OneAtATime
<1>2. permits' \in Nat /\ depth' \in Nat /\ owner' \in Tasks \cup {NoTask}
  BY <1>1 DEF Leave, NonceInv, TypeOK, SharedOK
<1>3. pc' = [pc EXCEPT ![t] = l] /\ pc \in [Tasks -> Locations]
  BY DEF Goto, NonceInv, TypeOK, TasksOK
<1>. QED  BY <1>1, <1>2, <1>3, OthersOutside DEF Locations

\* A task builds its transaction with the shared nonce.
LEMMA Built ==
  ASSUME NonceInv, NEW t \in Tasks, Build(t)
  PROVE  NonceInv'
<1>1. /\ pc[t] = "build" /\ pc' = [pc EXCEPT ![t] = "send"]
      /\ used' = [used EXCEPT ![t] = nonce]
      /\ UNCHANGED <<failures, nonce, permits, owner, depth, accountVars, faults>>
  BY DEF Build, Goto, guardVars
<1>2. TypeOK'
  BY <1>1 DEF NonceInv, TypeOK, TasksOK, SharedOK, accountVars, Locations
<1>3. OneAtATime' /\ SendsSharedNonce'
  BY <1>1 DEF NonceInv, TypeOK, TasksOK, OneAtATime, SendsSharedNonce
<1>4. NoGap'
  BY <1>1 DEF NonceInv, NoGap, TransactionCount, accountVars
<1>. QED  BY <1>2, <1>3, <1>4 DEF NonceInv

\* The node took the transaction, and the shared nonce moves past it.
LEMMA SentOne ==
  ASSUME NonceInv, NEW t \in Tasks, Sent(t)
  PROVE  NonceInv'
<1>1. /\ pc[t] = "send" /\ Submit(used[t], Transaction(t)) /\ nonce' = nonce + 1
      /\ Leave(t) /\ Goto(t, "sent") /\ UNCHANGED <<mined, failures, used, faults>>
  BY DEF Sent
<1>2. used[t] = nonce /\ nonce \in Nat
  BY <1>1 DEF NonceInv, SendsSharedNonce, TypeOK, SharedOK
<1>3. /\ DOMAIN pool' = DOMAIN pool \cup {nonce}
      /\ DOMAIN pool' \subseteq Nat /\ pool' \in [DOMAIN pool' -> Tx]
  BY <1>1, <1>2, Submitted DEF NonceInv, TypeOK
<1>4. /\ pc' \in [Tasks -> Locations]
      /\ permits' \in Nat /\ depth' \in Nat /\ owner' \in Tasks \cup {NoTask}
      /\ \A u \in Tasks : pc'[u] \notin {"build", "send", "reset"}
  BY <1>1, Released
<1>5. TypeOK'
  BY <1>1, <1>2, <1>3, <1>4 DEF NonceInv, TypeOK, TasksOK, SharedOK
<1>6. TransactionCount' = TransactionCount /\ TransactionCount \in Nat
  BY <1>1, CountNat DEF TransactionCount, NonceInv, TypeOK
<1>7. NoGap'
  BY <1>1, <1>2, <1>3, <1>6 DEF NonceInv, NoGap
<1>. QED  BY <1>4, <1>5, <1>7 DEF NonceInv, OneAtATime, SendsSharedNonce

\* The nonce is read back from the chain, blind to what is pending.
LEMMA ResetOne ==
  ASSUME NonceInv, NEW t \in Tasks, Reset(t)
  PROVE  NonceInv'
<1>1. /\ pc[t] = "reset" /\ nonce' = TransactionCount
      /\ Leave(t) /\ Goto(t, "done")
      /\ UNCHANGED <<failures, used, accountVars, faults>>
  BY DEF Reset, NonceFromChain
<1>2. /\ pc' \in [Tasks -> Locations]
      /\ permits' \in Nat /\ depth' \in Nat /\ owner' \in Tasks \cup {NoTask}
      /\ \A u \in Tasks : pc'[u] \notin {"build", "send", "reset"}
  BY <1>1, Released
<1>3. TransactionCount' = TransactionCount /\ TransactionCount \in Nat
  BY <1>1, CountNat DEF TransactionCount, NonceInv, TypeOK, accountVars
<1>4. TypeOK'
  BY <1>1, <1>2, <1>3 DEF NonceInv, TypeOK, TasksOK, SharedOK, accountVars
<1>5. NoGap'
  BY <1>1, <1>3 DEF NoGap
<1>. QED  BY <1>2, <1>4, <1>5 DEF NonceInv, OneAtATime, SendsSharedNonce

\* The task believes its transaction not sent, and the node may have it; the
\* locks stay as they are.
LEMMA NotSentOne ==
  ASSUME NonceInv, NEW t \in Tasks, NotSent(t)
  PROVE  NonceInv'
<1>1. /\ pc[t] = "send" /\ SendFails(t)
      /\ failures' = [failures EXCEPT ![t] = @ + 1]
      /\ UNCHANGED <<permits, owner, depth, used, nonce>>
  BY DEF NotSent, LeaveByException, guardVars
<1>2. PICK l \in {"permit", "reset_permit"} : pc' = [pc EXCEPT ![t] = l]
  BY DEF NotSent, Goto
<1>3. used[t] = nonce /\ nonce \in Nat /\ failures' \in [Tasks -> Nat]
  BY <1>1 DEF NonceInv, SendsSharedNonce, TypeOK, TasksOK, SharedOK
<1>4. mined' = mined /\ faults' \in Nat
  BY <1>1 DEF SendFails, Fault, accountVars, NonceInv, TypeOK, SharedOK
<1>5. /\ DOMAIN pool \subseteq DOMAIN pool'
      /\ DOMAIN pool' \subseteq Nat /\ pool' \in [DOMAIN pool' -> Tx]
  <2>1. CASE UNCHANGED pool
    BY <2>1 DEF NonceInv, TypeOK, SharedOK
  <2>2. CASE Submit(nonce, Transaction(t))
    BY <1>3, <2>2, Submitted DEF NonceInv, TypeOK
  <2>. QED  BY <1>1, <1>3, <2>1, <2>2 DEF SendFails, accountVars
<1>6. TypeOK'
  BY <1>1, <1>2, <1>3, <1>4, <1>5 DEF NonceInv, TypeOK, TasksOK, SharedOK, Locations
<1>7. OneAtATime' /\ SendsSharedNonce'
  BY <1>1, <1>2 DEF NonceInv, TypeOK, TasksOK, OneAtATime, SendsSharedNonce
<1>8. NoGap'
  BY <1>1, <1>4, <1>5 DEF NonceInv, NoGap, TransactionCount
<1>. QED  BY <1>6, <1>7, <1>8 DEF NonceInv

\* The steps of a task that touch neither the locks nor the nonces.
LEMMA MovedOn ==
  ASSUME NonceInv, NEW t \in Tasks,
         Start(t) \/ AfterSend(t) \/ Receipt(t) \/ ResetFails(t)
  PROVE  NonceInv'
<1>1. UNCHANGED <<failures, used, nonce, guardVars, accountVars>>
  BY DEF Start, AfterSend, Receipt, ResetFails, LeaveByException
<1>2. faults' \in Nat /\ failures' \in [Tasks -> Nat]
  BY <1>1 DEF Start, AfterSend, Receipt, ResetFails, Fault, NonceInv, TypeOK, SharedOK, TasksOK
<1>3. PICK l \in {"permit", "receipt", "done", "reset_permit", "failed"} : Goto(t, l)
  BY DEF Start, AfterSend, Receipt, ResetFails
<1>. QED  BY <1>1, <1>2, <1>3, Moves DEF Locations

\* The chain mines a transaction: the count moves, and one nonce leaves the pool.
LEMMA MinedOne ==
  ASSUME NonceInv, MineNext
  PROVE  NonceInv'
<1>1. /\ UNCHANGED <<taskVars, nonce, guardVars>> /\ faults' \in {faults, faults + 1}
      /\ faults' \in Nat
  <2>1. UNCHANGED <<taskVars, nonce, guardVars>> /\ faults' \in {faults, faults + 1}
    BY ZenonT(30) DEF MineNext, Fault
  <2>2. faults \in Nat
    BY DEF NonceInv, TypeOK, SharedOK
  <2>. QED  BY <2>1, <2>2
<1>2. /\ mined' \in Seq([tx : Tx, ok : BOOLEAN])
      /\ TransactionCount' = TransactionCount + 1
      /\ DOMAIN pool' = DOMAIN pool \ {TransactionCount}
      /\ pool' \in [DOMAIN pool' -> Tx]
  BY Mined DEF MineNext, NonceInv, TypeOK
<1>3. TransactionCount \in Nat
  BY CountNat DEF NonceInv, TypeOK
<1>4. TypeOK'
  BY <1>1, <1>2 DEF NonceInv, TypeOK, TasksOK, SharedOK, taskVars, guardVars
<1>5. OneAtATime' /\ SendsSharedNonce'
  BY <1>1 DEF NonceInv, OneAtATime, SendsSharedNonce, taskVars, guardVars
<1>6. NoGap'
  BY <1>1, <1>2, <1>3 DEF NonceInv, NoGap, TypeOK, SharedOK
<1>. QED  BY <1>4, <1>5, <1>6 DEF NonceInv

\* Every step keeps NonceInv.
LEMMA NonceInvStep == NonceInv /\ [Next]_vars => NonceInv'
<1> SUFFICES ASSUME NonceInv, [Next]_vars PROVE NonceInv'
  OBVIOUS
<1>1. ASSUME NEW t \in Tasks, Step(t) PROVE NonceInv'
  BY <1>1, MovedOn, PermitTaken, LockTaken, Built, SentOne, NotSentOne, ResetOne
  DEF Step
<1>2. CASE MineNext
  BY <1>2, MinedOne
<1>3. CASE UNCHANGED vars
  BY <1>3 DEF vars, taskVars, guardVars, accountVars, NonceInv, TypeOK, TasksOK,
     SharedOK, OneAtATime, SendsSharedNonce, NoGap, TransactionCount
<1>. QED  BY <1>1, <1>2, <1>3 DEF Next

\* NonceInv holds of every behaviour.
LEMMA NonceInvHolds == Spec => []NonceInv
  BY NonceInvInit, NonceInvStep, PTL DEF Spec

-----------------------------------------------------------------------------
(* What becomes of the account.                                            *)

\* Task t hands the node its transaction with the shared nonce, and the node takes
\* it, whether or not the task gets the answer.
Taken(t) ==
  /\ pc[t] = "send" /\ Acceptable(nonce, Transaction(t))
  /\ Submit(nonce, Transaction(t)) /\ UNCHANGED mined

\* A task's step leaves the account as it is, or adds the task's transaction.
LEMMA TaskAccount ==
  ASSUME NonceInv, NEW t \in Tasks, Step(t)
  PROVE  UNCHANGED accountVars \/ Taken(t)
<1>1. pc[t] = "send" => used[t] = nonce
  BY DEF NonceInv, SendsSharedNonce
<1>2. CASE Sent(t)
  BY <1>1, <1>2 DEF Sent, Taken
<1>3. CASE NotSent(t)
  BY <1>1, <1>3 DEF NotSent, SendFails, Taken
<1>. QED  BY <1>2, <1>3 DEF Step, Start, AcquireSemaphore, AcquireLock, Build, AfterSend,
              Receipt, Reset, ResetFails

\* The pending transactions have the nonces that follow the mined ones.
PoolUpTo(k) == k >= TransactionCount /\ DOMAIN pool = TransactionCount .. k - 1

PoolInv == \E k \in Nat : PoolUpTo(k)

\* How many they are, and where the next one goes.
LEMMA PoolSize ==
  ASSUME SharedOK, NEW k \in Nat, PoolUpTo(k)
  PROVE  /\ Cardinality(DOMAIN pool) = k - TransactionCount
         /\ TransactionCount + Cardinality(DOMAIN pool) = k
         /\ PoolWhole
<1>1. TransactionCount \in Nat
  BY CountNat
<1>2. Cardinality(TransactionCount .. k - 1) = k - TransactionCount
  BY <1>1, FS_Interval DEF PoolUpTo
<1>3. Cardinality(DOMAIN pool) = k - TransactionCount
  BY <1>2 DEF PoolUpTo
<1>4. TransactionCount + Cardinality(DOMAIN pool) = k
  BY <1>1, <1>3
<1>5. TransactionCount + Cardinality(DOMAIN pool) - 1 = k - 1
  BY <1>1, <1>3
<1>6. PoolWhole
  BY <1>5, Zenon DEF PoolWhole, PoolUpTo
<1>. QED  BY <1>3, <1>4, <1>6

\* A nonce the node takes is the next one.
LEMMA TakenIsNext ==
  ASSUME NonceInv, NEW k \in Nat, PoolUpTo(k), NEW t \in Tasks, Taken(t)
  PROVE  nonce = k /\ PoolUpTo(k + 1)'
<1>1. TransactionCount \in Nat /\ nonce \in Nat
  BY CountNat DEF NonceInv, TypeOK, SharedOK
<1>2. nonce >= TransactionCount
  BY <1>1 DEF Taken, Acceptable, TooLow
<1>3. nonce <= k
  <2> SUFFICES ASSUME nonce > k PROVE FALSE
    BY <1>1
  <2>1. k \in TransactionCount .. nonce - 1
    BY <1>1 DEF PoolUpTo
  <2>2. k \in DOMAIN pool
    BY <2>1 DEF NonceInv, NoGap
  <2>. QED  BY <1>1, <2>2 DEF PoolUpTo
<1>4. nonce \notin DOMAIN pool
  <2> SUFFICES ASSUME nonce \in DOMAIN pool PROVE FALSE
    OBVIOUS
  <2>1. pool[nonce].gas = 1 /\ Transaction(t).gas = 1
    BY DEF NonceInv, TypeOK, SharedOK, Tx, Transaction
  <2>. QED  BY <2>1 DEF Taken, Acceptable, AlreadyKnown, Underpriced
<1>5. nonce = k
  BY <1>1, <1>2, <1>3, <1>4 DEF PoolUpTo
<1>6. DOMAIN pool' = DOMAIN pool \cup {k} /\ TransactionCount' = TransactionCount
  BY <1>5 DEF Taken, Submit, TransactionCount
<1>. QED  BY <1>1, <1>5, <1>6 DEF PoolUpTo

\* What is mined leaves the front.
LEMMA MinedFromFront ==
  ASSUME NonceInv, NEW k \in Nat, PoolUpTo(k), NEW ok \in BOOLEAN, Mine(ok)
  PROVE  PoolUpTo(k)' /\ TransactionCount < k
<1>1. /\ TransactionCount' = TransactionCount + 1
      /\ DOMAIN pool' = DOMAIN pool \ {TransactionCount}
      /\ TransactionCount \in Nat
  BY Mined, CountNat DEF NonceInv, TypeOK
<1>2. TransactionCount \in DOMAIN pool
  BY DEF Mine, Minable
<1>. QED  BY <1>1, <1>2 DEF PoolUpTo

LEMMA PoolInvInit == Init => PoolInv
<1> SUFFICES ASSUME Init PROVE PoolInv
  OBVIOUS
<1>1. TransactionCount = 0 /\ DOMAIN pool = {}
  BY EmptySeq DEF Init, AccountInit, TransactionCount
<1>2. PoolUpTo(0)
  BY <1>1 DEF PoolUpTo
<1>. QED  BY <1>2 DEF PoolInv

LEMMA PoolInvStep == NonceInv /\ PoolInv /\ [Next]_vars => PoolInv'
<1> SUFFICES ASSUME NonceInv, PoolInv, [Next]_vars PROVE PoolInv'
  OBVIOUS
<1> PICK k \in Nat : PoolUpTo(k)
  BY DEF PoolInv
<1>1. CASE UNCHANGED accountVars
  BY <1>1 DEF PoolInv, PoolUpTo, TransactionCount, accountVars
<1>2. ASSUME NEW t \in Tasks, Taken(t) PROVE PoolInv'
  <2>1. k + 1 \in Nat /\ PoolUpTo(k + 1)'
    BY <1>2, TakenIsNext
  <2>. QED  BY <2>1 DEF PoolInv
<1>3. CASE MineNext
  BY <1>3, MinedFromFront DEF MineNext, PoolInv
<1>. QED  BY <1>1, <1>2, <1>3, TaskAccount DEF Next, vars

-----------------------------------------------------------------------------
(* What a task waits for comes.                                            *)

\* Transaction tx with nonce n is pending or mined.
Known(n, tx) == HasReceipt(n, tx) \/ (n \in DOMAIN pool /\ pool[n] = tx)

\* It stays so: a pending transaction is not replaced, and leaves when it is mined.
LEMMA KnownStays ==
  ASSUME NonceInv, PoolInv, [Next]_vars, NEW n \in Int, NEW tx, Known(n, tx)
  PROVE  Known(n, tx)'
<1>0. mined \in Seq([tx : Tx, ok : BOOLEAN]) /\ TransactionCount \in Nat
  BY CountNat DEF NonceInv, TypeOK, SharedOK
<1>1. CASE UNCHANGED accountVars
  BY <1>1 DEF Known, HasReceipt, TransactionCount, accountVars
<1>2. ASSUME NEW t \in Tasks, Taken(t) PROVE Known(n, tx)'
  <2> PICK k \in Nat : PoolUpTo(k)
    BY DEF PoolInv
  <2>1. nonce = k /\ k \notin DOMAIN pool
    BY <1>0, <1>2, TakenIsNext DEF PoolUpTo
  <2>2. \A m \in DOMAIN pool : m \in DOMAIN pool' /\ pool'[m] = pool[m]
    BY <1>2, <2>1 DEF Taken, Submit
  <2>3. mined' = mined
    BY <1>2 DEF Taken
  <2>. QED  BY <2>2, <2>3 DEF Known, HasReceipt, TransactionCount
<1>3. ASSUME NEW ok \in BOOLEAN, Mine(ok) PROVE Known(n, tx)'
  <2>1. /\ TransactionCount' = TransactionCount + 1
        /\ pool' = [m \in DOMAIN pool \ {TransactionCount} |-> pool[m]]
    BY <1>3, Mined DEF NonceInv, TypeOK, Mine, Restrict
  <2>2. /\ \A i \in 1 .. Len(mined) : mined'[i] = mined[i]
        /\ mined'[Len(mined) + 1].tx = pool[TransactionCount]
    <3>1. [tx |-> NextTx, ok |-> ok] \in [tx : Tx, ok : BOOLEAN]
      BY <1>3 DEF Mine, Minable, NextTx, NonceInv, TypeOK, SharedOK
    <3>. QED  BY <1>0, <1>3, <3>1, AppendProperties DEF Mine, NextTx
  <2>3. CASE HasReceipt(n, tx)
    <3>1. n + 1 \in 1 .. Len(mined) /\ n < TransactionCount' /\ n >= 0
      BY <1>0, <2>1, <2>3 DEF HasReceipt, TransactionCount
    <3>. QED  BY <2>2, <2>3, <3>1 DEF Known, HasReceipt
  <2>4. CASE n = TransactionCount /\ pool[n] = tx
    BY <1>0, <2>1, <2>2, <2>4 DEF Known, HasReceipt, TransactionCount
  <2>5. CASE n \in DOMAIN pool \ {TransactionCount} /\ pool[n] = tx
    BY <2>1, <2>5 DEF Known
  <2>. QED  BY <2>3, <2>4, <2>5 DEF Known
<1>4. CASE MineNext
  BY <1>3, <1>4 DEF MineNext
<1>. QED  BY <1>1, <1>2, <1>4, TaskAccount DEF Next, vars

\* Only a task whose transaction the node took comes to wait for it.
LEMMA WaitsFor ==
  ASSUME NonceInv, [Next]_vars, NEW t \in Tasks, pc'[t] \in {"sent", "receipt"}
  PROVE  \/ pc[t] \in {"sent", "receipt"} /\ used'[t] = used[t]
         \/ used'[t] = nonce /\ Taken(t)
<1>0. pc \in [Tasks -> Locations] /\ used \in [Tasks -> Nat \cup {-1}]
  BY DEF NonceInv, TypeOK, TasksOK
<1>1. ASSUME NEW u \in Tasks, Step(u), u # t PROVE pc'[t] = pc[t] /\ used'[t] = used[t]
  BY <1>0, <1>1 DEF Step, Start, AcquireSemaphore, AcquireLock, Build, Sent, NotSent,
     AfterSend, Receipt, Reset, ResetFails, Goto
<1>2. CASE Sent(t)
  BY <1>2 DEF Sent, Taken, NonceInv, SendsSharedNonce
<1>3. CASE AfterSend(t)
  BY <1>0, <1>3 DEF AfterSend
<1>4. CASE Receipt(t)
  BY <1>0, <1>4 DEF Receipt
<1>5. CASE Start(t) \/ AcquireSemaphore(t) \/ AcquireLock(t) \/ Build(t) \/ NotSent(t)
             \/ Reset(t) \/ ResetFails(t)
  <2>1. pc'[t] \notin {"sent", "receipt"}
    BY <1>0, <1>5 DEF Start, AcquireSemaphore, AcquireLock, Build, NotSent, Reset,
       ResetFails, Goto
  <2>. QED  BY <2>1
<1>6. CASE MineNext \/ UNCHANGED vars
  BY <1>6 DEF MineNext, vars, taskVars
<1>. QED  BY <1>1, <1>2, <1>3, <1>4, <1>5, <1>6 DEF Next, Step

LEMMA ReceiptStep == NonceInv /\ PoolInv /\ ReceiptComes /\ [Next]_vars => ReceiptComes'
<1> SUFFICES ASSUME NonceInv, PoolInv, ReceiptComes, [Next]_vars,
                    NEW t \in Tasks, pc'[t] \in {"sent", "receipt"}
             PROVE  Known(used[t], Transaction(t))'
  BY DEF ReceiptComes, Known, Transaction, HasReceipt, TransactionCount
<1>0. used[t] \in Int /\ nonce \in Nat
  BY DEF NonceInv, TypeOK, TasksOK, SharedOK
<1>1. CASE pc[t] \in {"sent", "receipt"} /\ used'[t] = used[t]
  <2>1. Known(used[t], Transaction(t))
    BY <1>1 DEF ReceiptComes, Known
  <2> PICK n \in Int : n = used[t]
    BY <1>0
  <2>2. Known(n, Transaction(t))'
    <3> PICK tx : tx = Transaction(t)
      OBVIOUS
    <3>1. Known(n, tx)'
      BY <2>1, KnownStays
    <3>. QED  BY <3>1 DEF Transaction
  <2>. QED  BY <1>1, <2>2 DEF Known, HasReceipt, Transaction, TransactionCount
<1>2. CASE used'[t] = nonce /\ Taken(t)
  <2>1. nonce \in DOMAIN pool' /\ pool'[nonce] = Transaction(t)
    BY <1>2 DEF Taken, Submit
  <2>. QED  BY <1>2, <2>1 DEF Known, Transaction
<1>. QED  BY <1>1, <1>2, WaitsFor

-----------------------------------------------------------------------------
(* How many steps a task has left.                                         *)

\* A task that is about to try has a try left.
TriesLeft ==
  \A t \in Tasks :
    /\ failures[t] <= Attempts
    /\ pc[t] \in {"new", "permit", "lock", "build", "send"} => failures[t] < Attempts

\* A task's step is one of the steps it has left.
LEMMA OneLess ==
  ASSUME NonceInv, TriesLeft, NEW t \in Tasks, Step(t)
  PROVE  /\ TriesLeft' /\ pc' # pc /\ StepsLeft(t)' \in 0 .. StepsLeft(t) - 1
         /\ \A u \in Tasks \ {t} : StepsLeft(u)' = StepsLeft(u)
<1>0. /\ pc \in [Tasks -> Locations] /\ failures \in [Tasks -> Nat]
      /\ Attempts \in Nat \ {0}
  BY TasksAssumption DEF NonceInv, TypeOK, TasksOK
<1>1. CASE Start(t) \/ AcquireSemaphore(t) \/ AcquireLock(t) \/ Build(t)
  BY <1>0, <1>1 DEF Start, AcquireSemaphore, AcquireLock, Build, Goto, TriesLeft, StepsLeft
<1>2. CASE Sent(t) \/ AfterSend(t) \/ Receipt(t) \/ Reset(t) \/ ResetFails(t)
  BY <1>0, <1>2 DEF Sent, AfterSend, Receipt, Reset, ResetFails, Goto, TriesLeft, StepsLeft
<1>3. CASE NotSent(t)
  BY <1>0, <1>3 DEF NotSent, Goto, TriesLeft, StepsLeft
<1>. QED  BY <1>1, <1>2, <1>3 DEF Step

LEMMA TriesStep == NonceInv /\ TriesLeft /\ [Next]_vars => TriesLeft'
<1>1. ASSUME UNCHANGED taskVars, TriesLeft PROVE TriesLeft'
  BY <1>1 DEF TriesLeft, taskVars
<1>. QED  BY <1>1, OneLess DEF Next, MineNext, vars

-----------------------------------------------------------------------------
(* The theorems.                                                           *)

\* The permits and the depth of the lock never turn negative: no decorated
\* call releases what it did not acquire.
THEOREM TasksTypeCorrect == Spec => []TypeOK
<1>1. NonceInv => TypeOK
  BY DEF NonceInv
<1>. QED  BY <1>1, NonceInvHolds, PTL

\* However many projects are forced at once, and whatever the decorated
\* functions raise, self._nonce is used and changed by one task at a time.
THEOREM MutualExclusion == Spec => []OneAtATime
<1>1. NonceInv => OneAtATime
  BY DEF NonceInv
<1>. QED  BY <1>1, NonceInvHolds, PTL

\* _make_transaction sends with the nonce it will count, although it awaits
\* the node in between.
THEOREM NonceStillShared == Spec => []SendsSharedNonce
<1>1. NonceInv => SendsSharedNonce
  BY DEF NonceInv
<1>. QED  BY <1>1, NonceInvHolds, PTL

\* Whatever fails, the shared nonce never runs ahead of what the node holds:
\* every nonce below it is mined or pending.
THEOREM NonceNeverAhead == Spec => []NoGap
<1>1. NonceInv => NoGap
  BY DEF NonceInv
<1>. QED  BY <1>1, NonceInvHolds, PTL

\* Whatever fails, no pending transaction waits behind a nonce that no transaction
\* has: with the oldest of them mined, the next one can be.
THEOREM NothingWaitsBehindAHole == Spec => []NoHole
<1>1. Spec => []PoolInv
  BY PoolInvInit, PoolInvStep, NonceInvHolds, PTL DEF Spec
<1>2. NonceInv /\ PoolInv => NoHole
  BY PoolSize DEF NonceInv, TypeOK, PoolInv, NoHole
<1>. QED  BY <1>1, <1>2, NonceInvHolds, PTL

\* A task that sent its transaction waits for what comes, whatever others send and
\* reset in between.
THEOREM WhatIsSentComes == Spec => []ReceiptComes
<1>1. Init => ReceiptComes
  BY DEF Init, ReceiptComes
<1>2. Spec => []PoolInv
  BY PoolInvInit, PoolInvStep, NonceInvHolds, PTL DEF Spec
<1>. QED  BY <1>1, <1>2, ReceiptStep, NonceInvHolds, PTL DEF Spec

\* However often calls fail, a task has a bounded number of steps, and each of its
\* steps is one of them: no retry goes on for ever.
THEOREM NoTaskGoesOn == Spec => WindsDown
<1>1. Init => TriesLeft
  <2> SUFFICES ASSUME Init PROVE TriesLeft
    OBVIOUS
  <2>1. \A t \in Tasks : failures[t] = 0
    BY DEF Init
  <2>2. 0 <= Attempts /\ 0 < Attempts
    BY TasksAssumption
  <2>. QED  BY <2>1, <2>2 DEF TriesLeft
<1>2. Spec => []TriesLeft
  BY <1>1, TriesStep, NonceInvHolds, PTL DEF Spec
<1>3. NonceInv /\ TriesLeft /\ [Next]_vars =>
        [/\ \A t \in Tasks : StepsLeft(t)' \in 0 .. StepsLeft(t)
         /\ pc' # pc => \E t \in Tasks : StepsLeft(t)' < StepsLeft(t)]_vars
  <2> SUFFICES ASSUME NonceInv, TriesLeft, Next
               PROVE  /\ \A t \in Tasks : StepsLeft(t)' \in 0 .. StepsLeft(t)
                      /\ pc' # pc => \E t \in Tasks : StepsLeft(t)' < StepsLeft(t)
    OBVIOUS
  <2>0. ASSUME NEW t \in Tasks PROVE StepsLeft(t) \in Nat
    <3>1. Attempts \in Nat /\ failures[t] \in Nat /\ failures[t] <= Attempts
      BY TasksAssumption DEF NonceInv, TypeOK, TasksOK, TriesLeft
    <3> PICK tries \in Nat : tries = 4 * (Attempts - failures[t])
      BY <3>1
    <3>. QED  BY DEF StepsLeft
  <2>1. ASSUME NEW t \in Tasks, Step(t)
        PROVE  /\ \A u \in Tasks : StepsLeft(u)' \in 0 .. StepsLeft(u)
               /\ StepsLeft(t)' < StepsLeft(t)
    BY <2>0, <2>1, OneLess
  <2>2. CASE MineNext
    <3>1. UNCHANGED <<pc, failures>>
      BY <2>2 DEF MineNext, taskVars
    <3>2. \A t \in Tasks : StepsLeft(t)' = StepsLeft(t)
      BY <3>1 DEF StepsLeft
    <3>. QED  BY <2>0, <3>1, <3>2
  <2>. QED  BY <2>1, <2>2 DEF Next
<1>. QED  BY <1>2, <1>3, NonceInvHolds, PTL DEF Spec, WindsDown

-----------------------------------------------------------------------------
(* Until something goes wrong.                                             *)

\* No task has met a failure.
Undisturbed ==
  \A t \in Tasks : pc[t] \notin {"reset_permit", "reset_lock", "reset", "failed"}

\* What is pending is all there is between the mined nonces and the shared one.
PoolExact == TransactionCount <= nonce /\ DOMAIN pool = TransactionCount .. nonce - 1

\* Every mined transaction succeeded.
AllOk == \A i \in 1 .. Len(mined) : mined[i].ok

\* Only a task in the guarded code owns the lock, and owns it once.
LockExact ==
  /\ \A t \in Tasks : owner = t => pc[t] \in {"build", "send"} /\ depth = 1
  /\ owner = NoTask => depth = 0

Holders == {t \in Tasks : pc[t] \in {"lock", "build", "send"}}

\* Every permit that is not there is in the hand of one task.
PermitsExact == IsFiniteSet(Holders) /\ permits + Cardinality(Holders) = Permits

QuietInv == Undisturbed /\ PoolExact /\ AllOk /\ LockExact /\ PermitsExact

\* Nothing went wrong if nothing has gone wrong after the step.
LEMMA StillQuiet ==
  ASSUME NonceInv, [Next]_vars, faults' = 0
  PROVE  faults = 0
<1>1. faults \in Nat
  BY DEF NonceInv, TypeOK, SharedOK
<1>2. faults' = faults \/ faults' = faults + 1
  BY ZenonT(30) DEF Next, Step, Start, AcquireSemaphore, AcquireLock, Build, Sent, NotSent,
       SendFails, AfterSend, Receipt, Reset, ResetFails, MineNext, Fault, vars
<1>. QED  BY <1>1, <1>2

\* The node takes a transaction with the next free nonce.
LEMMA NeverRefused ==
  ASSUME NonceInv, PoolExact, NEW tx
  PROVE  Refusals(nonce, tx) = {}
<1>1. TransactionCount \in Nat /\ nonce \in Nat
  BY CountNat DEF NonceInv, TypeOK, SharedOK
<1>2. ~TooLow(nonce) /\ nonce \notin DOMAIN pool
  BY <1>1 DEF PoolExact, TooLow
<1>3. ~TooHigh(nonce)
  BY <1>1 DEF PoolExact, TooHigh
<1>. QED  BY <1>2, <1>3 DEF Refusals, Underpriced, AlreadyKnown

\* So no task fails, and no task resets.
LEMMA NothingFails ==
  ASSUME NonceInv, QuietInv, faults = 0, faults' = 0, NEW t \in Tasks
  PROVE  ~NotSent(t) /\ ~Reset(t) /\ ~ResetFails(t)
<1>1. \A kind : ~Fault(kind)
  BY DEF Fault
<1>2. ~NotSent(t)
  <2> SUFFICES ASSUME NotSent(t) PROVE FALSE
    OBVIOUS
  <2>1. used[t] = nonce
    BY DEF NotSent, NonceInv, SendsSharedNonce
  <2>2. Refusals(used[t], Transaction(t)) = {}
    BY <2>1, NeverRefused DEF QuietInv
  <2>. QED  BY <1>1, <2>2 DEF NotSent, SendFails
<1>. QED  BY <1>2 DEF Reset, ResetFails, QuietInv, Undisturbed

\* A step that leaves the account and the nonce alone leaves them exact.
LEMMA AccountStays ==
  ASSUME PoolExact, AllOk, UNCHANGED <<nonce, accountVars>>
  PROVE  PoolExact' /\ AllOk'
  BY DEF PoolExact, AllOk, TransactionCount, accountVars

\* A task that neither holds a permit nor comes to hold one moves on.
LEMMA PermitsStay ==
  ASSUME PermitsExact, pc \in [Tasks -> Locations], NEW t \in Tasks, NEW l, Goto(t, l),
         UNCHANGED permits,
         pc[t] \in {"lock", "build", "send"} <=> l \in {"lock", "build", "send"}
  PROVE  PermitsExact'
<1>1. pc' = [pc EXCEPT ![t] = l]
  BY DEF Goto
<1>2. Holders' = Holders
  BY <1>1 DEF Holders
<1>. QED  BY <1>2 DEF PermitsExact

\* A permit is taken out of the semaphore into one task's hand.
LEMMA QuietTakePermit ==
  ASSUME NonceInv, QuietInv, NEW t \in Tasks, AcquireSemaphore(t)
  PROVE  QuietInv'
<1>1. /\ pc[t] = "permit" /\ pc' = [pc EXCEPT ![t] = "lock"]
      /\ pc \in [Tasks -> Locations] /\ permits \in Nat
      /\ permits' = permits - 1 /\ UNCHANGED <<owner, depth, nonce, accountVars>>
  BY DEF AcquireSemaphore, TakePermit, Goto, QuietInv, Undisturbed, NonceInv,
         TypeOK, TasksOK, SharedOK
<1>2. Holders' = Holders \cup {t} /\ t \notin Holders
  BY <1>1 DEF Holders
<1>3. IsFiniteSet(Holders') /\ Cardinality(Holders') = Cardinality(Holders) + 1
      /\ Cardinality(Holders) \in Nat
  BY <1>2, FS_AddElement, FS_CardinalityType DEF QuietInv, PermitsExact
<1>4. PermitsExact'
  BY <1>1, <1>3, GuardAssumption DEF QuietInv, PermitsExact
<1>5. Undisturbed' /\ LockExact'
  BY <1>1 DEF QuietInv, Undisturbed, LockExact
<1>. QED  BY <1>1, <1>4, <1>5, AccountStays DEF QuietInv

\* The lock is taken when it is free, so once.
LEMMA QuietTakeLock ==
  ASSUME NonceInv, QuietInv, NEW t \in Tasks, AcquireLock(t)
  PROVE  QuietInv'
<1>1. /\ pc[t] = "lock" /\ Goto(t, "build") /\ pc' = [pc EXCEPT ![t] = "build"]
      /\ pc \in [Tasks -> Locations]
      /\ owner \in {NoTask, t} /\ owner' = t /\ depth' = depth + 1
      /\ UNCHANGED <<permits, nonce, accountVars>>
  BY DEF AcquireLock, TakeLock, Goto, QuietInv, Undisturbed, NonceInv, TypeOK, TasksOK
<1>2. owner = NoTask /\ depth = 0
  BY <1>1 DEF QuietInv, LockExact
<1>3. LockExact'
  BY <1>1, <1>2, GuardAssumption DEF LockExact
<1>4. Undisturbed'
  BY <1>1 DEF QuietInv, Undisturbed
<1>5. PermitsExact'
  BY <1>1, PermitsStay DEF QuietInv
<1>. QED  BY <1>1, <1>3, <1>4, <1>5, AccountStays DEF QuietInv

\* The task that has the lock builds its transaction.
LEMMA QuietBuild ==
  ASSUME NonceInv, QuietInv, NEW t \in Tasks, Build(t)
  PROVE  QuietInv'
<1>1. /\ pc[t] = "build" /\ Goto(t, "send") /\ pc' = [pc EXCEPT ![t] = "send"]
      /\ pc \in [Tasks -> Locations]
      /\ UNCHANGED <<permits, owner, depth, nonce, accountVars>>
  BY DEF Build, Goto, guardVars, NonceInv, TypeOK, TasksOK
<1>2. LockExact' /\ Undisturbed'
  BY <1>1 DEF QuietInv, LockExact, Undisturbed
<1>3. PermitsExact'
  BY <1>1, PermitsStay DEF QuietInv
<1>. QED  BY <1>1, <1>2, <1>3, AccountStays DEF QuietInv

\* The node has the transaction: nonce, lock and permit all move by one.
LEMMA QuietSent ==
  ASSUME NonceInv, QuietInv, NEW t \in Tasks, Sent(t)
  PROVE  QuietInv'
<1>1. /\ pc[t] = "send" /\ pc' = [pc EXCEPT ![t] = "sent"]
      /\ pc \in [Tasks -> Locations] /\ permits \in Nat /\ nonce \in Nat
      /\ Submit(used[t], Transaction(t)) /\ nonce' = nonce + 1
      /\ permits' = permits + 1 /\ depth' = depth - 1
      /\ owner' = IF depth = 1 THEN NoTask ELSE owner
      /\ UNCHANGED mined
  BY DEF Sent, Leave, Goto, NonceInv, TypeOK, TasksOK, SharedOK
<1>2. owner = t /\ depth = 1 /\ used[t] = nonce
  BY <1>1 DEF NonceInv, OneAtATime, SendsSharedNonce, QuietInv, LockExact
<1>3. LockExact'
  BY <1>1, <1>2, GuardAssumption DEF LockExact
<1>4. Undisturbed'
  BY <1>1 DEF QuietInv, Undisturbed
<1>5. Holders' = Holders \ {t} /\ t \in Holders
  BY <1>1 DEF Holders
<1>6. IsFiniteSet(Holders') /\ Cardinality(Holders') = Cardinality(Holders) - 1
      /\ Cardinality(Holders) \in Nat
  BY <1>5, FS_RemoveElement, FS_CardinalityType DEF QuietInv, PermitsExact
<1>7. PermitsExact'
  BY <1>1, <1>6, GuardAssumption DEF QuietInv, PermitsExact
<1>8. /\ DOMAIN pool' = DOMAIN pool \cup {nonce}
      /\ TransactionCount' = TransactionCount /\ TransactionCount \in Nat
  BY <1>1, <1>2, CountNat DEF Submit, TransactionCount, NonceInv, TypeOK
<1>9. PoolExact'
  BY <1>1, <1>8 DEF QuietInv, PoolExact
<1>10. AllOk'
  BY <1>1 DEF QuietInv, AllOk
<1>. QED  BY <1>3, <1>4, <1>7, <1>9, <1>10 DEF QuietInv

\* A task starts, or comes to its end with nothing in its hands.
LEMMA QuietMove ==
  ASSUME NonceInv, QuietInv, faults = 0, faults' = 0, NEW t \in Tasks,
         Start(t) \/ AfterSend(t) \/ Receipt(t)
  PROVE  QuietInv'
<1>1. /\ pc[t] \in {"new", "sent", "receipt"}
      /\ pc \in [Tasks -> Locations] /\ used[t] \in Int
      /\ UNCHANGED <<permits, owner, depth, nonce, accountVars>>
  BY DEF Start, AfterSend, Receipt, guardVars, NonceInv, TypeOK, TasksOK
<1>2. ~Fault("timeout")
  BY DEF Fault
<1>3. ~ReceiptFailed(used[t], Transaction(t))
  <2>1. HasReceipt(used[t], Transaction(t)) => used[t] + 1 \in 1 .. Len(mined)
    BY <1>1, LenProperties DEF HasReceipt, TransactionCount, NonceInv, TypeOK, SharedOK
  <2>. QED  BY <2>1 DEF ReceiptFailed, QuietInv, AllOk
<1>4. PICK l \in {"permit", "receipt", "done"} : Goto(t, l)
  BY <1>2, <1>3 DEF Start, AfterSend, Receipt
<1>5. pc' = [pc EXCEPT ![t] = l]
  BY <1>4 DEF Goto
<1>6. LockExact' /\ Undisturbed'
  BY <1>1, <1>5 DEF QuietInv, LockExact, Undisturbed
<1>7. PermitsExact'
  BY <1>1, <1>4, PermitsStay DEF QuietInv
<1>. QED  BY <1>1, <1>6, <1>7, AccountStays DEF QuietInv

\* The pending transaction whose turn it is, is mined, and succeeds.
LEMMA QuietMine ==
  ASSUME NonceInv, QuietInv, faults = 0, faults' = 0, MineNext
  PROVE  QuietInv'
<1>1. Mine(TRUE) /\ UNCHANGED <<pc, nonce, permits, owner, depth>>
  <2>1. ~Fault("revert")
    BY DEF Fault
  <2>2. UNCHANGED <<taskVars, nonce, guardVars>>
    BY DEF MineNext
  <2>3. Mine(TRUE)
    BY <2>1, Zenon DEF MineNext
  <2>. QED  BY <2>2, <2>3 DEF taskVars, guardVars
<1>2. /\ TransactionCount' = TransactionCount + 1
      /\ DOMAIN pool' = DOMAIN pool \ {TransactionCount}
      /\ TransactionCount \in Nat /\ nonce \in Nat
  BY <1>1, Mined, CountNat DEF NonceInv, TypeOK, SharedOK
<1>3. TransactionCount \in DOMAIN pool
  BY <1>1 DEF Mine, Minable
<1>4. PoolExact'
  BY <1>1, <1>2, <1>3 DEF QuietInv, PoolExact
<1>5. AllOk'
  <2>1. [tx |-> NextTx, ok |-> TRUE] \in [tx : Tx, ok : BOOLEAN]
    BY <1>3 DEF NextTx, NonceInv, TypeOK, SharedOK
  <2>2. /\ Len(mined') = Len(mined) + 1
        /\ \A i \in 1 .. Len(mined) : mined'[i] = mined[i]
        /\ mined'[Len(mined) + 1] = [tx |-> NextTx, ok |-> TRUE]
    BY <1>1, <2>1, AppendProperties DEF Mine, NonceInv, TypeOK, SharedOK
  <2>3. \A i \in 1 .. Len(mined') : i \in 1 .. Len(mined) \/ i = Len(mined) + 1
    BY <2>2, LenProperties DEF NonceInv, TypeOK, SharedOK
  <2>. QED  BY <2>2, <2>3 DEF QuietInv, AllOk
<1>6. Undisturbed' /\ LockExact'
  BY <1>1 DEF QuietInv, Undisturbed, LockExact
<1>7. PermitsExact'
  BY <1>1 DEF QuietInv, PermitsExact, Holders
<1>. QED  BY <1>4, <1>5, <1>6, <1>7 DEF QuietInv

\* Initially nothing is pending, held or taken.
LEMMA QuietInvInit == Init => QuietInv
<1> SUFFICES ASSUME Init PROVE QuietInv
  OBVIOUS
<1>1. TransactionCount = 0 /\ Len(mined) = 0 /\ DOMAIN pool = {} /\ nonce = 0
  BY EmptySeq DEF Init, AccountInit, TransactionCount
<1>2. PoolExact /\ AllOk
  BY <1>1 DEF PoolExact, AllOk
<1>3. Undisturbed /\ LockExact
  BY GuardAssumption DEF Init, GuardInit, Undisturbed, LockExact
<1>4. Holders = {}
  BY DEF Init, Holders
<1>5. PermitsExact
  BY <1>4, FS_EmptySet, GuardAssumption DEF Init, GuardInit, PermitsExact
<1>. QED  BY <1>2, <1>3, <1>5 DEF QuietInv

\* Every step that brings no fault keeps QuietInv.
LEMMA QuietInvStep ==
  NonceInv /\ (faults = 0 => QuietInv) /\ [Next]_vars => (faults = 0 => QuietInv)'
<1> SUFFICES ASSUME NonceInv, faults = 0 => QuietInv, [Next]_vars, faults' = 0
             PROVE  QuietInv'
  OBVIOUS
<1>1. faults = 0 /\ QuietInv
  BY StillQuiet
<1>2. ASSUME NEW t \in Tasks, Step(t) PROVE QuietInv'
  BY <1>1, <1>2, NothingFails, QuietMove, QuietTakePermit, QuietTakeLock, QuietBuild,
     QuietSent DEF Step
<1>3. CASE MineNext
  BY <1>1, <1>3, QuietMine
<1>4. CASE UNCHANGED vars
  BY <1>1, <1>4 DEF vars, taskVars, guardVars, accountVars, QuietInv, Undisturbed,
     PoolExact, AllOk, LockExact, PermitsExact, Holders, TransactionCount
<1>. QED  BY <1>2, <1>3, <1>4 DEF Next

\* QuietInv holds of every behaviour until its first fault.
LEMMA QuietInvHolds == Spec => [](faults = 0 => QuietInv)
<1>1. Init => (faults = 0 => QuietInv)
  BY QuietInvInit
<1>. QED  BY <1>1, QuietInvStep, NonceInvHolds, PTL DEF Spec

\* Until a fault, the shared nonce is the next free nonce of the account, with
\* any number of transactions pending: no send is refused.
THEOREM NonceStaysNext == Spec => []NonceIsNext
<1>1. NonceInv /\ (faults = 0 => QuietInv) => NonceIsNext
  <2> SUFFICES ASSUME NonceInv, QuietInv
               PROVE  nonce = TransactionCount + Cardinality(DOMAIN pool)
    BY DEF NonceIsNext
  <2>1. TransactionCount \in Nat /\ nonce \in Nat
    BY CountNat DEF NonceInv, TypeOK, SharedOK
  <2>2. TransactionCount <= nonce /\ DOMAIN pool = TransactionCount .. nonce - 1
    BY DEF QuietInv, PoolExact
  <2>3. Cardinality(DOMAIN pool) = nonce - TransactionCount
    BY <2>1, <2>2, FS_Interval
  <2>. QED  BY <2>1, <2>3
<1>. QED  BY <1>1, NonceInvHolds, QuietInvHolds, PTL

\* Until a fault, a task that is over has given back the writer lock, and all
\* permits are back when all tasks are over.
THEOREM EverythingGivenBack == Spec => []QuietReleases
<1>1. NonceInv /\ (faults = 0 => QuietInv) => QuietReleases
  <2> SUFFICES ASSUME NonceInv, QuietInv PROVE OverReleases
    BY DEF QuietReleases
  <2>1. \A t \in Tasks : Over(t) => owner # t
    BY DEF QuietInv, LockExact, Over
  <2>2. ASSUME \A t \in Tasks : Over(t) PROVE permits = Permits
    <3>1. Holders = {}
      BY <2>2 DEF Holders, Over
    <3>2. permits \in Nat
      BY DEF NonceInv, TypeOK, SharedOK
    <3>. QED  BY <3>1, <3>2, FS_EmptySet DEF QuietInv, PermitsExact
  <2>. QED  BY <2>1, <2>2 DEF OverReleases
<1>. QED  BY <1>1, NonceInvHolds, QuietInvHolds, PTL

\* Until a fault, a batch does not get stuck, however few permits there are: as long
\* as a task is not over, some task has what it waits for, or there is a transaction
\* to mine.
THEOREM SomeoneGoesOn == Spec => []SomeoneReady
<1>1. NonceInv /\ ReceiptComes /\ (faults = 0 => QuietInv) => SomeoneReady
  <2> SUFFICES ASSUME NonceInv, ReceiptComes, QuietInv, NEW t \in Tasks, ~Over(t), ~Minable
               PROVE  \E u \in Tasks : Ready(u)
    BY DEF SomeoneReady
  <2>0. /\ pc \in [Tasks -> Locations] /\ permits \in Nat /\ nonce \in Nat
        /\ owner \in Tasks \cup {NoTask} /\ TransactionCount \in Nat
    BY CountNat DEF NonceInv, TypeOK, TasksOK, SharedOK
  <2>1. ASSUME NEW u \in Tasks, pc[u] \in {"build", "send"} PROVE Ready(u)
    <3>1. pc[u] = "send" => used[u] = nonce
      BY DEF NonceInv, SendsSharedNonce
    <3>2. Acceptable(nonce, Transaction(u))
      BY <2>0 DEF QuietInv, PoolExact, Acceptable, TooLow, AlreadyKnown, Underpriced
    <3>. QED  BY <2>1, <3>1, <3>2 DEF Ready
  <2>2. ASSUME NEW u \in Tasks, pc[u] = "lock" PROVE \E v \in Tasks : Ready(v)
    <3>1. CASE owner = NoTask
      BY <2>2, <3>1 DEF Ready
    <3>2. CASE owner \in Tasks
      BY <2>1, <3>2 DEF QuietInv, LockExact
    <3>. QED  BY <2>0, <3>1, <3>2
  <2>3. CASE pc[t] \in {"lock", "build", "send"}
    BY <2>1, <2>2, <2>3
  <2>4. CASE pc[t] = "permit"
    <3>1. CASE permits > 0
      BY <2>4, <3>1 DEF Ready
    <3>2. CASE permits = 0
      <4>1. Holders # {}
        BY <2>0, <3>2, FS_EmptySet, GuardAssumption DEF QuietInv, PermitsExact
      <4>. QED  BY <2>1, <2>2, <4>1 DEF Holders
    <3>. QED  BY <2>0, <3>1, <3>2
  <2>5. CASE pc[t] = "receipt"
    <3>1. used[t] \notin DOMAIN pool
      BY <2>0 DEF QuietInv, PoolExact, Minable
    <3>. QED  BY <2>5, <3>1 DEF ReceiptComes, Ready
  <2>6. CASE pc[t] \in {"new", "sent"}
    BY <2>6 DEF Ready
  <2>. QED  BY <2>0, <2>3, <2>4, <2>5, <2>6 DEF Over, Locations, QuietInv, Undisturbed
<1>. QED  BY <1>1, NonceInvHolds, QuietInvHolds, WhatIsSentComes, PTL
=============================================================================
