--------------------------- MODULE ConsensusTasks ---------------------------
(***************************************************************************)
(* force_consensus.py, the transaction tasks: every project of an epoch to *)
(* force gets a task that runs _call_force_complete_consensus.  The tasks  *)
(* run concurrently and share the account and self._nonce, which the       *)
(* decorated functions _make_transaction and _reset_nonce change.          *)
(***************************************************************************)
EXTENDS TxnGuard, AnchorAccount, FiniteSets

CONSTANTS
  About,       \* what each task is to force: a project of an epoch
  Attempts,    \* settings.anchor_chain.rpc.retry
  FaultKinds,  \* what may go wrong
  MaxFaults    \* bound: how often it goes wrong in one behaviour

ASSUME TasksAssumption ==
  /\ About \in [Tasks -> Range(About)]
  /\ Attempts \in Nat \ {0}
  /\ FaultKinds \subseteq {"rpc", "lost", "revert", "timeout"}
  /\ MaxFaults \in Nat

VARIABLES
  pc,        \* where each task is
  failures,  \* failed attempts of _make_transaction, per task
  used,      \* the nonce in the last transaction a task built, -1 for none
  nonce,     \* self._nonce
  faults     \* how often something went wrong so far

taskVars == <<pc, failures, used>>
vars == <<taskVars, nonce, guardVars, accountVars, faults>>

Locations ==
  {"new", "permit", "lock", "build", "send", "sent", "receipt",
   "reset_permit", "reset_lock", "reset", "done", "failed"}

Over(t) == pc[t] \in {"done", "failed"}

Fault(kind) == kind \in FaultKinds /\ faults < MaxFaults /\ faults' = faults + 1

Goto(t, l) == pc' = [pc EXCEPT ![t] = l]

\* Mutant: the gas price is raised with every failed attempt.
Raised(t) == [about |-> About[t], gas |-> 1 + failures[t]]
\* forceCompleteConsensusSnapshot for the project and epoch of task t; the gas
\* price is always the same.
Transaction(t) == [about |-> About[t], gas |-> 1]

-----------------------------------------------------------------------------
(* The steps of a task.                                                    *)

\* asyncio.gather starts the task.
Start(t) ==
  /\ pc[t] = "new" /\ Goto(t, "permit")
  /\ UNCHANGED <<failures, used, nonce, guardVars, accountVars, faults>>

AcquireSemaphore(t) ==
  /\ \/ pc[t] = "permit" /\ Goto(t, "lock")
     \/ pc[t] = "reset_permit" /\ Goto(t, "reset_lock")
  /\ TakePermit
  /\ UNCHANGED <<failures, used, nonce, accountVars, faults>>

AcquireLock(t) ==
  /\ \/ pc[t] = "lock" /\ Goto(t, "build")
     \/ pc[t] = "reset_lock" /\ Goto(t, "reset")
  /\ TakeLock(t)
  /\ UNCHANGED <<failures, used, nonce, accountVars, faults>>

\* _make_transaction builds and signs the transaction with self._nonce ...
Build(t) ==
  /\ pc[t] = "build" /\ Goto(t, "send")
  /\ used' = [used EXCEPT ![t] = nonce]
  /\ UNCHANGED <<failures, nonce, guardVars, accountVars, faults>>

\* Mutant: the nonce is not counted.
SentUncounted(t) ==
  /\ pc[t] = "send" /\ Acceptable(used[t], Transaction(t))
  /\ Submit(used[t], Transaction(t)) /\ UNCHANGED mined
  /\ Leave(t) /\ Goto(t, "sent")
  /\ UNCHANGED <<failures, used, nonce, faults>>
\* ... and the node takes it.
Sent(t) ==
  /\ pc[t] = "send" /\ Acceptable(used[t], Transaction(t))
  /\ Submit(used[t], Transaction(t)) /\ UNCHANGED mined
  /\ nonce' = nonce + 1
  /\ Leave(t) /\ Goto(t, "sent")
  /\ UNCHANGED <<failures, used, faults>>

\* The node refuses the transaction, or the call fails before ("rpc") or after
\* ("lost") the node took it.
SendFails(t) ==
  \/ Refusals(used[t], Transaction(t)) # {} /\ UNCHANGED <<accountVars, faults>>
  \/ Fault("rpc") /\ UNCHANGED accountVars
  \/ /\ Fault("lost") /\ Acceptable(used[t], Transaction(t))
     /\ Submit(used[t], Transaction(t)) /\ UNCHANGED mined

\* Mutant: the failed attempt is not counted.
NotSentUncounted(t) ==
  /\ pc[t] = "send" /\ SendFails(t)
  /\ LeaveByException
  /\ Goto(t, IF failures[t] + 1 < Attempts THEN "permit" ELSE "reset_permit")
  /\ UNCHANGED <<failures, used, nonce>>
\* _make_transaction raises: tenacity calls the decorated function again, or
\* gives up, and the task goes to its except clause.
NotSent(t) ==
  /\ pc[t] = "send" /\ SendFails(t)
  /\ LeaveByException
  /\ failures' = [failures EXCEPT ![t] = @ + 1]
  /\ Goto(t, IF failures[t] + 1 < Attempts THEN "permit" ELSE "reset_permit")
  /\ UNCHANGED <<used, nonce>>

\* random.choice: one task in a hundred waits for its receipt.
AfterSend(t) ==
  /\ pc[t] = "sent"
  /\ Goto(t, "receipt") \/ Goto(t, "done")
  /\ UNCHANGED <<failures, used, nonce, guardVars, accountVars, faults>>

\* A failed transaction ends in the except clause too: json.dumps cannot
\* serialize the receipt.
Receipt(t) ==
  /\ pc[t] = "receipt"
  /\ \/ ReceiptOk(used[t], Transaction(t)) /\ Goto(t, "done") /\ UNCHANGED faults
     \/ ReceiptFailed(used[t], Transaction(t)) /\ Goto(t, "reset_permit") /\ UNCHANGED faults
     \/ /\ ~HasReceipt(used[t], Transaction(t)) /\ Fault("timeout")
        /\ Goto(t, "reset_permit")
  /\ UNCHANGED <<failures, used, nonce, guardVars, accountVars>>

\* Mutant: the nonce is moved past the one in doubt.
SkippedNonce == nonce + 1
NonceFromChain == TransactionCount

\* _reset_nonce, and the task returns.
Reset(t) ==
  /\ pc[t] = "reset"
  /\ nonce' = NonceFromChain /\ Leave(t) /\ Goto(t, "done")
  /\ UNCHANGED <<failures, used, accountVars, faults>>

\* _reset_nonce raises, and so does the task.
ResetFails(t) ==
  /\ pc[t] = "reset" /\ Fault("rpc")
  /\ LeaveByException /\ Goto(t, "failed")
  /\ UNCHANGED <<failures, used, nonce, accountVars>>

-----------------------------------------------------------------------------
(* The anchor chain.                                                       *)

MineNext ==
  /\ \/ Mine(TRUE) /\ UNCHANGED faults
     \/ Mine(FALSE) /\ Fault("revert")
  /\ UNCHANGED <<taskVars, nonce, guardVars>>

Init ==
  /\ pc = [t \in Tasks |-> "new"]
  /\ failures = [t \in Tasks |-> 0]
  /\ used = [t \in Tasks |-> -1]
  /\ AccountInit /\ GuardInit
  /\ nonce = TransactionCount /\ faults = 0

Step(t) ==
  \/ Start(t) \/ AcquireSemaphore(t) \/ AcquireLock(t)
  \/ Build(t) \/ Sent(t) \/ NotSent(t) \/ AfterSend(t) \/ Receipt(t)
  \/ Reset(t) \/ ResetFails(t)

Next == (\E t \in Tasks : Step(t)) \/ MineNext

Spec == Init /\ [][Next]_vars

-----------------------------------------------------------------------------
(* Properties.                                                             *)

TasksOK ==
  /\ pc \in [Tasks -> Locations]
  /\ failures \in [Tasks -> Nat]
  /\ used \in [Tasks -> Nat \cup {-1}]

Tx == [about : Range(About), gas : {1}]

SharedOK ==
  /\ nonce \in Nat /\ faults \in Nat
  /\ mined \in Seq([tx : Tx, ok : BOOLEAN])
  /\ DOMAIN pool \subseteq Nat /\ pool \in [DOMAIN pool -> Tx]
  /\ permits \in Nat /\ owner \in Tasks \cup {NoTask} /\ depth \in Nat

\* Types: in particular, the semaphore and the lock are never released more
\* often than they were acquired.
TypeOK == TasksOK /\ SharedOK

\* Two tasks never use or change self._nonce at once: while one builds and
\* sends its transaction or resets the nonce, it owns the writer lock.
OneAtATime ==
  \A t \in Tasks : pc[t] \in {"build", "send", "reset"} => owner = t /\ depth > 0

\* The shared nonce never runs ahead of the account: every nonce before it is mined
\* or pending.
NoGap ==
  \A n \in TransactionCount .. nonce - 1 : n \in DOMAIN pool

\* No pending transaction waits behind a nonce that no transaction has.
PoolWhole ==
  DOMAIN pool = TransactionCount .. TransactionCount + Cardinality(DOMAIN pool) - 1

\* Lost answers, retries and resets leave no hole, neither below the shared nonce nor
\* among what is pending.
NoHole == NoGap /\ PoolWhole

\* Why: a transaction on its way carries the nonce that is still the shared one.
SendsSharedNonce == \A t \in Tasks : pc[t] = "send" => used[t] = nonce

NonceInv == TypeOK /\ OneAtATime /\ SendsSharedNonce /\ NoGap

\* What task t waits for is there.
Ready(t) ==
  \/ pc[t] \in {"new", "build", "sent", "reset"}
  \/ pc[t] \in {"permit", "reset_permit"} /\ permits > 0
  \/ pc[t] \in {"lock", "reset_lock"} /\ owner \in {NoTask, t}
  \/ pc[t] = "send" /\ Acceptable(used[t], Transaction(t))
  \/ pc[t] = "receipt" /\ HasReceipt(used[t], Transaction(t))

\* As long as nothing goes wrong, the tasks do not wait for each other, with fewer
\* permits than tasks too: until all are over there is a task that has what it waits
\* for, with a send the node takes, or a transaction to mine.
SomeoneReady ==
  faults = 0 /\ (\E t \in Tasks : ~Over(t)) => Minable \/ \E t \in Tasks : Ready(t)

\* A task that sent waits for what comes: its transaction is still pending or has its
\* receipt, whatever else is sent, reset or mined.
ReceiptComes ==
  \A t \in Tasks : pc[t] \in {"sent", "receipt"} =>
    HasReceipt(used[t], Transaction(t))
      \/ (used[t] \in DOMAIN pool /\ pool[used[t]] = Transaction(t))

\* Steps that task t still takes at most.
StepsLeft(t) ==
  LET tries == 4 * (Attempts - failures[t]) IN
  CASE pc[t] = "new"    -> tries + 6
    [] pc[t] = "permit" -> tries + 5
    [] pc[t] = "lock"   -> tries + 4
    [] pc[t] = "build"  -> tries + 3
    [] pc[t] = "send"   -> tries + 2
    [] pc[t] = "sent"   -> 5
    [] pc[t] = "receipt"      -> 4
    [] pc[t] = "reset_permit" -> 3
    [] pc[t] = "reset_lock"   -> 2
    [] pc[t] = "reset"        -> 1
    [] OTHER -> 0

\* No task goes on for ever, whatever fails and however often: every step of a task
\* is one less of the steps it can still take, and none is added.
WindsDown ==
  [][/\ \A t \in Tasks : StepsLeft(t)' \in 0 .. StepsLeft(t)
     /\ pc' # pc => \E t \in Tasks : StepsLeft(t)' < StepsLeft(t)]_vars

\* A task that is over holds neither the writer lock nor a permit.
OverReleases ==
  /\ \A t \in Tasks : Over(t) => owner # t
  /\ (\A t \in Tasks : Over(t)) => permits = Permits

\* The same, as long as nothing goes wrong.
QuietReleases == faults = 0 => OverReleases

\* As long as nothing goes wrong, the shared nonce is the next free nonce of the
\* account, pending transactions included: every send is accepted.
NonceIsNext == faults = 0 => nonce = TransactionCount + Cardinality(DOMAIN pool)
=============================================================================
