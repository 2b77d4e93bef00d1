--------------------------- MODULE ForceConsensus ---------------------------
(***************************************************************************)
(* force_consensus.py as a whole: the event detector and the transaction   *)
(* tasks of its batches.  A batch has one task for each project it forces, *)
(* and ends when all of them are over; the tasks of all batches share the  *)
(* nonce, the semaphore and the lock.  A process that ends takes its tasks *)
(* along, what they sent stays at the node.                                *)
(***************************************************************************)
EXTENDS EventDetector

CONSTANTS
  NoTask, Permits, Attempts,  \* as in ConsensusTasks
  TaskFaultKinds,             \* what may go wrong in a task
  MaxTaskFaults               \* bound: how often it goes wrong in one behaviour

\* A pending epoch with the time its release was read: what a batch deals with.
Entries == (0 .. MaxClock) \X Epochs
\* One task for each project of an entry.
Tasks   == Entries \X Projects
Targets == Epochs \X Projects
\* _call_force_complete_consensus(project, epochId)
About   == [t \in Tasks |-> <<t[1][2], t[2]>>]

ASSUME ForceAssumption ==
  /\ NoTask \notin Tasks
  /\ Permits \in Nat \ {0} /\ Attempts \in Nat \ {0}
  /\ TaskFaultKinds \subseteq {"rpc", "lost", "revert", "timeout"} /\ MaxTaskFaults \in Nat

VARIABLES
  taskPc, failures, used,      \* the tasks
  nonce,                       \* self._nonce
  permits, owner, depth,       \* self._semaphore and self._rwlock
  mined, pool,                 \* the account of the service
  taskFaults,
  rewound                      \* history: did the last block ever move back?

T == INSTANCE ConsensusTasks WITH
  pc <- taskPc, faults <- taskFaults,
  FaultKinds <- TaskFaultKinds, MaxFaults <- MaxTaskFaults

taskVars     == <<taskPc, failures, used>>
guardVars    == <<permits, owner, depth>>
accountVars  == <<mined, pool>>
detectorVars == vars
serviceVars  == <<taskVars, nonce, guardVars, accountVars, taskFaults, rewound>>
allVars == <<detectorVars, serviceVars>>

\* The tasks of a batch.
TasksOf(i) == {t \in Tasks : t[1] \in DOMAIN batches[i].forces /\ t[2] \in batches[i].forces[t[1]]}
Running == UNION {TasksOf(i) : i \in DOMAIN batches}

\* Tasks that are gone, or not made yet.
Forget(tasks) ==
  /\ taskPc'   = [t \in Tasks |-> IF t \in tasks THEN "new" ELSE taskPc[t]]
  /\ failures' = [t \in Tasks |-> IF t \in tasks THEN 0 ELSE failures[t]]
  /\ used'     = [t \in Tasks |-> IF t \in tasks THEN -1 ELSE used[t]]

\* __init__ of a new process makes the semaphore and the lock anew.
NewGuard == permits' = Permits /\ owner' = NoTask /\ depth' = 0

\* run goes on.  A new process asks for its nonce, one that ends forgets its tasks.
DetectorStep ==
  /\ Run
  /\ \/ pc' = "down" /\ Forget(Tasks) /\ NewGuard /\ UNCHANGED nonce
     \/ pc = "down" /\ nonce' = T!TransactionCount /\ UNCHANGED <<taskVars, guardVars>>
     \/ pc # "down" /\ pc' # "down" /\ UNCHANGED <<taskVars, nonce, guardVars>>
  /\ rewound' = (rewound \/ last' < last)
  /\ UNCHANGED <<accountVars, taskFaults>>

ServiceCrash ==
  /\ Crash /\ Forget(Tasks) /\ NewGuard
  /\ UNCHANGED <<nonce, accountVars, taskFaults, rewound>>

\* Mutant: the batch does not wait for its tasks.
GatheredAtOnce(i) == TRUE
\* asyncio.gather.
Gathered(i) == \A t \in TasksOf(i) : T!Over(t)

EndOfBatch ==
  /\ \E i \in DOMAIN batches : Gathered(i) /\ EndBatchAt(i) /\ Forget(TasksOf(i))
  /\ UNCHANGED <<nonce, guardVars, accountVars, taskFaults, rewound>>

TaskStep(t) == t \in Running /\ T!Step(t) /\ UNCHANGED <<detectorVars, rewound>>

Chain ==
  \/ (NewBlock \/ Tick) /\ UNCHANGED serviceVars
  \/ T!MineNext /\ UNCHANGED <<detectorVars, rewound>>

ForceInit == Init /\ T!Init /\ rewound = FALSE

ForceNext ==
  DetectorStep \/ ServiceCrash \/ EndOfBatch \/ Chain \/ (\E t \in Tasks : TaskStep(t))

ForceSpec == ForceInit /\ [][ForceNext]_allVars

\* The event loop runs the loop of run and every task, and the node asked for the
\* head does not lag at every call.
ForceFairSpec ==
  /\ ForceSpec
  /\ WF_allVars(DetectorStep) /\ WF_allVars(EndOfBatch)
  /\ SF_allVars(DetectorStep /\ PollNewest)
  /\ \A t \in Tasks : WF_allVars(TaskStep(t))

-----------------------------------------------------------------------------
(* Properties.                                                             *)

SentFor(g) ==
  \/ \E n \in DOMAIN pool : pool[n].about = g
  \/ \E i \in DOMAIN mined : mined[i].tx.about = g

\* What may be forced: a project that was submitted, for an epoch whose window is
\* over.
Forcible ==
  {g \in Targets : /\ g[1] \in ReleasedIn(1 .. Height)
                   /\ clock > ReleaseTime(g[1]) + Window
                   /\ g[2] \in SubmittedIn(1 .. Height, g[1])}

\* Whatever fails or restarts, only what may be forced is forced.
ForcesExpired == \A g \in Targets : SentFor(g) => g \in Forcible

\* The detector failed or restarted, or a node that was behind took it back in the
\* chain, so that it handles blocks again.
Disturbed == faults > 0 \/ rewound

\* Until the detector is disturbed, no project is forced by two transactions,
\* whatever becomes of the tasks and their calls, and although blocks are missed.
ForcedOnce ==
  ~Disturbed =>
    \A g \in Targets :
      Cardinality({n \in DOMAIN pool : pool[n].about = g})
        + Cardinality({i \in DOMAIN mined : mined[i].tx.about = g}) <= 1

\* What the account has sent, in the order of the nonces.
SentInOrder ==
  [i \in 1 .. Len(mined) + Cardinality(DOMAIN pool) |->
     IF i <= Len(mined) THEN mined[i].tx.about ELSE pool[i - 1].about]

\* The service keeps its promise, with every batch, task and transaction.
Promise == INSTANCE ForceLedger WITH
  forcible <- Forcible, sent <- SentInOrder, disturbed <- Disturbed

KeepsPromise == Promise!ForcingSpec

\* Through all batches and restarts the nonce is used by one task at a time and
\* leaves no gap, and no pending transaction waits behind a hole.
NonceKept == T!OneAtATime /\ T!NoGap /\ T!PoolWhole

\* Every project still open when its epoch's window is over gets its transaction,
\* if a block is left to handle, unless the project is finalized first, something
\* fails, or the detector goes back: of an epoch that is pending twice the first
\* batch clears the memory that the second one needs.
EveryProjectForced ==
  \A g \in Targets :
    /\ \E x \in Overdue : x[2] = g[1]
    /\ g[2] \in submitted[g[1]] /\ last < Height
    ~> \/ SentFor(g) \/ g[2] \in FinalizedIn(1 .. Height, g[1])
       \/ Disturbed \/ taskFaults > 0
=============================================================================
