# Epoch manager: formal models

TLA+ models of the two services of this repository, the epoch generator and the
force consensus service, with TLC configurations that check them on small
instances and TLAPS proofs of theorems that hold for every value of the
constants. Paths below are relative to `src/`.

Run a check with `tlc -config EpochFromHead.cfg MCEpochGenerator` and the proofs
with `tlapm EpochGeneratorProofs.tla`, and the other `*Proofs.tla` alike.

## 1. The system

| Component | State it keeps | Operations | Talks to |
|---|---|---|---|
| Epoch generator, `epoch_generator.py` | `_nonce`, `release_counter`, `_force_tx`; locals `begin_block_epoch`, `end_block_epoch`, the chunk at hand. Nothing is persisted | `setup`, `_wait_and_release_first_epoch`, `_release_epoch_with_retry`, `_reset_nonce`, `run`, signal handler | source chain through ConstructRPC, anchor chain through web3 |
| Transaction helpers, `utils/transaction_utils.py` | none | `write_transaction`, `write_transaction_with_receipt` | anchor chain node |
| Protocol State contract (external; `utils/static/abi.json`) | current epoch, submissions, consensus | `releaseEpoch`, `currentEpoch`, `forceCompleteConsensusSnapshot` | called by both services, emits events |
| Anchor chain node (external) | account nonce, pending and mined transactions | `get_transaction_count`, `send_raw_transaction`, `wait_for_transaction_receipt` | both services |
| Force consensus, event detector: `force_consensus.py`, `run`, `get_events`, `_force_complete_consensus` | `_last_processed_block` (also in redis), `_pending_epochs`, `_projects_submitted_for_epoch`, `_finalized_epochs` | poll the head, handle a range of blocks, save the checkpoint, pick the epochs whose window is over, start one task per project | RpcHelper, redis, transaction tasks |
| Force consensus, transaction tasks: `_call_force_complete_consensus`, `_make_transaction`, `_reset_nonce` and the decorator in `utils/helpers.py` | shared `_nonce`, `_semaphore`, `_rwlock` | acquire, build and send, count the nonce, wait for a receipt, retry, reset | anchor chain account |
| RpcHelper, `rpc.py` | `_nodes` with their clients, `_initialized`, `_sync_nodes_initialized`, the names of the limiter's scripts | `init`, `get_current_node`, `get_current_block`, `get_events_logs`, `web3_call`, `get_transaction_receipt`, batch calls; retries that rotate through the nodes | nodes, rate limiter, redis |
| ConstructRPC, `helpers/rpc_helper.py` | a retry count per URL within a call | `rpc_eth_blocknumber`, `rpc_eth_getblock_by_number` | source chain nodes |
| Rate limiter, `utils/rate_limiter.py` | counters and scripts in redis | `check_rpc_rate_limit`, `load_rate_limiter_scripts` | redis |
| Redis pool, notifications, settings, logging | connections, configuration | set-up, fire and forget posts | |
| Process supervision, `pm2.config.js` | restart count | starts a process again when it ends | both services |

The services share no memory and use two different accounts. They interact only
through the contract: what the generator announces, the force consensus service
sees as an `EpochReleased` event.

### What is hard here

* **Blind transactions.** Nine of ten `releaseEpoch` transactions are sent
  without waiting for a receipt. The process works on an assumption about the
  contract that may be wrong for several epochs, and several transactions
  depend on each other through their nonces.
* **Recovery in two calls.** After an error the generator reads the nonce, which
  ignores pending transactions, and then the current epoch. The chain moves
  between the two reads and after them.
* **Nothing is persisted.** A restart reads both back in the same way, while
  transactions of the former process are still pending.
* **A node's answers.** A call may fail before or after the node acted on it, a
  transaction may be dropped, replaced or be late, and a source chain node may
  answer with an old head.
* **Concurrent tasks over one nonce.** A semaphore and a re-entrant lock protect
  it, and an exception leaves both held.
* **Calls that share their set-up.** The first calls of RpcHelper run `init`
  together, and one of them may fail half-way; all of them draw on one rate limit
  in redis, whose scripts a restart of redis forgets.
* **A signal is an exception.** The shutdown signal raises wherever the process
  is, and the `except` clauses around the calls catch it.
* **Checkpoint and memory.** The event detector persists how far it has read,
  but keeps what it has read in memory.

What has to be right: the generator announces every block once and in order,
never too close to the head, never again once the contract has it, and gets the
contract moving again after any fault; the tasks use the nonce one at a time,
never leave a hole in it, and all get to an end; the detector handles every
block's events and forces every open project of every epoch once its window is
over; a call of a node is repeated on every other node before it fails, never
beyond its rate limit, and comes to an end.

## 2. Modules

| Module | Models |
|---|---|
| `AnchorAccount` | the account at the anchor chain node: mined and pending transactions, nonces, refusals, receipts, dropping |
| `EpochLedger` | abstract specification of the generator: the source chain grows, and an accepted epoch continues the last one and is settled |
| `EpochGenerator` | `run` of the generator and all it calls, restarts, contract, faults |
| `Shutdown` | the generator with its signal handler |
| `TxnGuard` | the decorator, the semaphore and the writer lock |
| `ConsensusTasks` | one batch of concurrent transaction tasks over `TxnGuard` and `AnchorAccount` |
| `EventDetector` | polling, the redis checkpoint, memory, batches and restarts of the force consensus service |
| `ForceLedger` | abstract specification of the force consensus service: its transactions, in the order of their nonces, each force what may be forced, and nothing twice until it is disturbed |
| `ForceConsensus` | the service as a whole: the detector and the tasks of all its batches |
| `RateLimiter` | the counters and scripts in redis |
| `NodeFailover` | abstract specification of a retried call: it asks every node before it gives up |
| `RpcHelper` | initialisation, rate limits, failover and retries of concurrent calls |
| `ConstructRPC` | the loop over the source chain nodes, and `auto_retry` |
| `MC...` | fault sets and nodes for TLC |
| `...Proofs` | the theorems, section 10 |

`EpochGenerator` extends `EpochLedger` and `AnchorAccount`: the variables `head`
and `ledger` of the abstract specification are variables of the detailed one, so
that `LedgerSpec` itself is the property and the refinement mapping is the
identity. `Shutdown` extends `EpochGenerator` by one variable. `ConsensusTasks`
extends `TxnGuard` and `AnchorAccount`. `ForceConsensus` extends `EventDetector`
and takes in `ConsensusTasks` as an instance, in which a task is an entry of
`_pending_epochs` and a project, and is about the entry's epoch and the project. It implements `ForceLedger` under a mapping (`Promise`) that lines up the
account's transactions by their nonces, mined or pending. `RpcHelper` extends `RateLimiter`, and implements `NodeFailover` under a
mapping that takes the places where a call waits to one status.

### Plan

The components are modelled. What is left:

1. What a process that waits for its release time promises beyond what is proved
   of it (`LedgerSpec` before a checking contract, `SentSettled`, `NonceGapFree`).
   Section 10 says why the other theorems exclude it.
2. Reorganisations of the anchor chain, once the code handles them.

## 3. EpochGenerator

`pc` names the place in the code where the process awaits something; one action
runs from one await to the next. The other variables are the attributes and
locals of the process, the pending and mined transactions of its account, the
contract's accepted epochs (`ledger`), the head of the source chain, the time
relative to `epoch_release_start_timestamp`, and a count of faults.

| Code | Actions |
|---|---|
| `__init__`, `setup`, start of `run` | `Setup`, `FetchAtStart` |
| `_wait_and_release_first_epoch` | `FirstCheck`, `FirstHead` |
| `_release_epoch_with_retry`, `_reset_nonce` | `FirstSend`, `FirstReceipt`, `FirstReset` |
| `run`, waiting for blocks | `SetBegin`, `PollIdle`, `StartChunks` |
| `run`, chunk loop | `SkipPartial`, `ChunksDone`, `BlindRelease`, `ReleaseWithReceipt`, `ReceiptConfirmed`, `ReceiptRejected`, `ReceiptMissing` |
| `run`, both recoveries | `RecoverNonce`, `RecoverEpoch`, `RecoveryFails` |
| pm2 | `Exit` inside the actions that end the process, and `Crash` |
| node, contract, source chain | `MineAccepted`, `MineReverted`, `Drop`, `AdvanceHead`, `Tick` |

Abstractions. A transaction is the epoch it announces and one of two gas prices.
`release_counter` is kept modulo `_check_receipt_every`, which is all the code
looks at. Calls of one await that read and do not change anything are one step.
A sleep is an interleaving point and has no length, so a receipt may time out
whenever it is not there. A node answers with any head up to `Lag` blocks old. A
nonce that leaves a gap may be refused or queued, as nodes do either. With
`ContractChecks` the contract rejects an epoch that is no successor of the
current one; without it the contract takes anything, so that what holds is due
to the generator alone.

Faults, each counted against `MaxFaults`: `rpc`, a call fails and nothing
happened; `lost`, the node took the transaction and the answer is lost;
`revert`, a transaction fails on chain for another reason than its epoch;
`drop`, the node forgets a pending transaction; `crash`, the process ends. A
stale head, a late receipt and a slow or stuck transaction are not faults: they
happen at any time.

### Properties

| Property | Says |
|---|---|
| `Contiguous` | accepted epochs continue one another: no block is skipped or announced twice |
| `LedgerSpec` | every step is a step of `EpochLedger`, or changes neither head nor ledger |
| `Aligned` | why: once the contract has an epoch, a nonce announces one fixed epoch, and the process never holds a nonce and an epoch that disagree, unless the nonce is already consumed and will be refused; until then one candidate at most is on its way (`FirstAlone`) |
| `SentSettled`, `SettledInv` | every epoch sent has the configured size and is `head_offset` behind the head; the second is the inductive form |
| `BoundedDrift` | the process is never more epochs ahead of the contract than lie between two receipts |
| `NoResubmission` | no transaction handed to the node announces blocks the contract already has |
| `NonceGapFree` | pending nonces have no holes, unless the node drops a transaction |
| `CatchUp` | in the end the contract is at most the blind transactions behind the source chain |

### Shutdown

The handler runs in the middle of whatever the process does, sets
`_shutdown_initiated` and raises. Where an `except` clause stands around the
call, at lines 320 and 441 and in the attempts of the first epoch, the exception
is taken for a failed call: `SignalCaught` is the step that fails, with
everything its failure entails, or a step that changes nothing where the clause
just waits and goes on, or where tenacity catches the exception around
`_fetch_epoch_from_contract` (line 89) and asks again. Elsewhere the process ends
and pm2 starts it again (`SignalEnds`). The flag ignores all later signals of the same process.

`epoch_catch_up` checks the generator with signals, so that `BoundedDrift`,
`NoResubmission` and `CatchUp` hold with a signal at any moment. `ShutsDown`, the
promise of the diagram, is violated: see section 9.

## 4. TxnGuard and ConsensusTasks

`TxnGuard` has the semaphore's value and the writer lock's owner and depth, and
one operator for each thing the decorator does. aiorwlock lets the task that
owns the writer lock acquire it again, so a retry after an exception goes through
and leaves it deeper. Who is served first among waiting tasks is left open.

`ConsensusTasks` runs one batch of tasks through
`_call_force_complete_consensus`: `Start`, `AcquireSemaphore`, `AcquireLock`,
`Build` (the nonce is read), `Sent` or `NotSent` (the answer of the node, the
increment, the retry), `AfterSend` (one task in a hundred waits), `Receipt`,
then `Reset` or `ResetFails`. The `except` clause and the failed receipt both end
in one reset: `json.dumps(receipt)` raises for a receipt, so the reset at line
225 is not reached, only the one at line 244. `time.sleep(30)` in `_reset_nonce`
blocks the whole event loop; the model lets others run meanwhile, which includes
what can really happen. The answer of `get_transaction_count` and the assignment
are one step: while the task awaits the answer it owns the lock, so nobody reads
the nonce in between. `About` says what a task's transaction is about, and tasks
may be about the same (section 5). Unlike the generator's, the node of this
account never forgets a pending transaction: there is no `drop` among the faults,
so that `NoHole`, `ReceiptComes` and what rests on them hold as long as it does not.

| Property | Says |
|---|---|
| `OneAtATime` | a task that builds, sends or resets owns the writer lock |
| `SendsSharedNonce` | a transaction on its way carries the nonce that is still the shared one, although its task awaits the node |
| `NoHole` | every nonce below the shared one is mined or pending (`NoGap`), and the pending nonces are the next ones of the account (`PoolWhole`) |
| `NonceIsNext` | until a fault the shared nonce is the next free one |
| `ReceiptComes` | a task that sent waits for what comes: its transaction is still pending or has its receipt, whatever others send and reset |
| `WindsDown` | every step of a task is one less of the steps it can still take (`StepsLeft`), whatever fails and however often, and no other task's step adds to them |
| `SomeoneReady` | there is no deadlock until a fault, also with fewer permits than tasks: while a task is not over, some task has what it waits for, or a block may be mined |
| `QuietReleases` | until a fault, a task that is over holds nothing |
| `OverReleases` | the same at any time: violated, see section 9 |

## 5. EventDetector

The anchor chain is a sequence of blocks with at most one event each: a release,
a submission while the epoch's window is open, a finalization of what was
submitted. The process is `pc` with `last`, `current`, and the three sets of the
class; redis is `checkpoint`.

| Code | Actions |
|---|---|
| `setup` | `Setup` |
| `run`, the head, the redis read, the jump, no new blocks | `Poll` |
| `get_events` and the assignment of `_last_processed_block` | `Handle`, `FetchFails` |
| `_force_complete_consensus` up to the gather | `ForceDue` |
| the write to redis | `Save` |
| the rest of `_force_complete_consensus` | `EndBatch` |
| pm2 | `Exit` inside `Poll` and `Save` (redis calls are outside of any `try`), and `Crash` |

`Handle` is one step because nothing awaits between the answer of `get_logs` and
the assignment. `ensure_future` schedules the batch for when `run` next awaits,
which is the write to redis, so `ForceDue` stands between `Handle` and `Save`. A
batch then runs as long as its transactions do, while the loop goes on, and ends
in any order. The order in which a Python set is iterated decides which epoch is
the last of its batch; it is left open. `_pending_epochs` has a release with the
time it was read, so that an epoch whose release is handled again is pending
twice, and a batch has one set of tasks for each entry. A node that is behind answers with an
older head (`HeadLag`) or with fewer logs and no error (`LogLag`). An empty
range may be refused or answered with no logs. What the transactions of a batch
do is in `ForceConsensus`.

`picked` and `missed` are history variables: the epochs ever taken out of
`_pending_epochs`, and whether blocks were passed over or gone back to. The
latter happens by design of the code when the process is more than
`max_block_buffer` blocks behind, when it has no block to start from, and when a
node that answers is behind. Properties of the memory are stated until then, so
that one run can have lags, gaps and restarts and still say what holds without.

| Property | Says |
|---|---|
| `MemoryExact` | until a block is missed, what is remembered of a pending epoch is what the chain says up to the last block |
| `ForcesOpen` | a batch forces epochs whose window is over on chain and, until a block is missed, exactly their open projects |
| `NoEpochLost` | an epoch the checkpoint covers is pending or was forced: violated by a restart, see section 9 |
| `SteadyKeeps` | the same until a fault or a missed block; exactly `max_block_buffer` blocks behind is not missed |
| `EveryEpochForced` | pending epochs whose window is over are all dealt with, if there is a block left to handle, although nodes lag and no batch need ever end |

### ForceConsensus

`ForceConsensus` puts the tasks into the batches. `ForceDue` makes the tasks of a
new batch runnable (`Running`), `EndOfBatch` waits until all of them are over
(`Gathered`) and cleans up, and in between the tasks of all batches take their
steps with one nonce, semaphore, lock and account, interleaved with the loop. A
process that ends drops its tasks, the semaphore and the lock (`Forget`,
`NewGuard`), while its pending transactions stay at the node; the next one reads
its nonce in `Setup`.

A task belongs to an entry (`Entries`), the time a release was read and its epoch,
and is about the epoch and a project (`Targets`). When a node that is behind answers
with a head below the last block, `run` takes up there and handles blocks again,
releases among them: their epochs are pending again with a new time, and their
projects are forced by the tasks of either entry, in one batch or in two. The
history variable `rewound` says that this has happened, and `Disturbed` that it
has, or that the detector failed or restarted. The model has all of it at any lag;
the properties say what holds until then and what holds regardless.

| Property | Says |
|---|---|
| `KeepsPromise` | every step is one of `ForceLedger`: at most one transaction more, as the next nonce, for a project that may be forced by then; not twice until the detector is `Disturbed` |
| `ForcedOnce` | until the detector is `Disturbed`, a project of an epoch has one transaction, whatever becomes of tasks and their calls, and although blocks are missed |
| `NonceKept` | exclusion, and no hole in the nonces, neither below the shared one nor among what is pending, across all batches and restarts |
| `EveryProjectForced` | a project open when its epoch's window is over gets its transaction, or is finalized before that, or something fails, or the detector goes back |

## 6. RpcHelper

One behaviour has several calls, of any kind, on one RpcHelper. `pc` is where a
call waits; the shared state is which nodes are loaded, whether the scripts'
names are known, which nodes have a client, and `_initialized`.

| Code | Actions |
|---|---|
| start of every method; `init` up to its first await | `Begin` |
| `init` and what it calls | `LoadScripts`, `CreateClient`, `FinishInit` |
| `get_current_node` | `GetCurrentNode` |
| `check_rpc_rate_limit`, one limit at a time | `CheckLimit`, `LimiterFails` |
| the query, and its record in redis | `Answered`, `QueryFails` |
| tenacity, `_on_node_exception` | `Raise` inside of them |
| redis | `WindowOver`, `RedisRestarts` |

What differs between the methods is `kind`: `get_current_block` ("head") is never
repeated and asks node 0 only; `get_transaction_receipt` runs `init` only if
there are no nodes; a failing limiter makes `_async_web3_call` try the next node
and ends all others; `get_events_logs` counts as many calls as it asks blocks
(`Spans`). The batch calls are `_make_rpc_jsonrpc_call` after the initialisation;
an answer of `null`, or a list with one, raises a TypeError outside of its `try`
(`rpc.py:501`), and ends the call instead of going to the next node.

In `RateLimiter` a counter is created by its first increment and gets a time to
live then. `admitted` is a history variable: what each limit let through since
its counter was created. Nodes whose urls end alike share their counters. A
refused call has been counted, on every limit up to the one that refused it. A
call longer than a limit is therefore refused for ever.

| Property | Says |
|---|---|
| `ReadyToCall` | however calls that run `init` interleave or fail, a call that goes on to its node has the nodes, the scripts' names and a client; only a receipt may lack them |
| `WithinLimits` | in no window more is let through than the limit, over all calls, attempts and nodes that share it |
| `CountersExpire` | every counter has a time to live, also when its first call counts for several |
| `FailsOver` | every call is one of `NodeFailover`: no node again before all were asked, and no giving up before that |
| `WindsDown` | each step of a call is one less of those it can still take (`StepsLeft`), however often nodes and redis fail, and no step of another call or of redis adds to them |
| `CallsEnd` | every call comes to an end: with `WindsDown`, it is never kept from its next step |

Two consequences of the code that the model has and no property forbids: after
`get_current_node` and before any other call, a receipt fails on every node, for
want of a client; and after a restart of redis every call fails in the limiter,
as the scripts' names are kept for the life of the process ("needs to be run only
once", `utils/rate_limiter.py:53`).

## 7. ConstructRPC

One call after the other. `Round` is the test at the top of the loop, `Ask` one
request, with everything its answer leads to; `retry` counts the requests per
url. `BailException` ends `rpc_eth_blocknumber`; `auto_retry` repeats
`rpc_eth_getblock_by_number` and at the end raises a name that is unbound by
then, which is the end named "unbound".

| Property | Says |
|---|---|
| `GivesUpExhausted` | without an answer a call gives up only when every url was asked `RETRY_LIMIT` times, in the last try |
| `InTurn` | no url is ahead of another by more than one request, nor an earlier one behind a later one |
| `WindsDown` | every round and every request is one less of those that are left (`StepsLeft`), also when the counts start again with the next try |
| `CallEnds` | the counts reach the limit together, so that the loop, which tests for equality, ends |

The urls are distinct. A url listed twice shares its count: with an odd
`RETRY_LIMIT` it steps over the limit and the loop does not end while the nodes
fail. An error in place of a result counts as an answer and ends the call, with
healthy nodes left unasked; `GivesUpExhausted` is about silence only.

## 8. Runs

| Run | Question | Instance |
|---|---|---|
| `epoch_catch_up` | how far may it be ahead, does it resend what is released, does the contract follow the source chain? | fair, checking contract, empty at first, start block from the settings, signals, all faults, two of them |
| `epoch_from_head` | does the generator alone keep the order, and nonces and epochs together, when the first epoch starts at whatever the head is? | contract that takes anything, empty at first, no start block, all faults but `revert`, three of them |
| `epoch_first` | the first epoch at its timestamp; do resets and recoveries leave holes in the nonces? | empty contract, start timestamp, a head that goes back, all faults but `drop`, two of them, three attempts |
| `epoch_shutdown` | does a signal end the process? | violation, fair, one fault |
| `tasks` | do permits, lock and nonce work, before and after a call fails? | four tasks, three permits, two attempts, two faults |
| `tasks_held` | what does an exception leave behind? | violation, two tasks, one fault |
| `detector` | are memory, checkpoint and batches right, is every epoch dealt with? | fair, two epochs, five blocks, lagging heads and logs, gaps, one fault |
| `detector_forgets` | does a restart lose epochs? | violation, one epoch |
| `force_consensus` | do overlapping batches, across a restart, force only what they may and keep the nonce whole? | two epochs, one project, five blocks, two permits, two attempts, a restart and a failing task |
| `force_lagging` | is every open project forced, and none twice, although heads lag and blocks are missed? | fair, one epoch, two projects, four blocks, lagging heads, a buffer of two, two permits, two attempts, a lost answer |
| `rpc_helper` | set-up, limits, failover, end of every call | fair, two calls, two nodes with one name, three attempts, two limits, two faults |
| `construct_rpc` | turns, exhaustion, end of the loop | fair, three nodes, limit three, three tries |

Bounds. Epochs have two blocks with an offset of one, and the head grows by five
to eleven blocks, which makes three to five epochs, full chunks and partial
ones, and two or three between receipts (`CheckEvery` of two or three instead of ten): a blind
transaction, one with a receipt, and one after a recovery are pending at once.
Two or three faults are enough for an error, a second one during its recovery, and a
restart after it. `RetryLimit` two or three covers a first, a middle and a last
attempt. `Lag` one makes the head go back by a block. Four tasks and
three permits make tasks wait for a permit, for the lock, and in the guarded
code at once. Two faults are enough for long histories there: a lost answer or a
reset brings refusals, which are not counted, and these bring more resets.
`SYMMETRY` is used there: the tasks are interchangeable, every property is
symmetric in them, and beside invariants only an action property is checked.

For the detector, two epochs and five blocks (the first is empty) are enough for
a release and a submission of each, and for both to be forced in one batch or in
two; `Buffer` three in `detector` makes the process exactly that far behind, and
farther. One project suffices there: projects of an epoch do not interact before
their tasks. In `force_consensus` the batches of both epochs overlap, so that two
tasks contend for the nonce, one of them after a restart; more tasks are in
`tasks`. In `force_lagging` the two projects of one epoch do, the head goes back by
a block, which is enough to handle a release twice, and `Buffer` two makes the
process jump over blocks.

In `rpc_helper` three attempts on two nodes wrap around the list. The limits are
five and three, with calls that count one or two: the second limit refuses what
the first let through, and both are reached within the attempts of two calls. Two
faults are a failure on each node, or one in the middle of `init` while the other
call waits for it.

Deadlock is not checked in the two `Tasks` configurations and in `RpcHelper`,
where every task or call ends. The generator and the detector never stop
(polling is a step) and a call of ConstructRPC may always be followed by another:
their runs check deadlock.

Fairness. The event loop and pm2 run a process whenever it can go on (`CatchUp`,
`EveryEpochForced`, `EveryProjectForced`, `CallsEnd`, `CallEnds`, `ShutsDown`);
crashes are not part of what is fair. For `CatchUp` the source chain grows and the
anchor chain mines transactions with the high gas price. For `EveryEpochForced`
the detector's head node may lag, but not at every call (strong fairness of
`PollNewest`, in `ForceConsensus` of the step of the service that does it). For
`EveryProjectForced` every task goes on while it can, and a
batch ends when its tasks are over; nothing is assumed about mining. Nothing is
assumed about transactions at the default price, about a batch of the detector
ever ending in `detector` (section 9 says why it may not), and about faults
ending other than by their bound.

## 9. Findings

* `epoch_shutdown`. `docs/diagrams/epoch_generator.puml:43` has the process shut
  down when it receives a signal. The exception of the handler is caught by the
  clauses that handle failed calls, the process goes on, and no later signal has
  any effect.
* `tasks_held`. When the decorated function raises, the decorator gives back
  neither the permit nor the writer lock, whatever its comment and
  `docs/diagrams/txn_task.puml` say. A task that failed once and then succeeded
  on its retry ends as owner of the lock, and no other task gets it again.
* `detector_forgets`. The checkpoint moves past an epoch's release at once, the
  epoch itself waits in memory for its window. A restart in between forgets it,
  and no later run looks at it again, contrary to `README.md:22`.

Seen while modelling, without a run: if the first epoch's receipt is late, the
retry sends the same epoch with the next nonce, the contract rejects the copies,
and `run` ends with "Unable to release first epoch on time" although the epoch is
released; this is why the theorems about order exclude that path (section 10). When
the head that a node answers is below the last block (`force_consensus.py:325`
only tests for equality), releases are handled again and their epochs are pending
twice: a project is then forced twice without any failing call, or, if the second
entry's turn comes after the first one's clean-up, what the second batch forces
depends on what was submitted since. The clean-up of a batch stands after the loop over its epochs and uses
the loop variable, so that only the last epoch's sets are deleted, unlike in
`docs/diagrams/force_consensus.puml:49`. A failing limiter logs "Bypassing rate
limit check" (`utils/rate_limiter.py:126`) and raises all the same.

## 10. Proofs

All proof modules are checked to the last leaf; no step is left out. An
assumption that a theorem needs beyond the types of the constants is stated with
it.

**EpochGeneratorProofs.** `TypeCorrect`, `AnnouncedSettled` and `SettledInvHolds`
hold under every fault and for every value of the constants. That what is pending
and accepted is settled is not inductive by itself, as it depends on the epoch
about to be sent. `Shape` adds, for each place in the code, how the epoch at hand
relates to the end of its chunking and to the head. The head only grows, so what
was settled stays so.

`NoncesAligned`, `ExactlyOnceInOrder`, `ImplementsLedger`, `NeverResubmits` and
`DriftIsBounded` are about the generator by itself, whatever the contract takes.
That the accepted epochs are contiguous says nothing of pending transactions, nor
of a nonce and an epoch read at different times. `Aligned` is what the code really
relies on, and it has two phases. Once the contract has an epoch, the nonces fix
the epochs: nonce n announces the epoch at `Position(n)`. If the process holds a
nonce and an epoch that differ, it read the nonce before the epoch, so the nonce
is too small and already consumed, and the node refuses it. Before that nothing
tells two processes the same epoch: the first one may announce what lies at one
head and, after a restart, the next one what lies at a later head. `FirstAlone`
says why that does no harm. The release counter starts at 0, and every error
forces a receipt, so that no send is blind before a receipt was seen; no process
uses a nonce beyond the mined count, so that one transaction at most is pending,
and a second candidate replaces it or is refused; and a process that does not wait
for the pending one holds a nonce that is consumed when it is mined. Whatever is
mined first then is `FirstBlock`, and `FirstInLine` is the step from one phase to
the other. The rest of the proof goes through the two recoveries, where a nonce and
an epoch that differ arise, and through every send, where they are used.

The refinement follows: an accepted epoch is the one at `Position`, and it is
settled by `SentSettled`. So does `NeverResubmits`: what is pending has a nonce
that is not mined, and so a position beyond the contract's epoch. For
`DriftIsBounded` the release counter is the measure (`Blind`): a receipt shows that
the contract has the epoch, and each blind transaction after it moves the counter
on by one.

What they assume is needed; each time TLC finds a counterexample without it, in
the instances of section 8 changed accordingly.

* Transactions do not fail on chain (`"revert" \notin FaultKinds`). A reverted
  transaction consumes a nonce, and before a contract that takes anything the blind
  transactions behind it are accepted without its epoch: `Contiguous` fails.
* The process does not wait for a release time with an empty contract
  (`NoFirstRelease`: there is an epoch in the contract, or a start block in the
  settings, or no `epoch_release_start_timestamp`). This is not more than the path
  `_wait_and_release_first_epoch`. There a receipt that is late makes
  `_reset_nonce` go on to the next nonce while the epoch stays the same, so that an
  epoch is sent again that the contract has: `NoResubmission` fails, and before a
  contract that takes anything `Contiguous` and `LedgerSpec` do as well.
* For `DriftIsBounded`, the contract or the settings say where the first epoch
  begins (`BaseEnd > 0 \/ TickerBegin > 0`). Otherwise a process that restarts while
  the first transaction is on its way sets out from a later head than the contract
  then has: `BoundedDrift` fails until its own send is refused and it asks the
  contract.

`NoncesLeaveNoGap` needs none of these, only that the node drops nothing. `GapInv` adds
to `NonceGapFree` that the nonce about to be sent has everything below it pending
or mined: resets and recoveries go back to the mined count, a receipt shows the
nonce mined, and the nonce is counted only when the node has the transaction.

**EpochRejectionProofs.** The same promises before a contract that rejects what is
no successor, where transactions may be reverted as well. A rejected transaction
uses up a nonce without an epoch, so alignment is lost, but only in one
direction, and what is left is inductive: `NotBehind`. A nonce the process holds
is used up, or the epoch at hand is at least as many epochs after the contract's
as the nonce is nonces after the mined ones (`Ahead`). A block takes away one of
the nonces and at most one of the epochs, a send adds one to both, and a recovery
reads the nonce before the epoch. So a send the node takes is beyond the
contract's epoch (`NeverResubmitsRejected`). Until the contract has an
epoch, `FirstAlone` takes the place of `NotBehind` (`BehindInv`): it survives
reverted transactions too, as whoever is alone tries again alone, and `FirstTaken` is
the step between the two. For `DriftIsBoundedRejected`, `Delivered` says why a
receipt still shows that the contract has the epoch. The assumptions about the
first epoch are those from above, for the same reasons; `ImplementsLedgerRejected`
needs only that the contract checks. There the order is the contract's doing; that
every accepted epoch has its size and is settled is the generator's. The run
`epoch_catch_up` checks an instance of these theorems.

**ShutdownProofs.** `SignalsAreFaults`: a caught signal is a step that fails, and
an uncaught one a restart, both of which `EpochGenerator` has. What is proved of
the generator therefore holds with signals at any moment, the refinement of
`EpochLedger` included.

**ConsensusTasksProofs.** `NonceInv` is inductive: types, `OneAtATime`,
`SendsSharedNonce` and `NoGap` together. Exclusion is needed so that the nonce
counted is the one that was sent, and that in turn so that the increment leaves
no hole; the depth of the lock stays a natural number only because whoever
releases it owns it. All four are proved for any number of tasks, permits and
attempts, under every fault. `PoolInv` adds that the pending nonces are an interval
that starts at the mined count, which gives `NoHole`: a task sends with the
shared nonce, and that one is in the interval or right after it, also when a reset
has taken it back to the mined count. `WhatIsSentComes` follows, as the node
replaces a pending transaction only for a higher gas price, and all tasks pay the
same. `NoTaskGoesOn` is a measure per task, `StepsLeft`, with the invariant that a
task that may still send has tries left (`TriesLeft`). `QuietInv` is what holds on
top of `NonceInv` until a fault: the pending nonces are exactly those between the mined count and the shared
nonce, so no send is refused and no task resets; the lock is taken once, by a
task in the guarded code; every permit that is missing is in one task's hand.
`SomeoneGoesOn` is the absence of deadlock: the lock's owner, if there is one, has
all it needs; without an owner whoever waits for the lock gets it; if no permit is
free, somebody between the permit and the answer has it; and who waits for a
receipt has it, unless there is a transaction to mine.

**EventDetectorProofs.** `DetectorInv` has five parts. `ChainInv`: an epoch is
released once, and before anything is submitted for it. `TypeInv` bounds the
process's blocks by the chain's. `PendingReleased`: what is remembered or in a
batch was released. `Remembered`, until a block is missed: for every epoch that is
pending the memory is what the chain says up to the last block, with one entry per epoch, and
the epochs of running batches, whose clean-up deletes memory, are not pending
again. `Kept`, until a fault or a missed block: every released epoch up to the
last block is pending or was picked, and not both. `PicksOnce` follows, that
no epoch is taken out twice; the runs check it as `ForcedOnce`, of transactions.

**ForceConsensusProofs.** `RunsDetector`: without its tasks, every step of the
service is one of the detector or a stutter, and the detector's theorems carry
over. `NonceStaysWhole` uses the lemmas of `ConsensusTasksProofs` through an
instance for the steps of tasks, and adds what that module does not have: batches
that end, and processes that end and start with a new lock while transactions are
pending. `ForcesOnce` has two halves. The detector deals with an epoch once, even
if nodes lag and it misses blocks, as long as it does not fail, restart, or go back
in the chain, which is what `rewound` records: no release is handled again, so
that an epoch has one entry, pending or in one batch (`Forward`), and two tasks
of running batches are about different projects or epochs. Without the condition
on `rewound` TLC finds a project with two transactions and no fault. And a task puts
one transaction into the pool, although it retries after answers it did not get:
`InDoubt` says that a task that was taken without knowing it still owns the lock,
which its exception did not give back, and that the shared nonce is pending or
mined. So nobody moves the nonce on meanwhile, the node refuses what the retry
sends, and the task ends in the reset. That the lock is kept, a finding in
section 9, is what keeps a lost answer from forcing a project twice. `ImplementsPromise` rests on `ForcesNothingEarly`, `ForcesOnce` and on the
order of the transactions: as the pending nonces have no hole, a send appends to
`SentInOrder` and a mined transaction stays where it was (`TakenGoesLast`,
`MinedInPlace`). `ForcesNothingEarly`: a transaction, a task and a batch only ever are
about a project that may be forced, and what may be forced stays so while the
chain and time go on.

**RpcHelperProofs.** `CallsReady`: after each place of `init` that a call has
passed, what that place sets up is there, whoever did it, and nothing takes it
away again. `LimitsHold`: what was admitted since a counter's creation is at most
its count, and admission compares the count with the limit.
`ImplementsFailover` needs at least as many attempts as nodes, as the settings'
template has; the turn of a node is its index, and the attempts left tell how
many nodes have not been asked. `NoCallGoesOn`: the attempts left, the limits left
to check in this one, and the clients left to create. Clients are created by all
calls, so their number can only go down.

**ConstructRPCProofs.** Within a round, urls before the current one have been
asked once more than those after it, so that all counts are equal when the round
is over: `InTurn` and `GivesUpExhausted` follow. The last url of the list then tells
how many rounds are over, which is the measure of `NoCallGoesOn`. The urls have to
be distinct.

## 11. Model-checked only, and not modelled

Only model-checked:

* liveness under fairness, which the prover cannot do: `CatchUp`,
  `EveryEpochForced`, `EveryProjectForced`, `CallsEnd`, `CallEnds`; for the last two
  and for the tasks, what is proved is that steps run out (`WindsDown`), and of the
  tasks that none of their waits is a deadlock until a fault (`SomeoneReady`).

Where a theorem has assumptions on the constants, section 10 says what fails without
them.

Not modelled: connection set-up, the redis pool, notifications, settings and
logging, which no other state depends on; pm2's limit on restarts within a
minute; reorganisations of the anchor chain, which the code does not handle in
any way; a url listed twice in ConstructRPC, and empty ranges in
`get_events_logs`, for which the limiter's increment is zero or negative
(`rpc.py:694`).
