--------------------------- MODULE EventDetector ---------------------------
(***************************************************************************)
(* force_consensus.py, run and what it calls: the process reads the events *)
(* of the anchor chain, block range by block range, remembers the epochs   *)
(* released, the projects submitted and the projects finalized, and, once  *)
(* the submission window of an epoch is over, forces consensus for the     *)
(* projects still open.  Redis keeps the last block handled; everything    *)
(* else is in memory only.                                                 *)
(***************************************************************************)
EXTENDS Integers, Sequences, SequencesExt, FiniteSets

CONSTANTS
  Projects,
  Window,         \* submission window plus the buffer, in ticks of the clock
  Buffer,         \* settings.anchor_chain.max_block_buffer
  HeadLag,        \* how far behind the chain the node asked for the head may be
  LogLag,         \* how far behind it the node asked for the logs may be
  FaultKinds,     \* what may go wrong
  MaxFaults,      \* bound: how often it goes wrong in one behaviour
  MaxEpoch,       \* bound: epochs released in one behaviour
  MaxBlock,       \* bound: blocks of the anchor chain
  MaxClock,       \* bound: ticks of the clock
  InitCheckpoint  \* what redis holds when the process is first started, 0 for nothing

ASSUME DetectorAssumption ==
  /\ Window \in Nat /\ Buffer \in Nat \ {0}
  /\ HeadLag \in Nat /\ LogLag \in Nat
  /\ FaultKinds \subseteq {"rpc", "redis", "crash"} /\ MaxFaults \in Nat
  /\ MaxEpoch \in Nat /\ MaxBlock \in Nat \ {0} /\ MaxClock \in Nat
  /\ InitCheckpoint \in {0, 1}

VARIABLES
  chain,       \* blocks of the anchor chain, each with one event or none
  clock,       \* time.time()
  pc,          \* where run is
  last,        \* self._last_processed_block, 0 when not set
  current,     \* current_block
  checkpoint,  \* event_detector_last_processed_block in redis, 0 for none
  pending,     \* self._pending_epochs
  submitted,   \* self._projects_submitted_for_epoch
  finalized,   \* self._finalized_epochs
  batches,     \* the _force_complete_consensus that await their transactions
  picked,      \* history: the epochs ever taken out of pending
  missed,      \* history: were blocks passed over, or gone back to?
  faults       \* how often something went wrong so far

chainVars  == <<chain, clock>>
memoryVars == <<pending, submitted, finalized, batches>>
history    == <<picked, missed>>
vars == <<chainVars, pc, last, current, checkpoint, memoryVars, history, faults>>

Epochs == 1 .. MaxEpoch
Height == Len(chain)

-----------------------------------------------------------------------------
(* What the blocks up to b say.                                            *)

NoEvent == [kind |-> "none", epoch |-> 0, project |-> 0, time |-> 0]

Logged(blocks, kind, e) ==
  {b \in blocks \cap DOMAIN chain : chain[b].kind = kind /\ chain[b].epoch = e}
ReleasedIn(blocks)     == {e \in Epochs : Logged(blocks, "released", e) # {}}
SubmittedIn(blocks, e) == {chain[b].project : b \in Logged(blocks, "submitted", e)}
FinalizedIn(blocks, e) == {chain[b].project : b \in Logged(blocks, "finalized", e)}

-----------------------------------------------------------------------------
(* The anchor chain: the contract's events, one at most in a block.  Only  *)
(* the time of a release is kept.                                          *)

ReleaseTime(e) == chain[CHOOSE b \in Logged(1 .. Height, "released", e) : TRUE].time

Event ==
  LET released == ReleasedIn(1 .. Height)
  IN  {NoEvent}
      \cup {[kind |-> "released", epoch |-> e, project |-> 0, time |-> clock] :
              e \in {Cardinality(released) + 1} \cap Epochs}
      \cup {[kind |-> "submitted", epoch |-> e, project |-> p, time |-> 0] :
              e \in {x \in released : clock <= ReleaseTime(x) + Window}, p \in Projects}
      \cup UNION {{[kind |-> "finalized", epoch |-> e, project |-> p, time |-> 0] :
              p \in SubmittedIn(1 .. Height, e) \ FinalizedIn(1 .. Height, e)} : e \in released}

NewBlock ==
  /\ Height < MaxBlock
  /\ \E ev \in Event : chain' = Append(chain, ev)
  /\ UNCHANGED <<clock, pc, last, current, checkpoint, memoryVars, history, faults>>

Tick ==
  /\ clock < MaxClock /\ clock' = clock + 1
  /\ UNCHANGED <<chain, pc, last, current, checkpoint, memoryVars, history, faults>>

-----------------------------------------------------------------------------
(* The process.                                                            *)

Fault(kind) == kind \in FaultKinds /\ faults < MaxFaults /\ faults' = faults + 1

NoProjects == [e \in Epochs |-> {}]

\* The process ends, and pm2 starts it again: the memory is lost.
Exit ==
  /\ pc' = "down" /\ last' = 0 /\ current' = 0
  /\ pending' = {} /\ batches' = <<>>
  /\ submitted' = NoProjects /\ finalized' = NoProjects

Setup ==
  /\ pc = "down" /\ pc' = "poll"
  /\ UNCHANGED <<chainVars, last, current, checkpoint, memoryVars, history, faults>>

\* Answers of get_current_block.
ObservedHeads == {h \in Height - HeadLag .. Height : h >= 1}

\* The last block handled, as memory or redis has it.
Known == IF last # 0 THEN last ELSE checkpoint

\* self._last_processed_block, from redis or next to the head when not set.
LastProcessed(h) ==
  IF last # 0 THEN last ELSE IF checkpoint # 0 THEN checkpoint ELSE h - 1

\* Mutant: the jump is one block too long.
ShortJump(h, l) == IF h - l >= Buffer THEN h - Buffer + 1 ELSE l
\* A process too far behind jumps forward.
AfterJump(h, l) == IF h - l >= Buffer THEN h - Buffer ELSE l

\* More than Buffer blocks behind, ahead of the node that answered, or without a
\* block to start from.
PassesOver(h) == h - Known > Buffer \/ h < Known \/ (Known = 0 /\ h > 1)

\* A failing get_current_block makes the loop start over; a failing redis, which
\* is asked only if there is no last block in memory, ends the process.
Poll ==
  /\ pc = "poll"
  /\ \/ \E h \in ObservedHeads :
          LET l == AfterJump(h, LastProcessed(h)) IN
          /\ last' = l
          /\ missed' = (missed \/ PassesOver(h))
          /\ IF l = h THEN UNCHANGED <<pc, current>> ELSE pc' = "fetch" /\ current' = h
          /\ UNCHANGED <<memoryVars, faults>>
     \/ last = 0 /\ Fault("redis") /\ Exit /\ UNCHANGED missed
  /\ UNCHANGED <<chainVars, checkpoint, picked>>

\* Mutant: the last block handled is asked for again.
AnsweredAgain(to) == last .. IF current <= to THEN current ELSE to
\* The blocks the node that answers has logs of.
Answered(to) == last + 1 .. IF current <= to THEN current ELSE to

\* get_events, and the assignment after it.
Handle ==
  /\ pc = "fetch"
  /\ \E to \in Height - LogLag .. Height :
       LET blocks == Answered(to) IN
       /\ pending' = pending \cup {<<clock, e>> : e \in ReleasedIn(blocks)}
       /\ submitted' = [e \in Epochs |-> submitted[e] \cup SubmittedIn(blocks, e)]
       /\ finalized' = [e \in Epochs |-> finalized[e] \cup FinalizedIn(blocks, e)]
       /\ missed' = (missed \/ to < current)
  /\ last' = current /\ pc' = "force"
  /\ UNCHANGED <<chainVars, current, checkpoint, batches, picked, faults>>

\* get_events raises: the range is refused, as it is empty, or a call fails.
FetchFails ==
  /\ pc = "fetch" /\ pc' = "poll"
  /\ \/ last >= current /\ UNCHANGED faults
     \/ Fault("rpc")
  /\ UNCHANGED <<chainVars, last, current, checkpoint, memoryVars, history>>

\* Mutant: an epoch that is not looked at in time is passed over.
ExpiredNow(t) == t + Window + 1 = clock
\* Mutant: the window's last moment is left out.
ExpiredEarly(t) == t + Window <= clock
Expired(t) == t + Window < clock

Due == {x \in pending : Expired(x[1])}
DueEpochs == {x[2] : x \in Due}

\* Mutant: projects finalized meanwhile are forced, too.
AllSubmitted(e) == submitted[e]
Open(e) == submitted[e] \ finalized[e]

(***************************************************************************)
(* _force_complete_consensus up to the gather.  ensure_future schedules    *)
(* it, and it runs when run next awaits, which is the write to redis.  The *)
(* set is iterated in some order, and what is last is used after the loop. *)
(* An epoch that was released twice, as the process sees it, is forced for *)
(* each of the two entries.                                                *)
(***************************************************************************)
ForceDue ==
  /\ pc = "force" /\ pc' = "save"
  /\ pending' = pending \ Due
  /\ picked' = picked \cup DueEpochs
  /\ IF Due = {}
     THEN UNCHANGED batches
     ELSE \E e \in DueEpochs :
            batches' = Append(batches,
              [forces |-> [x \in Due |-> Open(x[2])], last |-> e])
  /\ UNCHANGED <<chainVars, last, current, checkpoint, submitted, finalized, missed,
                 faults>>

\* Mutant: the block after the last one is saved.
SaveNext == last + 1
SaveLast == last

Save ==
  /\ pc = "save"
  /\ \/ /\ checkpoint' = SaveLast /\ pc' = "poll"
        /\ UNCHANGED <<last, current, memoryVars, faults>>
     \/ Fault("redis") /\ Exit /\ UNCHANGED checkpoint
  /\ UNCHANGED <<chainVars, history>>

\* Mutant: the clean-up clears every epoch.
CleanUpAll(i) == submitted' = NoProjects /\ finalized' = NoProjects
\* After the gather the sets of one epoch of the batch are deleted.
CleanUp(i) ==
  /\ submitted' = [submitted EXCEPT ![batches[i].last] = {}]
  /\ finalized' = [finalized EXCEPT ![batches[i].last] = {}]

\* Every transaction of a batch is over.
EndBatchAt(i) ==
  /\ batches' = RemoveAt(batches, i) /\ CleanUp(i)
  /\ UNCHANGED <<chainVars, pc, last, current, checkpoint, pending, history, faults>>

EndBatch == \E i \in DOMAIN batches : EndBatchAt(i)

Crash ==
  /\ pc # "down" /\ Fault("crash") /\ Exit
  /\ UNCHANGED <<chainVars, checkpoint, history>>

Init ==
  /\ chain = <<NoEvent>>
  /\ clock = 0 /\ pc = "down" /\ last = 0 /\ current = 0
  /\ checkpoint = InitCheckpoint
  /\ pending = {} /\ submitted = NoProjects /\ finalized = NoProjects
  /\ batches = <<>> /\ picked = {} /\ missed = FALSE /\ faults = 0

Run == Setup \/ Poll \/ Handle \/ FetchFails \/ ForceDue \/ Save

Next == Run \/ EndBatch \/ Crash \/ NewBlock \/ Tick

Spec == Init /\ [][Next]_vars

\* The event loop runs the process, and the node asked for the head does not
\* lag at every call; a batch may take for ever.
PollNewest == Poll /\ pc' = "fetch" /\ current' = Height
FairSpec == Spec /\ WF_vars(Run) /\ SF_vars(PollNewest)

-----------------------------------------------------------------------------
(* Properties.                                                             *)

Locations == {"down", "poll", "fetch", "force", "save"}

\* Types: no block number turns negative, and redis never holds a block that
\* is not handled.
TypeOK ==
  /\ pc \in Locations
  /\ last \in Nat /\ current \in Nat
  /\ checkpoint \in 0 .. Height
  /\ pending \subseteq (0 .. clock) \X Epochs
  /\ submitted \in [Epochs -> SUBSET Projects]
  /\ finalized \in [Epochs -> SUBSET Projects]
  /\ \A i \in DOMAIN batches : \E x \in DOMAIN batches[i].forces : batches[i].last = x[2]
  /\ picked \subseteq Epochs /\ missed \in BOOLEAN

PendingEpochs == {x[2] : x \in pending}

(***************************************************************************)
(* What the process remembers of a pending epoch is what the chain says up *)
(* to the last block handled, however often the process was restarted, and *)
(* whatever batches were cleaned up meanwhile, as long as it was never too *)
(* far behind, and no node that answered was.                              *)
(***************************************************************************)
MemoryExact ==
  ~missed =>
    \A e \in PendingEpochs :
      /\ submitted[e] = SubmittedIn(1 .. last, e)
      /\ finalized[e] = FinalizedIn(1 .. last, e)

\* An epoch the checkpoint covers is pending, or its projects were forced.
NoEpochLost ==
  \A e \in ReleasedIn(1 .. checkpoint) : e \in PendingEpochs \cup picked

\* The same for a process that was never restarted and never more than Buffer
\* blocks behind: exactly Buffer blocks behind it still handles every block.
SteadyKeeps == faults = 0 /\ ~missed => NoEpochLost

\* While the heads it sees do not go back and nothing fails, the process forces
\* the projects of an epoch once.
PickedOnce ==
  [][pc = "force" /\ pc' = "save" /\ faults = 0 /\ ~missed
       => DueEpochs \cap picked = {}]_vars

\* A new batch forces the projects that were submitted and not finalized by the
\* last block handled, all of them and no others, of epochs whose window is over
\* on the anchor chain.
ForcesOpen ==
  [][Len(batches') > Len(batches) =>
       LET forces == batches'[Len(batches')].forces IN
       \A x \in DOMAIN forces :
         /\ clock > ReleaseTime(x[2]) + Window
         /\ ~missed =>
              forces[x] = SubmittedIn(1 .. last, x[2]) \ FinalizedIn(1 .. last, x[2])]_vars

Overdue == {x \in pending : x[1] + Window < clock}

\* The pending epochs whose window is over are dealt with, if a block is left to
\* handle, although the node may lag and batches may never end.
EveryEpochForced == Overdue # {} /\ last < Height ~> Overdue = {}
=============================================================================
