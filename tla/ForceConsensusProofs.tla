------------------------ MODULE ForceConsensusProofs ------------------------
(***************************************************************************)
(* What ForceConsensus guarantees for every value of its constants.        *)
(***************************************************************************)
EXTENDS ForceConsensus, EventDetectorProofs

-----------------------------------------------------------------------------
(* The detector in the service.                                            *)

\* The service moves the detector.
LEMMA DetectorMoves ==
  ASSUME [ForceNext]_allVars
  PROVE  [Next]_vars
<1>1. CASE DetectorStep \/ ServiceCrash
  BY <1>1 DEF DetectorStep, ServiceCrash, Next
<1>2. CASE EndOfBatch
  BY <1>2 DEF EndOfBatch, EndBatch, Next
<1>3. CASE Chain
  BY <1>3 DEF Chain, Next, detectorVars
<1>4. CASE \E t \in Tasks : TaskStep(t)
  BY <1>4 DEF TaskStep, detectorVars
<1>5. CASE UNCHANGED allVars
  BY <1>5 DEF allVars, detectorVars
<1>6. QED
  BY <1>1, <1>2, <1>3, <1>4, <1>5 DEF ForceNext

\* Whatever its tasks do, the service moves the detector as EventDetector says.
THEOREM RunsDetector == ForceSpec => Spec
<1>1. ForceInit => Init
  BY DEF ForceInit
<1>2. [ForceNext]_allVars => [Next]_vars
  BY DetectorMoves
<1>3. QED
  BY <1>1, <1>2, PTL DEF ForceSpec, Spec

\* So what holds of the detector holds of the service, whatever becomes of the
\* tasks: its memory is exact, ...
THEOREM ServiceRemembersAll == ForceSpec => []MemoryExact
BY RunsDetector, RemembersAll

\* ... and its batches force what is open, after the window.
THEOREM ServiceForcesWhatIsOpen == ForceSpec => ForcesOpen
BY RunsDetector, ForcesWhatIsOpen

-----------------------------------------------------------------------------
(* The nonce in the service.  NonceInv of ConsensusTasks is kept by every  *)
(* step of a task; what is left are the steps it does not know: batches    *)
(* that end, and processes that end and start.                             *)

TP == INSTANCE ConsensusTasksProofs WITH
  pc <- taskPc, faults <- taskFaults,
  FaultKinds <- TaskFaultKinds, MaxFaults <- MaxTaskFaults

\* A process that is down has no tasks.
DownIsQuiet ==
  pc = "down" => batches = <<>> /\ \A t \in Tasks : taskPc[t] = "new"

ServiceInv == TP!NonceInv /\ DownIsQuiet

\* What a task is about.
LEMMA AboutFact ==
  /\ \A t \in Tasks : About[t] = <<t[1][2], t[2]>> /\ About[t] \in Targets
  /\ TP!Range(About) \subseteq Targets /\ About \in [Tasks -> TP!Range(About)]
<1>1. About = [t \in Tasks |-> <<t[1][2], t[2]>>]
  BY DEF About
<1>2. ASSUME NEW t \in Tasks PROVE t[1][2] \in Epochs /\ t[2] \in Projects
  <2>1. t[1] \in Entries /\ t[2] \in Projects
    BY DEF Tasks
  <2>2. QED
    BY <2>1 DEF Entries
<1>3. \A t \in Tasks : About[t] = <<t[1][2], t[2]>> /\ About[t] \in Targets
  BY <1>1, <1>2 DEF Targets
<1>4. DOMAIN About = Tasks /\ About = [t \in Tasks |-> About[t]]
  BY <1>1
<1>5. \A t \in Tasks : About[t] \in TP!Range(About)
  BY <1>4 DEF TP!Range
<1>6. TP!Range(About) \subseteq Targets
  BY <1>3, <1>4 DEF TP!Range
<1>7. QED
  BY <1>3, <1>4, <1>5, <1>6

LEMMA TaskAssumptions == TP!GuardAssumption /\ TP!TasksAssumption
BY ForceAssumption, AboutFact DEF TP!GuardAssumption, TP!TasksAssumption

\* The steps of a task are those of ConsensusTasks.
LEMMA SameSteps ==
  /\ \A t \in Tasks : T!Step(t) => TP!Step(t)
  /\ T!MineNext => TP!MineNext
<1>1. ASSUME NEW t \in Tasks, T!Step(t) PROVE TP!Step(t)
  BY <1>1
     DEF T!Step, T!Start, T!AcquireSemaphore, T!AcquireLock, T!Build, T!Sent, T!NotSent,
         T!AfterSend, T!Receipt, T!Reset, T!ResetFails, T!Goto, T!TakePermit, T!TakeLock,
         T!Leave, T!LeaveByException, T!SendFails, T!Fault, T!Refusals, T!Acceptable,
         T!TooLow, T!TooHigh, T!AlreadyKnown, T!Underpriced, T!Submit, T!HasReceipt,
         T!ReceiptOk, T!ReceiptFailed, T!NonceFromChain, T!TransactionCount, T!Transaction,
         T!guardVars, T!accountVars,
         TP!Step, TP!Start, TP!AcquireSemaphore, TP!AcquireLock, TP!Build, TP!Sent, TP!NotSent,
         TP!AfterSend, TP!Receipt, TP!Reset, TP!ResetFails, TP!Goto, TP!TakePermit, TP!TakeLock,
         TP!Leave, TP!LeaveByException, TP!SendFails, TP!Fault, TP!Refusals, TP!Acceptable,
         TP!TooLow, TP!TooHigh, TP!AlreadyKnown, TP!Underpriced, TP!Submit, TP!HasReceipt,
         TP!ReceiptOk, TP!ReceiptFailed, TP!NonceFromChain, TP!TransactionCount, TP!Transaction,
         TP!guardVars, TP!accountVars
<1>2. T!MineNext => TP!MineNext
  BY DEF T!MineNext, T!Mine, T!Minable, T!NextTx, T!Fault, T!TransactionCount, T!taskVars,
         T!guardVars, T!Restrict,
         TP!MineNext, TP!Mine, TP!Minable, TP!NextTx, TP!Fault, TP!TransactionCount,
         TP!taskVars, TP!guardVars, TP!Restrict
<1>3. QED
  BY <1>1, <1>2

\* Tasks that have not started, and a lock that is free, keep the invariant.
LEMMA AllNew ==
  ASSUME TP!NonceInv, Forget(Tasks), NewGuard, UNCHANGED <<nonce, accountVars, taskFaults>>
  PROVE  TP!NonceInv' /\ \A t \in Tasks : taskPc'[t] = "new"
<1>1. /\ taskPc' = [t \in Tasks |-> "new"] /\ failures' = [t \in Tasks |-> 0]
      /\ used' = [t \in Tasks |-> -1]
  BY DEF Forget
<1>2. TP!TasksOK'
  BY <1>1 DEF TP!TasksOK, TP!Locations
<1>3. TP!SharedOK'
  BY ForceAssumption DEF NewGuard, TP!NonceInv, TP!TypeOK, TP!SharedOK, TP!Tx, accountVars
<1>4. TP!OneAtATime' /\ TP!SendsSharedNonce'
  BY <1>1 DEF TP!OneAtATime, TP!SendsSharedNonce
<1>5. TP!NoGap'
  BY DEF TP!NonceInv, TP!NoGap, TP!TransactionCount, accountVars
<1>6. QED
  BY <1>1, <1>2, <1>3, <1>4, <1>5 DEF TP!NonceInv, TP!TypeOK

\* A batch that ends drops tasks that are over.
LEMMA BatchOver ==
  ASSUME TP!NonceInv, NEW S \in SUBSET Tasks, \A t \in S : T!Over(t), Forget(S),
         UNCHANGED <<nonce, guardVars, accountVars, taskFaults>>
  PROVE  TP!NonceInv'
<1>1. /\ taskPc' = [t \in Tasks |-> IF t \in S THEN "new" ELSE taskPc[t]]
      /\ failures' = [t \in Tasks |-> IF t \in S THEN 0 ELSE failures[t]]
      /\ used' = [t \in Tasks |-> IF t \in S THEN -1 ELSE used[t]]
  BY DEF Forget
<1>2. TP!TasksOK'
  BY <1>1 DEF TP!NonceInv, TP!TypeOK, TP!TasksOK, TP!Locations
<1>3. TP!SharedOK'
  BY DEF TP!NonceInv, TP!TypeOK, TP!SharedOK, TP!Tx, accountVars, guardVars
<1>4. TP!OneAtATime' /\ TP!SendsSharedNonce'
  BY <1>1 DEF TP!NonceInv, TP!OneAtATime, TP!SendsSharedNonce, guardVars
<1>5. TP!NoGap'
  BY DEF TP!NonceInv, TP!NoGap, TP!TransactionCount, accountVars
<1>6. QED
  BY <1>2, <1>3, <1>4, <1>5 DEF TP!NonceInv, TP!TypeOK

LEMMA ServiceInit == ForceInit => ServiceInv
<1> SUFFICES ASSUME ForceInit PROVE ServiceInv
  OBVIOUS
<1>1. TP!Init
  BY DEF ForceInit, T!Init, T!AccountInit, T!GuardInit, T!TransactionCount,
         TP!Init, TP!AccountInit, TP!GuardInit, TP!TransactionCount
<1>2. TP!NonceInv
  BY <1>1, TaskAssumptions, TP!NonceInvInit
<1>3. DownIsQuiet
  BY DEF ForceInit, Init, T!Init, DownIsQuiet
<1>4. QED
  BY <1>2, <1>3 DEF ServiceInv

LEMMA ServiceStep == ServiceInv /\ [ForceNext]_allVars => ServiceInv'
<1> SUFFICES ASSUME ServiceInv, [ForceNext]_allVars PROVE ServiceInv'
  OBVIOUS
<1>0. TP!NonceInv /\ DownIsQuiet
  BY DEF ServiceInv
<1>1. ASSUME UNCHANGED <<taskVars, nonce, guardVars, accountVars, taskFaults>>,
             pc' = "down" => pc = "down" /\ batches' = batches
      PROVE  ServiceInv'
  <2>1. UNCHANGED TP!vars
    BY <1>1 DEF taskVars, guardVars, accountVars,
                TP!vars, TP!taskVars, TP!guardVars, TP!accountVars
  <2>2. TP!NonceInv'
    BY <1>0, <2>1, TaskAssumptions, TP!NonceInvStep
  <2>3. DownIsQuiet'
    BY <1>0, <1>1 DEF DownIsQuiet, taskVars
  <2>4. QED
    BY <2>2, <2>3 DEF ServiceInv
<1>2. CASE DetectorStep
  <2>1. UNCHANGED <<accountVars, taskFaults>> /\ Run
    BY <1>2 DEF DetectorStep
  <2>2. CASE pc' = "down" /\ Forget(Tasks) /\ NewGuard /\ UNCHANGED nonce
    <3>1. batches' = <<>>
      <4>1. CASE pc = "down"
        BY <2>1, <2>2, <4>1 DEF Run, Setup, Poll, Handle, FetchFails, ForceDue, Save
      <4>2. CASE pc # "down"
        BY <2>1, <2>2, <4>2
           DEF Run, Setup, Poll, Handle, FetchFails, ForceDue, Save, Exit
      <4>3. QED
        BY <4>1, <4>2
    <3>2. TP!NonceInv' /\ \A t \in Tasks : taskPc'[t] = "new"
      BY <1>0, <2>1, <2>2, AllNew
    <3>3. QED
      BY <3>1, <3>2 DEF ServiceInv, DownIsQuiet
  <2>3. CASE pc = "down" /\ nonce' = T!TransactionCount /\ UNCHANGED <<taskVars, guardVars>>
    <3>1. pc' # "down"
      BY <2>1, <2>3 DEF Run, Setup, Poll, Handle, FetchFails, ForceDue, Save
    <3>2. \A t \in Tasks : taskPc[t] = "new"
      BY <1>0, <2>3 DEF DownIsQuiet
    <3>3. /\ nonce' = TP!TransactionCount /\ TP!TransactionCount' = TP!TransactionCount
          /\ TP!TransactionCount \in Nat
      BY <1>0, <2>1, <2>3, TaskAssumptions, TP!CountNat
         DEF TP!NonceInv, TP!TypeOK, T!TransactionCount, TP!TransactionCount, accountVars
    <3>4. TP!TypeOK'
      BY <1>0, <2>1, <2>3, <3>3
         DEF TP!NonceInv, TP!TypeOK, TP!TasksOK, TP!SharedOK, TP!Tx, accountVars, taskVars,
             guardVars
    <3>5. TP!OneAtATime' /\ TP!SendsSharedNonce'
      BY <2>3, <3>2 DEF TP!OneAtATime, TP!SendsSharedNonce, taskVars
    <3>6. TP!NoGap'
      BY <3>3 DEF TP!NoGap
    <3>7. QED
      BY <3>1, <3>4, <3>5, <3>6 DEF ServiceInv, TP!NonceInv, DownIsQuiet
  <2>4. CASE pc # "down" /\ pc' # "down" /\ UNCHANGED <<taskVars, nonce, guardVars>>
    BY <1>1, <2>1, <2>4
  <2>5. QED
    BY <1>2, <2>2, <2>3, <2>4 DEF DetectorStep
<1>3. CASE ServiceCrash
  <2>1. TP!NonceInv' /\ \A t \in Tasks : taskPc'[t] = "new"
    BY <1>0, <1>3, AllNew DEF ServiceCrash
  <2>2. batches' = <<>>
    BY <1>3 DEF ServiceCrash, Crash, Exit
  <2>3. QED
    BY <2>1, <2>2 DEF ServiceInv, DownIsQuiet
<1>4. CASE EndOfBatch
  <2> PICK i \in DOMAIN batches : Gathered(i) /\ EndBatchAt(i) /\ Forget(TasksOf(i))
    BY <1>4 DEF EndOfBatch
  <2>1. TasksOf(i) \in SUBSET Tasks /\ \A t \in TasksOf(i) : T!Over(t)
    BY DEF TasksOf, Gathered
  <2>2. TP!NonceInv'
    BY <1>0, <1>4, <2>1, BatchOver DEF EndOfBatch
  <2>3. pc' # "down"
    <3>1. batches # <<>>
      OBVIOUS
    <3>2. QED
      BY <1>0, <3>1 DEF DownIsQuiet, EndBatchAt
  <2>4. QED
    BY <2>2, <2>3 DEF ServiceInv, DownIsQuiet
<1>5. CASE Chain
  <2>1. CASE (NewBlock \/ Tick) /\ UNCHANGED serviceVars
    BY <1>1, <2>1 DEF NewBlock, Tick, memoryVars, serviceVars
  <2>2. CASE T!MineNext /\ UNCHANGED <<detectorVars, rewound>>
    <3>1. TP!NonceInv'
      BY <1>0, <2>2, SameSteps, TaskAssumptions, TP!MinedOne
    <3>2. DownIsQuiet'
      BY <1>0, <2>2
         DEF DownIsQuiet, detectorVars, vars, memoryVars, T!MineNext, T!taskVars
    <3>3. QED
      BY <3>1, <3>2 DEF ServiceInv
  <2>3. QED
    BY <1>5, <2>1, <2>2 DEF Chain
<1>6. ASSUME NEW t \in Tasks, TaskStep(t) PROVE ServiceInv'
  <2>1. TP!NonceInv'
    <3>1. [TP!Next]_(TP!vars)
      BY <1>6, SameSteps DEF TaskStep, TP!Next
    <3>2. QED
      BY <1>0, <3>1, TaskAssumptions, TP!NonceInvStep
  <2>2. pc # "down" /\ pc' = pc
    <3>1. t \in Running /\ UNCHANGED <<detectorVars, rewound>>
      BY <1>6 DEF TaskStep
    <3>2. batches # <<>>
      BY <3>1 DEF Running
    <3>3. QED
      BY <1>0, <3>1, <3>2 DEF DownIsQuiet, detectorVars, vars
  <2>3. QED
    BY <2>1, <2>2 DEF ServiceInv, DownIsQuiet
<1>7. CASE UNCHANGED allVars
  BY <1>1, <1>7 DEF allVars, detectorVars, serviceVars, vars, memoryVars
<1>8. QED
  BY <1>2, <1>3, <1>4, <1>5, <1>6, <1>7 DEF ForceNext

-----------------------------------------------------------------------------
(* What the transactions of the service are about.                         *)

SubmittedOnChain == \A e \in Epochs : submitted[e] \subseteq SubmittedIn(1 .. Height, e)

ExpiryInv ==
  /\ DetectorInv /\ SubmittedOnChain
  /\ \A i \in DOMAIN batches : \A t \in TasksOf(i) : About[t] \in Forcible
  /\ \A g \in Targets : SentFor(g) => g \in Forcible

\* What the chain says up to its last block only grows.
LEMMA ChainGrows ==
  ASSUME ChainInv, [Next]_vars, NEW e \in Epochs
  PROVE  /\ SubmittedIn(1 .. Height, e) \subseteq SubmittedIn(1 .. Height, e)'
         /\ e \in ReleasedIn(1 .. Height) =>
              e \in ReleasedIn(1 .. Height)' /\ ReleaseTime(e)' = ReleaseTime(e)
<1>0. ChainInv' /\ Height \in Nat /\ Height' \in Nat /\ Height <= Height'
  <2>1. ChainInv'
    BY ChainStep
  <2>2. QED
    BY <2>1, Stable, LenProperties DEF ChainInv, Height
<1>1. \A b \in 1 .. Height : b \in 1 .. Height' /\ chain'[b] = chain[b]
  BY <1>0, Stable
<1>2. DOMAIN chain = 1 .. Height /\ DOMAIN chain' = 1 .. Height'
  BY <1>0 DEF ChainInv, Height
<1>3. /\ (1 .. Height) \cap DOMAIN chain = 1 .. Height
      /\ (1 .. Height') \cap DOMAIN chain' = 1 .. Height'
  BY <1>2
<1>4. \A b \in Logged(1 .. Height, "submitted", e) :
        b \in Logged(1 .. Height, "submitted", e)' /\ chain'[b].project = chain[b].project
  BY <1>1, <1>3 DEF Logged
<1>5. SubmittedIn(1 .. Height, e) \subseteq SubmittedIn(1 .. Height, e)'
  BY <1>4 DEF SubmittedIn
<1>6. ASSUME e \in ReleasedIn(1 .. Height)
      PROVE  e \in ReleasedIn(1 .. Height)' /\ ReleaseTime(e)' = ReleaseTime(e)
  <2>1. PICK b \in Logged(1 .. Height, "released", e) : TRUE
    BY <1>6 DEF ReleasedIn
  <2>2. b \in 1 .. Height /\ b \in Logged(1 .. Height, "released", e)'
    BY <1>1, <1>3, <2>1 DEF Logged
  <2>3. \A d \in Logged(1 .. Height, "released", e) : d = b
    BY <1>3, <2>1 DEF Logged, ChainInv, IsRelease
  <2>4. \A d \in Logged(1 .. Height, "released", e)' : d = b
    BY <1>0, <1>3, <2>2 DEF Logged, ChainInv, IsRelease
  <2>5. ReleaseTime(e) = chain[b].time
    BY <2>1, <2>3 DEF ReleaseTime
  <2>6. ReleaseTime(e)' = chain'[b].time
    BY <2>2, <2>4 DEF ReleaseTime
  <2>7. QED
    BY <1>1, <2>2, <2>5, <2>6 DEF ReleasedIn
<1>7. QED
  BY <1>5, <1>6

\* What may be forced once may be forced for ever.
LEMMA ForcibleGrows ==
  ASSUME ChainInv, [Next]_vars
  PROVE  Forcible \subseteq Forcible'
<1> SUFFICES ASSUME NEW g \in Forcible PROVE g \in Forcible'
  OBVIOUS
<1>1. g \in Targets /\ g[1] \in Epochs
  BY DEF Forcible, Targets
<1>2. /\ g[1] \in ReleasedIn(1 .. Height)' /\ ReleaseTime(g[1])' = ReleaseTime(g[1])
      /\ g[2] \in SubmittedIn(1 .. Height, g[1])'
  BY <1>1, ChainGrows DEF Forcible
<1>3. clock > ReleaseTime(g[1]) + Window
  BY DEF Forcible
<1>4. PICK b \in 1 .. Height : ReleaseTime(g[1]) = chain[b].time
  <2>1. Logged(1 .. Height, "released", g[1]) # {}
    BY DEF Forcible, ReleasedIn
  <2>2. Logged(1 .. Height, "released", g[1]) \subseteq 1 .. Height
    BY DEF Logged
  <2>3. QED
    BY <2>1, <2>2 DEF ReleaseTime
<1>5. ReleaseTime(g[1]) \in Nat /\ clock \in Nat /\ clock' \in Nat /\ clock <= clock'
  <2>1. ChainInv'
    BY ChainStep
  <2>2. clock \in Nat /\ clock' \in Nat /\ clock <= clock'
    BY <2>1, Stable DEF ChainInv
  <2>3. QED
    BY <1>4, <2>2, BlockFact
<1>6. clock' > ReleaseTime(g[1])' + Window
  BY <1>2, <1>3, <1>5, DetectorAssumption
<1>7. QED
  BY <1>1, <1>2, <1>6 DEF Forcible, Targets, Epochs

\* A step of a task sends for its target, if for any.
LEMMA SentByStep ==
  ASSUME NEW t \in Tasks, T!Step(t), NEW g \in Targets, SentFor(g)'
  PROVE  SentFor(g) \/ g = About[t]
<1>1. CASE UNCHANGED accountVars
  BY <1>1 DEF SentFor, accountVars
<1>2. CASE T!Submit(used[t], T!Transaction(t)) /\ UNCHANGED mined
  <2>1. pool' = [m \in DOMAIN pool \cup {used[t]} |->
                   IF m = used[t] THEN T!Transaction(t) ELSE pool[m]]
    BY <1>2 DEF T!Submit
  <2>2. T!Transaction(t).about = About[t]
    BY DEF T!Transaction
  <2>3. CASE \E n \in DOMAIN pool' : pool'[n].about = g
    BY <2>1, <2>2, <2>3 DEF SentFor
  <2>4. CASE \E i \in DOMAIN mined' : mined'[i].tx.about = g
    BY <1>2, <2>4 DEF SentFor
  <2>5. QED
    BY <2>3, <2>4 DEF SentFor
<1>3. QED
  BY <1>1, <1>2
     DEF T!Step, T!Start, T!AcquireSemaphore, T!AcquireLock, T!Build, T!Sent, T!NotSent,
         T!SendFails, T!AfterSend, T!Receipt, T!Reset, T!ResetFails, T!accountVars, accountVars

\* What is mined was pending.
LEMMA SentBefore ==
  ASSUME ServiceInv, T!MineNext, NEW g \in Targets, SentFor(g)'
  PROVE  SentFor(g)
<1> DEFINE n == Len(mined)
<1>1. PICK ok \in BOOLEAN : T!Mine(ok)
  BY DEF T!MineNext
<1>2. /\ n \in DOMAIN pool /\ mined' = Append(mined, [tx |-> pool[n], ok |-> ok])
      /\ pool' = [m \in DOMAIN pool \ {n} |-> pool[m]]
  BY <1>1 DEF T!Mine, T!Minable, T!NextTx, T!TransactionCount, T!Restrict
<1>3. mined \in Seq([tx : TP!Tx, ok : BOOLEAN]) /\ pool[n] \in TP!Tx
  BY <1>2 DEF ServiceInv, TP!NonceInv, TP!TypeOK, TP!SharedOK
<1> HIDE DEF n
<1>4. /\ Len(mined') = Len(mined) + 1 /\ mined' \in Seq([tx : TP!Tx, ok : BOOLEAN])
      /\ \A i \in 1 .. Len(mined) : mined'[i] = mined[i]
      /\ mined'[Len(mined) + 1].tx = pool[n]
  <2>1. [tx |-> pool[n], ok |-> ok] \in [tx : TP!Tx, ok : BOOLEAN]
    BY <1>3
  <2>2. QED
    BY <1>2, <1>3, <2>1, AppendProperties
<1>5. \A i \in DOMAIN mined' : i \in DOMAIN mined \/ i = Len(mined) + 1
  BY <1>3, <1>4, LenProperties
<1>6. \A i \in DOMAIN mined : i \in 1 .. Len(mined)
  BY <1>3, LenProperties
<1>7. CASE \E m \in DOMAIN pool' : pool'[m].about = g
  BY <1>2, <1>7 DEF SentFor
<1>8. CASE \E i \in DOMAIN mined' : mined'[i].tx.about = g
  BY <1>2, <1>4, <1>5, <1>6, <1>8 DEF SentFor
<1>9. QED
  BY <1>7, <1>8 DEF SentFor

\* A batch that is started forces what may be forced.
LEMMA NewBatchForcible ==
  ASSUME DetectorInv, SubmittedOnChain, NEW g \in Targets, g[1] \in DueEpochs, g[2] \in Open(g[1])
  PROVE  g \in Forcible
<1>1. clock > ReleaseTime(g[1]) + Window
  BY DueIsOver
<1>2. g[1] \in Epochs
  BY DEF Targets
<1>3. g[1] \in ReleasedIn(1 .. Height)
  <2>1. PICK b \in 1 .. Height : IsRelease(b, g[1])
    BY DEF DueEpochs, Due, DetectorInv, PendingReleased
  <2>2. ChainInv /\ (1 .. Height) \in SUBSET (1 .. Height)
    BY DEF DetectorInv
  <2>3. QED
    BY <1>2, <2>1, <2>2, Says
<1>4. g[2] \in SubmittedIn(1 .. Height, g[1])
  BY <1>2 DEF Open, SubmittedOnChain
<1>5. QED
  BY <1>1, <1>3, <1>4 DEF Forcible

LEMMA ExpiryInit == ForceInit => ExpiryInv
<1> SUFFICES ASSUME ForceInit PROVE ExpiryInv
  OBVIOUS
<1>1. DetectorInv
  BY DetectorInit DEF ForceInit
<1>2. SubmittedOnChain /\ DOMAIN batches = {}
  BY DEF ForceInit, Init, SubmittedOnChain, NoProjects
<1>3. \A g \in Targets : ~SentFor(g)
  BY DEF ForceInit, T!Init, T!AccountInit, SentFor
<1>4. QED
  BY <1>1, <1>2, <1>3 DEF ExpiryInv

\* The process remembers no submission that is not on the chain.
LEMMA SubmittedStep ==
  ASSUME DetectorInv, SubmittedOnChain, [Next]_vars
  PROVE  SubmittedOnChain'
<1>0. ChainInv /\ TypeInv /\ DOMAIN chain = 1 .. Height /\ Height \in Nat
  BY LenProperties DEF DetectorInv, ChainInv, Height
<1>1. ASSUME \A e \in Epochs : submitted'[e] \subseteq SubmittedIn(1 .. Height, e)
      PROVE  SubmittedOnChain'
  <2>1. \A e \in Epochs : SubmittedIn(1 .. Height, e) \subseteq SubmittedIn(1 .. Height, e)'
    BY <1>0, ChainGrows
  <2>2. QED
    BY <1>1, <2>1 DEF SubmittedOnChain, Epochs
<1>2. CASE Handle
  <2> PICK to \in Height - LogLag .. Height :
        submitted' = [e \in Epochs |-> submitted[e] \cup SubmittedIn(Answered(to), e)]
    BY <1>2 DEF Handle
  <2>1. \A e \in Epochs : SubmittedIn(Answered(to), e) \subseteq SubmittedIn(1 .. Height, e)
    BY <1>0 DEF SubmittedIn, Logged
  <2>2. QED
    BY <1>1, <2>1 DEF SubmittedOnChain
<1>3. CASE EndBatch
  <2>1. \A e \in Epochs : submitted'[e] \subseteq submitted[e]
    BY <1>0, <1>3 DEF EndBatch, EndBatchAt, CleanUp, TypeInv
  <2>2. QED
    BY <1>1, <2>1 DEF SubmittedOnChain
<1>4. CASE Exit
  <2>1. \A e \in Epochs : submitted'[e] = {}
    BY <1>4 DEF Exit, NoProjects
  <2>2. QED
    BY <1>1, <2>1
<1>5. CASE submitted' = submitted
  BY <1>1, <1>5 DEF SubmittedOnChain
<1>6. QED
  BY <1>2, <1>3, <1>4, <1>5
     DEF Next, Run, Setup, Poll, FetchFails, ForceDue, Save, Crash, NewBlock, Tick, vars,
         memoryVars

\* Every batch is about what may be forced.
LEMMA BatchesStep ==
  ASSUME ExpiryInv, [Next]_vars, NEW i \in DOMAIN batches'
  PROVE  \A t \in TasksOf(i)' : About[t] \in Forcible
<1>0. /\ DetectorInv /\ SubmittedOnChain /\ TypeInv /\ batches \in Seq(Batch)
      /\ \A k \in DOMAIN batches : \A t \in TasksOf(k) : About[t] \in Forcible
  BY DEF ExpiryInv, DetectorInv, TypeInv
<1>1. ASSUME NEW k \in DOMAIN batches, batches'[i] = batches[k]
      PROVE  \A t \in TasksOf(i)' : About[t] \in Forcible
  <2>1. TasksOf(i)' = TasksOf(k)
    BY <1>1 DEF TasksOf
  <2>2. QED
    BY <1>0, <2>1
<1>2. CASE ForceDue
  <2>1. CASE batches' = batches
    BY <1>1, <2>1
  <2>2. ASSUME NEW e \in DueEpochs,
               batches' = Append(batches, [forces |-> [x \in Due |-> Open(x[2])], last |-> e])
        PROVE  \A t \in TasksOf(i)' : About[t] \in Forcible
    <3>1. /\ Len(batches') = Len(batches) + 1 /\ batches' \in Seq(Batch)
          /\ \A k \in 1 .. Len(batches) : batches'[k] = batches[k]
          /\ batches'[Len(batches) + 1].forces = [x \in Due |-> Open(x[2])]
      BY <1>0, <2>2, BatchTypes, AppendProperties
    <3>2. i \in DOMAIN batches \/ i = Len(batches) + 1
      BY <1>0, <3>1, LenProperties
    <3>3. CASE i \in DOMAIN batches
      <4>1. i \in 1 .. Len(batches)
        BY <1>0, <3>3, LenProperties
      <4>2. QED
        BY <1>1, <3>1, <3>3, <4>1
    <3>4. CASE i = Len(batches) + 1
      <4>1. \A t \in TasksOf(i)' : t \in Tasks /\ t[1] \in Due /\ t[2] \in Open(t[1][2])
        BY <3>1, <3>4 DEF TasksOf, Tasks, Entries, Epochs
      <4>2. ASSUME NEW t \in TasksOf(i)' PROVE About[t] \in Forcible
        <5>1. About[t] \in Targets /\ About[t] = <<t[1][2], t[2]>> /\ t[1][2] \in DueEpochs
          BY <4>1, AboutFact DEF DueEpochs
        <5>2. About[t][1] \in DueEpochs /\ About[t][2] \in Open(About[t][1])
          BY <4>1, <5>1
        <5>3. QED
          BY <1>0, <5>1, <5>2, NewBatchForcible
      <4>3. QED
        BY <4>2
    <3>5. QED
      BY <3>2, <3>3, <3>4
  <2>3. QED
    BY <1>2, <2>1, <2>2 DEF ForceDue
<1>3. CASE EndBatch
  <2>1. \E k \in DOMAIN batches : batches'[i] = batches[k]
    BY <1>0, <1>3, TakenOut DEF EndBatch, EndBatchAt
  <2>2. QED
    BY <1>1, <2>1
<1>4. CASE Exit
  BY <1>4 DEF Exit
<1>5. CASE batches' = batches
  BY <1>1, <1>5
<1>6. QED
  BY <1>2, <1>3, <1>4, <1>5
     DEF Next, Run, Setup, Poll, Handle, FetchFails, Save, Crash, NewBlock, Tick, vars,
         memoryVars

\* What is sent is what a batch forces.
LEMMA SentStep ==
  ASSUME ServiceInv, ExpiryInv, [ForceNext]_allVars, NEW g \in Targets, SentFor(g)'
  PROVE  g \in Forcible
<1>0. SentFor(g) => g \in Forcible
  BY DEF ExpiryInv
<1>1. ASSUME NEW t \in Tasks, TaskStep(t) PROVE g \in Forcible
  <2>1. About[t] \in Forcible
    BY <1>1 DEF TaskStep, Running, ExpiryInv
  <2>2. SentFor(g) \/ g = About[t]
    BY <1>1, SentByStep DEF TaskStep
  <2>3. QED
    BY <1>0, <2>1, <2>2
<1>2. CASE T!MineNext
  BY <1>0, <1>2, SentBefore
<1>3. CASE UNCHANGED accountVars
  BY <1>0, <1>3 DEF SentFor, accountVars
<1>4. QED
  BY <1>1, <1>2, <1>3
     DEF ForceNext, DetectorStep, ServiceCrash, EndOfBatch, Chain, allVars, serviceVars

LEMMA ExpiryStep == ServiceInv /\ ExpiryInv /\ [ForceNext]_allVars => ExpiryInv'
<1> SUFFICES ASSUME ServiceInv, ExpiryInv, [ForceNext]_allVars PROVE ExpiryInv'
  OBVIOUS
<1>1. [Next]_vars
  BY DetectorMoves
<1>2. DetectorInv'
  BY <1>1, ChainStep, TypeStep, ReleasedStep, MemoryStep, SteadyStep DEF ExpiryInv, DetectorInv
<1>3. Forcible \subseteq Forcible'
  BY <1>1, ForcibleGrows DEF ExpiryInv, DetectorInv
<1>4. SubmittedOnChain'
  BY <1>1, SubmittedStep DEF ExpiryInv
<1>5. \A i \in DOMAIN batches' : \A t \in TasksOf(i)' : About[t] \in Forcible'
  BY <1>1, <1>3, BatchesStep
<1>6. \A g \in Targets : SentFor(g)' => g \in Forcible'
  BY <1>3, SentStep
<1>7. About' = About /\ Targets' = Targets
  BY DEF About, Targets, Tasks, Entries, Epochs
<1>8. QED
  BY <1>2, <1>4, <1>5, <1>6, <1>7 DEF ExpiryInv

\* Whatever fails, lags or restarts, a transaction forces a submitted project of an
\* epoch whose window is over.
THEOREM ForcesNothingEarly == ForceSpec => []ForcesExpired
<1>1. ExpiryInv => ForcesExpired
  BY DEF ExpiryInv, ForcesExpired
<1>2. QED
  BY <1>1, ServiceInit, ServiceStep, ExpiryInit, ExpiryStep, PTL DEF ForceSpec

-----------------------------------------------------------------------------
(* The detector until it fails, restarts or goes back: blocks may be       *)
(* missed, but none is handled twice, and no epoch is in two batches, or   *)
(* twice in one.                                                           *)

Forward ==
  /\ PendingEpochs \cup picked \subseteq ReleasedIn(1 .. last)
  /\ PendingEpochs \cap picked = {}
  /\ \A x, y \in pending : x[2] = y[2] => x = y
  /\ \A i \in DOMAIN batches : \A x \in DOMAIN batches[i].forces : x[2] \in picked
  /\ \A i, j \in DOMAIN batches :
       \A x \in DOMAIN batches[i].forces, y \in DOMAIN batches[j].forces :
         x[2] = y[2] => i = j /\ x = y

ForwardInv == ~Disturbed => Forward

\* The detector was not disturbed before if it is not after the step, and the process
\* goes on, with a last block that is not behind the one before.
LEMMA StillUp ==
  ASSUME TypeInv, [ForceNext]_allVars, ~Disturbed'
  PROVE  faults = 0 /\ ~Disturbed /\ ~Crash /\ (\A kind : ~Fault(kind)) /\ ~(last' < last)
<1>0. faults \in Nat /\ last \in Nat /\ [Next]_vars
  BY DetectorMoves DEF TypeInv
<1>1. ~(faults' > 0) /\ ~rewound'
  BY DEF Disturbed
<1>2. faults' = faults \/ faults' = faults + 1
  BY <1>0, ZenonT(30) DEF Next, Run, Setup, Poll, Handle, FetchFails, ForceDue, Save, EndBatch,
       EndBatchAt, Crash, NewBlock, Tick, vars, Fault
<1>3. faults = 0
  BY <1>0, <1>1, <1>2
<1>4. \A kind : ~Fault(kind)
  BY <1>1, <1>3 DEF Fault
<1>5. ~Crash
  BY <1>4 DEF Crash
<1>6. ~rewound /\ ~(last' < last)
  <2>1. CASE DetectorStep
    BY <1>1, <2>1, Zenon DEF DetectorStep
  <2>2. CASE rewound' = rewound /\ last' = last
    BY <1>0, <1>1, <2>2
  <2>3. QED
    BY <1>5, <2>1, <2>2
       DEF ForceNext, ServiceCrash, EndOfBatch, EndBatchAt, Chain, NewBlock, Tick, TaskStep,
           allVars, serviceVars, detectorVars, vars
<1>7. QED
  BY <1>3, <1>4, <1>5, <1>6 DEF Disturbed

\* What a poll makes the last block is a block of the chain.
LEMMA PollForward ==
  ASSUME TypeInv, ChainInv, Poll, \A kind : ~Fault(kind), ~(last' < last)
  PROVE  last' \in last .. Height /\ UNCHANGED <<pending, picked, batches>>
<1> PICK h \in ObservedHeads : last' = AfterJump(h, LastProcessed(h)) /\ UNCHANGED memoryVars
  BY DEF Poll
<1>1. last' \in 0 .. Height
  BY PollFact
<1>2. last \in 0 .. Height /\ Height \in Nat
  BY LenProperties DEF TypeInv, ChainInv, Height
<1>3. QED
  BY <1>1, <1>2 DEF Poll, memoryVars

\* What is handled can only grow when the last block moves forward.
LEMMA ReleasedForward ==
  ASSUME ChainInv, TypeInv, [Next]_vars, last' \in last .. Height
  PROVE  ReleasedIn(1 .. last) \subseteq ReleasedIn(1 .. last)'
<1>1. last \in 0 .. Height /\ checkpoint \in 0 .. Height /\ Height \in Nat
  BY LenProperties DEF TypeInv, ChainInv, Height
<1> PICK c \in 0 .. Height : c = last'
  BY <1>1
<1>2. ReleasedIn(1 .. c)' = ReleasedIn(1 .. c)
  BY Stable
<1>3. ReleasedIn(1 .. last)' = ReleasedIn(1 .. c)'
  BY DEF ReleasedIn, Logged
<1>4. last \in 0 .. c
  BY <1>1
<1>5. ReleasedIn(1 .. c) = ReleasedIn(1 .. last) \cup ReleasedIn(last + 1 .. c)
  BY <1>4, Pieces
<1>6. QED
  BY <1>2, <1>3, <1>5

LEMMA ForwardStep == ChainInv /\ TypeInv /\ ForwardInv /\ [ForceNext]_allVars => ForwardInv'
<1> SUFFICES ASSUME ChainInv, TypeInv, ForwardInv, [ForceNext]_allVars, ~Disturbed'
             PROVE  Forward'
  BY DEF ForwardInv
<1>0. /\ last \in 0 .. Height /\ current \in 0 .. Height /\ Height \in Nat
      /\ checkpoint \in 0 .. Height /\ batches \in Seq(Batch)
  BY LenProperties DEF TypeInv, ChainInv, Height
<1>1. Forward /\ ~Crash /\ (\A kind : ~Fault(kind)) /\ ~(last' < last) /\ [Next]_vars
  BY StillUp, DetectorMoves DEF ForwardInv
<1>2. ASSUME UNCHANGED <<pending, picked, batches>>, last' \in last .. Height
      PROVE  Forward'
  <2>1. ReleasedIn(1 .. last) \subseteq ReleasedIn(1 .. last)'
    BY <1>1, <1>2, ReleasedForward
  <2>2. PendingEpochs' = PendingEpochs
    BY <1>2 DEF PendingEpochs
  <2>3. QED
    BY <1>1, <1>2, <2>1, <2>2 DEF Forward
<1>3. CASE Poll
  BY <1>1, <1>2, <1>3, PollForward
<1>4. CASE Handle
  <2> PICK to \in Height - LogLag .. Height :
        pending' = pending \cup {<<clock, e>> : e \in ReleasedIn(Answered(to))}
    BY <1>4 DEF Handle
  <2>1. /\ pc = "fetch" /\ pc' = "force" /\ last' = current
        /\ UNCHANGED <<picked, batches>> /\ last \in 0 .. current
    BY <1>0, <1>1, <1>4 DEF Handle
  <2> DEFINE new == ReleasedIn(Answered(to))
  <2>2. /\ ReleasedIn(1 .. current) = ReleasedIn(1 .. last) \cup ReleasedIn(last + 1 .. current)
        /\ ReleasedIn(1 .. last) \cap ReleasedIn(last + 1 .. current) = {}
    BY <1>0, <2>1, Pieces
  <2>3. new \subseteq ReleasedIn(last + 1 .. current)
    <3>1. Answered(to) \subseteq last + 1 .. current
      BY <1>0, DetectorAssumption DEF Answered
    <3>2. QED
      BY <3>1 DEF ReleasedIn, Logged
  <2>4. ReleasedIn(1 .. last)' = ReleasedIn(1 .. current)
    <3>1. last' \in 0 .. Height /\ checkpoint' \in 0 .. Height
      BY <1>0, <1>4, <2>1 DEF Handle
    <3>2. QED
      BY <1>1, <2>1, <3>1, SaidNow
  <2>5. PendingEpochs' = PendingEpochs \cup new
    BY Gained DEF PendingEpochs
  <2>6. ASSUME NEW x \in pending', NEW y \in pending', x[2] = y[2] PROVE x = y
    <3>1. ASSUME NEW z \in pending PROVE z[2] \in ReleasedIn(1 .. last)
      BY <1>1 DEF Forward, PendingEpochs
    <3>2. ASSUME NEW z \in pending' \ pending
          PROVE  z[2] \in ReleasedIn(last + 1 .. current) /\ z = <<clock, z[2]>>
      <4>1. PICK e \in new : z = <<clock, e>>
        OBVIOUS
      <4>2. z[2] = e
        BY <4>1
      <4>3. QED
        BY <2>3, <4>1, <4>2
    <3> HIDE DEF new
    <3>3. CASE x \in pending /\ y \in pending
      BY <1>1, <2>6, <3>3 DEF Forward
    <3>4. CASE x \notin pending /\ y \notin pending
      <4>1. x = <<clock, x[2]>> /\ y = <<clock, y[2]>>
        BY <3>2, <3>4
      <4>2. QED
        BY <2>6, <4>1
    <3>5. CASE x \in pending <=> y \notin pending
      BY <2>2, <2>6, <3>1, <3>2, <3>5
    <3>6. QED
      BY <3>3, <3>4, <3>5
  <2> HIDE DEF new
  <2>7. PendingEpochs' \cup picked' \subseteq ReleasedIn(1 .. last)'
    BY <1>1, <2>1, <2>2, <2>3, <2>4, <2>5 DEF Forward
  <2>8. PendingEpochs' \cap picked' = {}
    BY <1>1, <2>1, <2>2, <2>3, <2>5 DEF Forward
  <2>9. QED
    BY <1>1, <2>1, <2>6, <2>7, <2>8 DEF Forward
<1>5. CASE ForceDue
  <2>1. /\ pending' = pending \ Due /\ last' = last /\ pc' = "save"
        /\ picked' = picked \cup DueEpochs
    BY <1>5 DEF ForceDue
  <2>2. PendingEpochs' = PendingEpochs \ DueEpochs /\ DueEpochs \subseteq PendingEpochs
    BY <1>1, <2>1, PickedFact DEF Forward
  <2>3. ReleasedIn(1 .. last) \subseteq ReleasedIn(1 .. last)'
    BY <1>0, <1>1, <2>1, ReleasedForward
  <2>4. /\ \A i \in DOMAIN batches' : \A x \in DOMAIN batches'[i].forces : x[2] \in picked'
        /\ \A i, j \in DOMAIN batches' :
             \A x \in DOMAIN batches'[i].forces, y \in DOMAIN batches'[j].forces :
               x[2] = y[2] => i = j /\ x = y
    <3>1. CASE batches' = batches
      BY <1>1, <2>1, <3>1 DEF Forward
    <3>2. ASSUME NEW e \in DueEpochs,
                 batches' = Append(batches, [forces |-> [x \in Due |-> Open(x[2])], last |-> e])
          PROVE  <2>4!1 /\ <2>4!2
      <4> DEFINE n == Len(batches) + 1
      <4>1. /\ \A k \in 1 .. Len(batches) : batches'[k] = batches[k]
            /\ DOMAIN batches'[n].forces = Due
            /\ DOMAIN batches' = 1 .. n /\ n \in Nat
        BY <1>0, <3>2, BatchTypes, AppendProperties, LenProperties
      <4>2. DOMAIN batches = 1 .. Len(batches)
        BY <1>0, LenProperties
      <4> HIDE DEF n
      <4>3. \A i \in DOMAIN batches' : (i \in DOMAIN batches /\ batches'[i] = batches[i]) \/ i = n
        BY <4>1, <4>2 DEF n
      <4>4. \A x \in Due : x \in pending /\ x[2] \in picked' /\ x[2] \notin picked
        BY <1>1, <2>1, <2>2 DEF Forward, DueEpochs, Due
      <4>5. \A x, y \in Due : x[2] = y[2] => x = y
        BY <1>1, <4>4 DEF Forward
      <4>6. <2>4!1
        BY <1>1, <2>1, <4>1, <4>3, <4>4 DEF Forward
      <4>7. ASSUME NEW i \in DOMAIN batches', NEW j \in DOMAIN batches',
                   NEW x \in DOMAIN batches'[i].forces, NEW y \in DOMAIN batches'[j].forces,
                   x[2] = y[2]
            PROVE  i = j /\ x = y
        <5>1. CASE i \in DOMAIN batches /\ batches'[i] = batches[i]
          <6>1. x[2] \in picked
            BY <1>1, <5>1 DEF Forward
          <6>2. j # n
            BY <4>1, <4>4, <4>7, <6>1
          <6>3. j \in DOMAIN batches /\ batches'[j] = batches[j]
            BY <4>3, <6>2
          <6>4. QED
            BY <1>1, <4>7, <5>1, <6>3 DEF Forward
        <5>2. CASE i = n
          <6>1. x \in Due
            BY <4>1, <5>2
          <6>2. CASE j = n
            BY <4>1, <4>5, <4>7, <5>2, <6>1, <6>2
          <6>3. CASE j \in DOMAIN batches /\ batches'[j] = batches[j]
            <7>1. y[2] \in picked
              BY <1>1, <6>3 DEF Forward
            <7>2. QED
              BY <4>4, <4>7, <6>1, <7>1
          <6>4. QED
            BY <4>3, <6>2, <6>3
        <5>3. QED
          BY <4>3, <5>1, <5>2
      <4>8. QED
        BY <4>6, <4>7
    <3>3. QED
      BY <1>5, <3>1, <3>2 DEF ForceDue
  <2>5. \A x, y \in pending' : x[2] = y[2] => x = y
    BY <1>1, <2>1 DEF Forward
  <2>6. QED
    BY <1>1, <2>1, <2>2, <2>3, <2>4, <2>5 DEF Forward
<1>6. CASE EndBatch
  <2> PICK i \in DOMAIN batches : EndBatchAt(i)
    BY <1>6 DEF EndBatch
  <2>1. UNCHANGED <<pc, last, current, pending, picked>> /\ batches' = RemoveAt(batches, i)
    BY DEF EndBatchAt, history
  <2>2. ReleasedIn(1 .. last) \subseteq ReleasedIn(1 .. last)' /\ PendingEpochs' = PendingEpochs
    BY <1>0, <1>1, <2>1, ReleasedForward DEF PendingEpochs
  <2>3. \A j \in DOMAIN batches' :
          /\ j < i => j \in DOMAIN batches /\ batches'[j] = batches[j]
          /\ j >= i => j + 1 \in DOMAIN batches /\ batches'[j] = batches[j + 1]
    BY <1>0, <2>1, TakenOut
  <2>4. \A j \in DOMAIN batches' : j \in Int /\ i \in Int
    BY <1>0, <2>1, TakenOut, LenProperties
  <2>5. \A j, k \in DOMAIN batches' :
          \A x \in DOMAIN batches'[j].forces, y \in DOMAIN batches'[k].forces :
            x[2] = y[2] => j = k /\ x = y
    <3> SUFFICES ASSUME NEW j \in DOMAIN batches', NEW k \in DOMAIN batches',
                        NEW x \in DOMAIN batches'[j].forces, NEW y \in DOMAIN batches'[k].forces,
                        x[2] = y[2]
                 PROVE  j = k /\ x = y
      OBVIOUS
    <3>1. \A m \in DOMAIN batches' : \E m0 \in DOMAIN batches :
            batches'[m] = batches[m0] /\ m0 = (IF m < i THEN m ELSE m + 1)
      BY <2>3, <2>4
    <3>2. PICK j0 \in DOMAIN batches :
            batches'[j] = batches[j0] /\ j0 = (IF j < i THEN j ELSE j + 1)
      BY <3>1
    <3>3. PICK k0 \in DOMAIN batches :
            batches'[k] = batches[k0] /\ k0 = (IF k < i THEN k ELSE k + 1)
      BY <3>1
    <3>4. j0 = k0 /\ x = y
      BY <1>1, <3>2, <3>3 DEF Forward
    <3>5. QED
      BY <2>4, <3>2, <3>3, <3>4
  <2>6. \A j \in DOMAIN batches' : \A x \in DOMAIN batches'[j].forces : x[2] \in picked'
    BY <1>1, <2>1, <2>3, <2>4 DEF Forward
  <2>7. QED
    BY <1>1, <2>1, <2>2, <2>5, <2>6 DEF Forward
<1>7. CASE Setup \/ FetchFails \/ Save \/ NewBlock \/ Tick \/ UNCHANGED vars
  <2>1. UNCHANGED <<pending, picked, batches, last>>
    BY <1>1, <1>7 DEF Setup, FetchFails, Save, NewBlock, Tick, vars, memoryVars, history
  <2>2. QED
    BY <1>0, <1>2, <2>1
<1>8. QED
  BY <1>1, <1>3, <1>4, <1>5, <1>6, <1>7 DEF Next, Run

-----------------------------------------------------------------------------
(* The transactions of the service, in the order of their nonces.          *)

\* What is left of k from n on.
LEMMA IntervalSize ==
  ASSUME NEW k \in Nat, NEW n \in Nat, n <= k
  PROVE  Cardinality(n .. k - 1) = k - n
<1>1. n \in Int /\ k - 1 \in Int
  OBVIOUS
<1>2. Cardinality(n .. k - 1) = IF n > k - 1 THEN 0 ELSE (k - 1) - n + 1
  <2>1. \A a, b \in Int : Cardinality(a .. b) = IF a > b THEN 0 ELSE b - a + 1
    BY FS_Interval, Zenon
  <2>2. QED
    BY <1>1, <2>1, Zenon
<1>3. QED
  BY <1>2

\* The order, with k transactions mined and pending.
OrderUpTo(k) ==
  /\ SentInOrder = [i \in 1 .. k |-> IF i <= Len(mined) THEN mined[i].tx.about
                                                        ELSE pool[i - 1].about]
  /\ SentInOrder \in Seq(Targets) /\ Len(SentInOrder) = k
  /\ Len(mined) \in 0 .. k /\ DOMAIN pool = Len(mined) .. k - 1
  /\ DOMAIN mined = 1 .. Len(mined)

InOrder == \A k \in Nat : TP!PoolUpTo(k) => OrderUpTo(k)

LEMMA OrderIs == TP!NonceInv => InOrder
<1> SUFFICES ASSUME TP!NonceInv, NEW k \in Nat, TP!PoolUpTo(k) PROVE OrderUpTo(k)
  BY DEF InOrder
<1>1. /\ mined \in Seq([tx : TP!Tx, ok : BOOLEAN]) /\ DOMAIN pool \subseteq Nat
      /\ pool \in [DOMAIN pool -> TP!Tx] /\ TP!SharedOK
  BY DEF TP!NonceInv, TP!TypeOK, TP!SharedOK
<1>2. Len(mined) \in Nat /\ DOMAIN mined = 1 .. Len(mined)
  BY <1>1, LenProperties
<1>3. Len(mined) \in 0 .. k /\ DOMAIN pool = Len(mined) .. k - 1
  BY <1>2 DEF TP!PoolUpTo, TP!TransactionCount
<1>4. Len(mined) + Cardinality(DOMAIN pool) = k
  <2>1. Cardinality(DOMAIN pool) = k - Len(mined)
    <3> PICK n \in Nat : n = Len(mined)
      BY <1>2
    <3>1. n <= k /\ DOMAIN pool = n .. k - 1
      BY <1>3
    <3>2. Cardinality(n .. k - 1) = k - n
      BY <3>1, IntervalSize
    <3>3. QED
      BY <3>1, <3>2
  <2>2. QED
    BY <1>2, <2>1
<1>5. SentInOrder = [i \in 1 .. k |-> IF i <= Len(mined) THEN mined[i].tx.about
                                                         ELSE pool[i - 1].about]
  BY <1>4 DEF SentInOrder
<1>6. ASSUME NEW i \in 1 .. k PROVE SentInOrder[i] \in Targets
  <2>1. CASE i <= Len(mined)
    <3>1. mined[i] \in [tx : TP!Tx, ok : BOOLEAN]
      <4>1. i \in 1 .. Len(mined)
        BY <1>2, <2>1
      <4>2. QED
        BY <1>1, <4>1, ElementOfSeq
    <3>2. QED
      BY <1>5, <2>1, <3>1, AboutFact DEF TP!Tx
  <2>2. CASE ~(i <= Len(mined))
    <3>1. i - 1 \in DOMAIN pool
      BY <1>2, <1>3, <2>2
    <3>2. QED
      BY <1>1, <1>5, <2>2, <3>1, AboutFact DEF TP!Tx
  <2>3. QED
    BY <2>1, <2>2
<1>7. SentInOrder \in Seq(Targets) /\ Len(SentInOrder) = k
  <2>1. SentInOrder \in [1 .. k -> Targets]
    BY <1>5, <1>6
  <2>2. QED
    BY <2>1, LenProperties
<1>8. QED
  BY <1>2, <1>3, <1>5, <1>7 DEF OrderUpTo

\* The same after a step.
LEMMA OrderNext == TP!NonceInv' => InOrder'
BY OrderIs, PTL

\* A target is sent for exactly if it is in the order.
SentAreListed == \A g \in Targets : SentFor(g) <=> g \in Range(SentInOrder)

LEMMA SentIsListed == TP!NonceInv /\ TP!PoolInv => SentAreListed
<1> SUFFICES ASSUME TP!NonceInv, TP!PoolInv, NEW g \in Targets
             PROVE  SentFor(g) <=> g \in Range(SentInOrder)
  BY DEF SentAreListed
<1> PICK k \in Nat : TP!PoolUpTo(k)
  BY DEF TP!PoolInv
<1>1. /\ SentInOrder = [i \in 1 .. k |-> IF i <= Len(mined) THEN mined[i].tx.about
                                                            ELSE pool[i - 1].about]
      /\ Len(mined) \in 0 .. k /\ DOMAIN pool = Len(mined) .. k - 1
      /\ DOMAIN mined = 1 .. Len(mined)
  BY OrderIs DEF InOrder, OrderUpTo
<1>2. Range(SentInOrder) = {SentInOrder[i] : i \in 1 .. k}
  BY <1>1 DEF Range
<1>3. ASSUME SentFor(g) PROVE \E i \in 1 .. k : SentInOrder[i] = g
  <2>1. CASE \E n \in DOMAIN pool : pool[n].about = g
    <3> PICK n \in DOMAIN pool : pool[n].about = g
      BY <2>1
    <3>1. n + 1 \in 1 .. k /\ ~(n + 1 <= Len(mined)) /\ (n + 1) - 1 = n
      BY <1>1
    <3>2. QED
      BY <1>1, <3>1
  <2>2. CASE \E i \in DOMAIN mined : mined[i].tx.about = g
    BY <1>1, <2>2
  <2>3. QED
    BY <1>3, <2>1, <2>2 DEF SentFor
<1>4. ASSUME NEW i \in 1 .. k, SentInOrder[i] = g PROVE SentFor(g)
  <2>1. CASE i <= Len(mined)
    BY <1>1, <1>4, <2>1 DEF SentFor
  <2>2. CASE ~(i <= Len(mined))
    <3>1. i - 1 \in DOMAIN pool
      BY <1>1, <2>2
    <3>2. QED
      BY <1>1, <1>4, <2>2, <3>1 DEF SentFor
  <2>3. QED
    BY <2>1, <2>2
<1>5. QED
  BY <1>2, <1>3, <1>4

LEMMA SentIsListedNext == TP!NonceInv' /\ TP!PoolInv' => SentAreListed'
BY SentIsListed, PTL

\* What the node takes goes to the end.
LEMMA TakenGoesLast ==
  ASSUME TP!NonceInv, TP!NonceInv', TP!PoolInv, NEW t \in Tasks, TP!Taken(t)
  PROVE  TP!PoolInv' /\ SentInOrder' = Append(SentInOrder, About[t])
<1> DEFINE g == About[t]
<1>0. g \in Targets
  BY AboutFact
<1> PICK k \in Nat : TP!PoolUpTo(k)
  BY DEF TP!PoolInv
<1>1. nonce = k /\ k + 1 \in Nat /\ TP!PoolUpTo(k + 1)'
  BY TaskAssumptions, TP!TakenIsNext
<1>2. /\ SentInOrder = [i \in 1 .. k |-> IF i <= Len(mined) THEN mined[i].tx.about
                                                            ELSE pool[i - 1].about]
      /\ SentInOrder \in Seq(Targets) /\ Len(SentInOrder) = k
      /\ Len(mined) \in 0 .. k /\ DOMAIN pool = Len(mined) .. k - 1
  BY OrderIs DEF InOrder, OrderUpTo
<1> PICK m \in Nat : m = k + 1
  BY <1>1
<1>3. TP!PoolUpTo(m)'
  BY <1>1
<1>4. SentInOrder' = [i \in 1 .. m |-> IF i <= Len(mined') THEN mined'[i].tx.about
                                                           ELSE pool'[i - 1].about]
  BY <1>3, OrderNext DEF InOrder, OrderUpTo
<1>5. /\ mined' = mined /\ TP!Transaction(t).about = g
      /\ pool' = [n \in DOMAIN pool \cup {k} |-> IF n = k THEN TP!Transaction(t) ELSE pool[n]]
  BY <1>1 DEF TP!Taken, TP!Submit, TP!Transaction
<1> HIDE DEF g
<1>6. ASSUME NEW i \in 1 .. m
      PROVE  SentInOrder'[i] = IF i <= k THEN SentInOrder[i] ELSE g
  <2>1. CASE i <= Len(mined)
    BY <1>2, <1>3, <1>4, <1>5, <2>1
  <2>2. CASE ~(i <= Len(mined)) /\ i <= k
    <3>1. i - 1 \in DOMAIN pool /\ i - 1 # k
      BY <1>2, <2>2
    <3>2. QED
      BY <1>2, <1>3, <1>4, <1>5, <2>2, <3>1
  <2>3. CASE i = m
    <3>1. i - 1 = k /\ ~(i <= k) /\ ~(i <= Len(mined))
      BY <1>2, <2>3
    <3>2. QED
      BY <1>3, <1>4, <1>5, <3>1
  <2>4. QED
    BY <2>1, <2>2, <2>3
<1>7. SentInOrder' = [i \in 1 .. m |-> IF i <= k THEN SentInOrder[i] ELSE g]
  BY <1>3, <1>4, <1>6
<1>8. Append(SentInOrder, g) = [i \in 1 .. m |-> IF i <= k THEN SentInOrder[i] ELSE g]
  <2>1. Append(SentInOrder, g) \in Seq(Targets) /\ Len(Append(SentInOrder, g)) = m
    BY <1>0, <1>2, AppendProperties
  <2>2. /\ \A i \in 1 .. k : Append(SentInOrder, g)[i] = SentInOrder[i]
        /\ Append(SentInOrder, g)[m] = g
    BY <1>0, <1>2, AppendProperties
  <2>3. Append(SentInOrder, g) = [i \in 1 .. m |-> Append(SentInOrder, g)[i]]
    BY <2>1, LenProperties
  <2>4. QED
    BY <2>2, <2>3
<1>9. QED
  BY <1>3, <1>7, <1>8 DEF TP!PoolInv, g

\* What is mined keeps its place.
LEMMA MinedInPlace ==
  ASSUME TP!NonceInv, TP!NonceInv', TP!PoolInv, NEW ok \in BOOLEAN, TP!Mine(ok)
  PROVE  TP!PoolInv' /\ SentInOrder' = SentInOrder
<1> PICK k \in Nat : TP!PoolUpTo(k)
  BY DEF TP!PoolInv
<1>1. TP!PoolUpTo(k)'
  BY TaskAssumptions, TP!MinedFromFront
<1>2. /\ SentInOrder = [i \in 1 .. k |-> IF i <= Len(mined) THEN mined[i].tx.about
                                                            ELSE pool[i - 1].about]
      /\ Len(mined) \in 0 .. k /\ DOMAIN pool = Len(mined) .. k - 1
  BY OrderIs DEF InOrder, OrderUpTo
<1>3. SentInOrder' = [i \in 1 .. k |-> IF i <= Len(mined') THEN mined'[i].tx.about
                                                           ELSE pool'[i - 1].about]
  BY <1>1, OrderNext DEF InOrder, OrderUpTo
<1> PICK n \in Nat : n = Len(mined)
  BY <1>2
<1>4. n \in DOMAIN pool
  BY DEF TP!Mine, TP!Minable, TP!TransactionCount
<1>5. /\ Len(mined') = n + 1 /\ \A i \in 1 .. n : mined'[i] = mined[i]
      /\ mined'[n + 1].tx = pool[n]
      /\ pool' = [m \in DOMAIN pool \ {n} |-> pool[m]]
  <2>1. mined' = Append(mined, [tx |-> pool[n], ok |-> ok])
    BY DEF TP!Mine, TP!NextTx, TP!TransactionCount
  <2>2. mined \in Seq([tx : TP!Tx, ok : BOOLEAN]) /\ pool[n] \in TP!Tx
    BY <1>4 DEF TP!NonceInv, TP!TypeOK, TP!SharedOK
  <2>3. [tx |-> pool[n], ok |-> ok] \in [tx : TP!Tx, ok : BOOLEAN]
    BY <2>2
  <2>4. pool' = [m \in DOMAIN pool \ {n} |-> pool[m]]
    BY DEF TP!Mine, TP!Restrict, TP!TransactionCount
  <2>5. QED
    BY <2>1, <2>2, <2>3, <2>4, AppendProperties
<1>6. ASSUME NEW i \in 1 .. k PROVE SentInOrder'[i] = SentInOrder[i]
  <2>1. CASE i <= n
    BY <1>2, <1>3, <1>5, <2>1
  <2>2. CASE i = n + 1
    BY <1>2, <1>3, <1>5, <2>2
  <2>3. CASE i > n + 1
    <3>1. i - 1 \in DOMAIN pool \ {n} /\ ~(i <= n) /\ ~(i <= n + 1)
      BY <1>2, <2>3
    <3>2. QED
      BY <1>2, <1>3, <1>5, <3>1
  <2>4. QED
    BY <2>1, <2>2, <2>3
<1>7. QED
  BY <1>1, <1>2, <1>3, <1>6 DEF TP!PoolInv

\* A step of the service sends one transaction, of a task that runs, or changes
\* nothing of what was sent.
Sends(t) ==
  TaskStep(t) /\ TP!Taken(t) /\ SentInOrder' = Append(SentInOrder, About[t])

LEMMA SendsOrNot ==
  ASSUME ServiceInv, TP!PoolInv, [ForceNext]_allVars
  PROVE  /\ TP!PoolInv'
         /\ SentInOrder' = SentInOrder \/ \E t \in Tasks : Sends(t)
<1>0. TP!NonceInv /\ TP!NonceInv'
  BY ServiceStep DEF ServiceInv
<1>1. CASE UNCHANGED accountVars
  <2>1. SentInOrder' = SentInOrder
    BY <1>1 DEF accountVars, SentInOrder
  <2>2. TP!PoolInv'
    BY <1>1 DEF accountVars, TP!PoolInv, TP!PoolUpTo, TP!TransactionCount
  <2>3. QED
    BY <2>1, <2>2
<1>2. ASSUME NEW t \in Tasks, TaskStep(t) 
      PROVE  /\ TP!PoolInv'
             /\ SentInOrder' = SentInOrder \/ \E u \in Tasks : Sends(u)
  <2>1. UNCHANGED accountVars \/ TP!Taken(t)
    <3>1. TP!Step(t)
      BY <1>2, SameSteps DEF TaskStep
    <3>2. UNCHANGED TP!accountVars \/ TP!Taken(t)
      BY <1>0, <3>1, TaskAssumptions, TP!TaskAccount
    <3>3. QED
      BY <3>2 DEF TP!accountVars, accountVars
  <2>2. CASE TP!Taken(t)
    BY <1>0, <1>2, <2>2, TakenGoesLast DEF Sends
  <2>3. QED
    BY <1>1, <2>1, <2>2
<1>3. CASE T!MineNext
  <2>1. PICK ok \in BOOLEAN : TP!Mine(ok)
    BY <1>3, SameSteps DEF TP!MineNext
  <2>2. QED
    BY <1>0, <2>1, MinedInPlace
<1>4. QED
  BY <1>1, <1>2, <1>3
     DEF ForceNext, DetectorStep, ServiceCrash, EndOfBatch, Chain, allVars, serviceVars

-----------------------------------------------------------------------------
(* No project is forced twice, until the detector fails, restarts or goes  *)
(* back in the chain.                                                      *)

\* Where a task may still come to send.
Retries == {"new", "permit", "lock", "build", "send"}

\* Task t did send, but did not get the answer: the node has the nonce that the
\* task tries again, and nobody else gets the lock to change it.
InDoubt(t) ==
  /\ owner = t /\ depth > 0
  /\ nonce < TP!TransactionCount \/ nonce \in DOMAIN pool

Once ==
  /\ \A g \in Targets : SentFor(g) => g[1] \in picked
  /\ \A t \in Running : taskPc[t] \in Retries /\ SentFor(About[t]) => InDoubt(t)
  /\ \A i, j \in DOMAIN SentInOrder : SentInOrder[i] = SentInOrder[j] => i = j

OnceInv == TP!PoolInv /\ ForwardInv /\ (~Disturbed => Once)

\* What is sent after a step was sent before, or is sent by it.
LEMMA NewlySent ==
  ASSUME ServiceInv, TP!PoolInv, [ForceNext]_allVars, NEW g \in Targets, SentFor(g)'
  PROVE  SentFor(g) \/ \E t \in Tasks : Sends(t) /\ About[t] = g
<1>1. TP!NonceInv /\ TP!NonceInv' /\ TP!PoolInv'
  BY ServiceStep, SendsOrNot DEF ServiceInv
<1>2. (SentFor(g) <=> g \in Range(SentInOrder))
      /\ (SentFor(g)' <=> g \in Range(SentInOrder)')
  <2>1. TP!NonceInv /\ TP!PoolInv => (SentFor(g) <=> g \in Range(SentInOrder))
    BY SentIsListed DEF SentAreListed
  <2>2. TP!NonceInv' /\ TP!PoolInv' => (SentFor(g)' <=> g \in Range(SentInOrder)')
    <3>1. Targets' = Targets
      BY DEF Targets, Epochs
    <3>2. QED
      BY <3>1, SentIsListedNext DEF SentAreListed
  <2>3. QED
    BY <1>1, <2>1, <2>2
<1>3. CASE SentInOrder' = SentInOrder
  BY <1>2, <1>3
<1>4. ASSUME NEW u \in Tasks, Sends(u) PROVE SentFor(g) \/ About[u] = g
  <2>1. SentInOrder \in Seq(Targets) /\ SentInOrder' = Append(SentInOrder, About[u])
    BY <1>1, <1>4, OrderIs DEF InOrder, OrderUpTo, TP!PoolInv, Sends
  <2>2. Range(SentInOrder)' = Range(SentInOrder) \cup {About[u]}
    BY <2>1, AboutFact DEF Range
  <2>3. QED
    BY <1>2, <2>2
<1>5. QED
  BY <1>3, <1>4, SendsOrNot

\* The node refuses a task in doubt.
LEMMA DoubtRefused ==
  ASSUME TP!NonceInv, NEW t \in Tasks, InDoubt(t)
  PROVE  ~TP!Taken(t)
<1>1. CASE nonce < TP!TransactionCount
  BY <1>1 DEF TP!Taken, TP!Acceptable, TP!TooLow
<1>2. CASE nonce \in DOMAIN pool
  <2>1. pool[nonce].gas = 1 /\ TP!Transaction(t).gas = 1
    BY <1>2 DEF TP!NonceInv, TP!TypeOK, TP!SharedOK, TP!Tx, TP!Transaction
  <2>2. QED
    BY <1>2, <2>1 DEF TP!Taken, TP!Acceptable, TP!AlreadyKnown, TP!Underpriced
<1>3. QED
  BY <1>1, <1>2 DEF InDoubt

\* A task that runs and is about to send did not send before.
LEMMA NotSentYet ==
  ASSUME TP!NonceInv, Once, NEW t \in Tasks, Sends(t)
  PROVE  ~SentFor(About[t])
<1>1. t \in Running /\ taskPc[t] \in Retries
  BY DEF Sends, TaskStep, TP!Taken, Retries
<1>2. QED
  BY <1>1, DoubtRefused DEF Sends, Once

\* A step of one task leaves the others where they are.
LEMMA OthersStay ==
  ASSUME TP!NonceInv, NEW t \in Tasks, NEW u \in Tasks, u # t, TP!Step(u)
  PROVE  taskPc'[t] = taskPc[t]
  BY DEF TP!Step, TP!Start, TP!AcquireSemaphore, TP!AcquireLock, TP!Build, TP!Sent, TP!NotSent,
         TP!AfterSend, TP!Receipt, TP!Reset, TP!ResetFails, TP!Goto,
         TP!NonceInv, TP!TypeOK, TP!TasksOK

\* While one task is in doubt, no other moves the nonce or the lock.
LEMMA DoubtStays ==
  ASSUME TP!NonceInv, NEW t \in Tasks, InDoubt(t), NEW u \in Tasks, u # t, TP!Step(u)
  PROVE  InDoubt(t)'
<1>1. owner = t /\ depth > 0 /\ t # NoTask
  BY TaskAssumptions DEF InDoubt, TP!GuardAssumption
<1>2. taskPc[u] \notin {"build", "send", "reset"}
  BY <1>1 DEF TP!NonceInv, TP!OneAtATime
<1>3. CASE TP!Start(u) \/ TP!AfterSend(u) \/ TP!Receipt(u)
  BY <1>3 DEF TP!Start, TP!AfterSend, TP!Receipt, TP!Goto, TP!guardVars, TP!accountVars, InDoubt,
              TP!TransactionCount, TP!NonceInv, TP!TypeOK, TP!TasksOK
<1>4. CASE TP!AcquireSemaphore(u)
  BY <1>4 DEF TP!AcquireSemaphore, TP!TakePermit, TP!Goto, TP!accountVars, InDoubt,
              TP!TransactionCount, TP!NonceInv, TP!TypeOK, TP!TasksOK
<1>5. CASE TP!AcquireLock(u)
  BY <1>1, <1>5 DEF TP!AcquireLock, TP!TakeLock
<1>6. QED
  BY <1>2, <1>3, <1>4, <1>5
     DEF TP!Step, TP!Build, TP!Sent, TP!NotSent, TP!Reset, TP!ResetFails

\* A task that goes on trying after its transaction is at the node is in doubt.
LEMMA ComesToDoubt ==
  ASSUME TP!NonceInv, NEW t \in Tasks, TP!Step(t), taskPc'[t] \in Retries,
         taskPc[t] \in Retries /\ UNCHANGED accountVars => InDoubt(t)
  PROVE  InDoubt(t)'
<1>0. taskPc \in [Tasks -> TP!Locations] /\ depth \in Nat
  BY DEF TP!NonceInv, TP!TypeOK, TP!TasksOK, TP!SharedOK
<1>1. CASE TP!Start(t) \/ TP!Build(t)
  BY <1>0, <1>1 DEF TP!Start, TP!Build, Retries, InDoubt, TP!guardVars, TP!accountVars,
                    accountVars, TP!TransactionCount
<1>2. CASE TP!AcquireSemaphore(t)
  <2>1. taskPc[t] \in Retries
    BY <1>0, <1>2 DEF TP!AcquireSemaphore, TP!Goto, Retries
  <2>2. QED
    BY <1>2, <2>1 DEF TP!AcquireSemaphore, TP!TakePermit, InDoubt, TP!accountVars, accountVars,
                      TP!TransactionCount
<1>3. CASE TP!AcquireLock(t)
  <2>1. taskPc[t] \in Retries
    BY <1>0, <1>3 DEF TP!AcquireLock, TP!Goto, Retries
  <2>2. QED
    BY <1>0, <1>3, <2>1 DEF TP!AcquireLock, TP!TakeLock, InDoubt, TP!accountVars, accountVars,
                            TP!TransactionCount
<1>4. CASE TP!NotSent(t)
  <2>1. owner = t /\ depth > 0 /\ used[t] = nonce /\ taskPc[t] \in Retries
    BY <1>4 DEF TP!NotSent, TP!NonceInv, TP!OneAtATime, TP!SendsSharedNonce, Retries
  <2>2. UNCHANGED <<owner, depth, nonce>>
    BY <1>4 DEF TP!NotSent, TP!LeaveByException, TP!guardVars
  <2>3. CASE UNCHANGED accountVars
    BY <2>1, <2>2, <2>3 DEF InDoubt, accountVars, TP!TransactionCount
  <2>4. CASE TP!Submit(used[t], TP!Transaction(t))
    <3>1. nonce \in DOMAIN pool'
      BY <2>1, <2>4 DEF TP!Submit
    <3>2. QED
      BY <2>1, <2>2, <3>1 DEF InDoubt
  <2>5. QED
    BY <1>4, <2>3, <2>4 DEF TP!NotSent, TP!SendFails, TP!accountVars, accountVars
<1>5. CASE TP!Sent(t) \/ TP!AfterSend(t) \/ TP!Receipt(t) \/ TP!Reset(t) \/ TP!ResetFails(t)
  <2>1. taskPc'[t] \notin Retries
    BY <1>0, <1>5 DEF TP!Sent, TP!AfterSend, TP!Receipt, TP!Reset, TP!ResetFails, TP!Goto, Retries
  <2>2. QED
    BY <2>1
<1>6. QED
  BY <1>1, <1>2, <1>3, <1>4, <1>5 DEF TP!Step

\* What is mined leaves a task in doubt there.
LEMMA DoubtMined ==
  ASSUME TP!NonceInv, NEW t \in Tasks, InDoubt(t), T!MineNext
  PROVE  InDoubt(t)'
<1>1. PICK ok \in BOOLEAN : TP!Mine(ok)
  BY SameSteps DEF TP!MineNext
<1>2. /\ TP!TransactionCount' = TP!TransactionCount + 1
      /\ DOMAIN pool' = DOMAIN pool \ {TP!TransactionCount}
      /\ TP!TransactionCount \in Nat /\ nonce \in Nat
  BY <1>1, TaskAssumptions, TP!Mined, TP!CountNat DEF TP!NonceInv, TP!TypeOK, TP!SharedOK
<1>3. UNCHANGED <<nonce, owner, depth>>
  BY DEF T!MineNext, T!guardVars
<1>4. QED
  BY <1>2, <1>3 DEF InDoubt

\* In the beginning nothing is sent.
LEMMA SentNothing ==
  ASSUME ForceInit
  PROVE  /\ TP!Init /\ mined = <<>> /\ DOMAIN pool = {}
         /\ SentInOrder = <<>>
<1>1. TP!Init
  BY DEF ForceInit, T!Init, T!AccountInit, T!GuardInit, T!TransactionCount,
         TP!Init, TP!AccountInit, TP!GuardInit, TP!TransactionCount
<1>2. mined = <<>> /\ DOMAIN pool = {}
  BY <1>1 DEF TP!Init, TP!AccountInit
<1>3. TP!PoolUpTo(0) /\ TP!NonceInv
  BY <1>1, <1>2, TaskAssumptions, TP!NonceInvInit DEF TP!PoolUpTo, TP!TransactionCount
<1>4. SentInOrder \in Seq(Targets) /\ Len(SentInOrder) = 0
  BY <1>3, OrderIs DEF InOrder, OrderUpTo
<1>5. QED
  BY <1>1, <1>2, <1>4, EmptySeq

LEMMA OnceInit == ForceInit => OnceInv
<1> SUFFICES ASSUME ForceInit PROVE OnceInv
  OBVIOUS
<1>1. TP!PoolInv
  BY TaskAssumptions, SentNothing, TP!PoolInvInit
<1>2. PendingEpochs = {} /\ pending = {} /\ picked = {} /\ DOMAIN batches = {} /\ pc = "down"
  BY DEF ForceInit, Init, PendingEpochs
<1>3. Forward
  BY <1>2 DEF Forward
<1>4. \A g \in Targets : ~SentFor(g)
  BY SentNothing DEF SentFor
<1>5. DOMAIN SentInOrder = {} /\ Running = {}
  BY <1>2, SentNothing DEF Running
<1>6. Once
  BY <1>4, <1>5 DEF Once
<1>7. QED
  BY <1>1, <1>3, <1>6 DEF OnceInv, ForwardInv

\* The tasks of a batch are about epochs that were picked.
LEMMA RunningPicked ==
  ASSUME Forward, NEW t \in Running
  PROVE  t \in Tasks /\ About[t][1] \in picked
<1>1. t \in Tasks /\ t[1][2] \in picked
  BY DEF Running, TasksOf, Forward
<1>2. QED
  BY <1>1, AboutFact

\* No two of them are about the same.
LEMMA RunningApart ==
  ASSUME Forward, NEW t \in Running, NEW u \in Running, About[t] = About[u]
  PROVE  t = u
<1>1. t \in Tasks /\ u \in Tasks
  BY DEF Running, TasksOf
<1>2. t[1][2] = u[1][2] /\ t[2] = u[2]
  BY <1>1, AboutFact
<1>3. t[1] = u[1]
  <2>1. PICK i \in DOMAIN batches : t[1] \in DOMAIN batches[i].forces
    BY DEF Running, TasksOf
  <2>2. PICK j \in DOMAIN batches : u[1] \in DOMAIN batches[j].forces
    BY DEF Running, TasksOf
  <2>3. QED
    BY <1>2, <2>1, <2>2 DEF Forward
<1>4. QED
  BY <1>1, <1>2, <1>3 DEF Tasks

LEMMA OnceStep == ServiceInv /\ DetectorInv /\ OnceInv /\ [ForceNext]_allVars => OnceInv'
<1> SUFFICES ASSUME ServiceInv, DetectorInv, OnceInv, [ForceNext]_allVars PROVE OnceInv'
  OBVIOUS
<1>0. /\ TP!NonceInv /\ DownIsQuiet /\ ChainInv /\ TypeInv /\ TP!PoolInv /\ ForwardInv
      /\ [Next]_vars
  BY DetectorMoves DEF ServiceInv, DetectorInv, OnceInv
<1>1. TP!PoolInv' /\ ForwardInv'
  BY <1>0, SendsOrNot, ForwardStep
<1> SUFFICES ASSUME ~Disturbed' PROVE Once'
  BY <1>1 DEF OnceInv
<1>2. Forward /\ Once /\ ~Crash /\ \A kind : ~Fault(kind)
  BY <1>0, StillUp DEF OnceInv, ForwardInv
<1>3. \A g \in Targets : SentFor(g)' => g[1] \in picked'
  <2>1. picked \subseteq picked'
    BY <1>0, <1>2 DEF Next, Run, Setup, Poll, Handle, FetchFails, ForceDue, Save, EndBatch,
                      EndBatchAt, NewBlock, Tick, vars, history
  <2>2. ASSUME NEW g \in Targets, SentFor(g)' PROVE g[1] \in picked
    <3>1. CASE SentFor(g)
      BY <1>2, <3>1 DEF Once
    <3>2. ASSUME NEW t \in Tasks, Sends(t), About[t] = g PROVE g[1] \in picked
      BY <1>2, <3>2, RunningPicked DEF Sends, TaskStep
    <3>3. QED
      BY <1>0, <2>2, <3>1, <3>2, NewlySent
  <2>3. QED
    BY <2>1, <2>2
<1>4. \A i, j \in DOMAIN SentInOrder' : SentInOrder'[i] = SentInOrder'[j] => i = j
  <2>1. CASE SentInOrder' = SentInOrder
    BY <1>2, <2>1 DEF Once
  <2>2. ASSUME NEW t \in Tasks, Sends(t)
        PROVE  \A i, j \in DOMAIN SentInOrder' : SentInOrder'[i] = SentInOrder'[j] => i = j
    <3> PICK g \in Targets : g = About[t]
      BY AboutFact
    <3>1. g \notin Range(SentInOrder)
      BY <1>0, <1>2, <2>2, NotSentYet, SentIsListed DEF SentAreListed
    <3>2. SentInOrder \in Seq(Targets) /\ SentInOrder' = Append(SentInOrder, g)
      BY <1>0, <2>2, OrderIs DEF InOrder, OrderUpTo, TP!PoolInv, Sends
    <3> DEFINE s == SentInOrder
    <3>3. \A i, j \in DOMAIN s : s[i] = s[j] => i = j
      BY <1>2 DEF Once
    <3>4. \A i \in DOMAIN s : s[i] # g
      BY <3>1 DEF Range
    <3> HIDE DEF s
    <3>5. \A i, j \in DOMAIN Append(s, g) : Append(s, g)[i] = Append(s, g)[j] => i = j
      BY <3>2, <3>3, <3>4 DEF s
    <3>6. QED
      BY <3>2, <3>5 DEF s
  <2>3. QED
    BY <1>0, <2>1, <2>2, SendsOrNot
<1>5. ASSUME NEW t \in Running', taskPc'[t] \in Retries, SentFor(About[t])' PROVE InDoubt(t)'
  <2>0. t \in Tasks
    BY DEF Running, TasksOf, Tasks, Entries, Epochs
  <2> About' = About
    BY DEF About, Tasks, Entries, Epochs
  <2>1. ASSUME UNCHANGED <<taskPc, nonce, guardVars, accountVars>>, t \in Running PROVE InDoubt(t)'
    <3>1. SentFor(About[t])
      BY <1>5, <2>1 DEF SentFor, accountVars
    <3>2. InDoubt(t)
      BY <1>2, <1>5, <2>1, <3>1 DEF Once
    <3>3. QED
      BY <2>1, <3>2 DEF InDoubt, guardVars, accountVars, TP!TransactionCount
  <2>2. CASE DetectorStep
    <3>1. Run /\ UNCHANGED accountVars /\ ~Exit
      BY <1>2, <2>2 DEF DetectorStep, Run, Setup, Poll, Handle, FetchFails, ForceDue, Save, Exit
    <3>2. CASE pc = "down"
      <4>1. batches' = <<>>
        BY <1>0, <3>1, <3>2
           DEF DownIsQuiet, Run, Setup, Poll, Handle, FetchFails, ForceDue, Save, memoryVars
      <4>2. QED
        BY <4>1 DEF Running
    <3>3. CASE pc # "down"
      <4>1. pc' # "down"
        BY <1>2, <3>1, <3>3 DEF Run, Setup, Poll, Handle, FetchFails, ForceDue, Save
      <4>2. UNCHANGED <<taskPc, nonce, guardVars, accountVars>>
        BY <2>2, <3>3, <4>1 DEF DetectorStep, taskVars
      <4>3. ASSUME t \notin Running PROVE FALSE
        <5>1. PICK i \in DOMAIN batches' : t \in TasksOf(i)'
          BY DEF Running
        <5>2. batches' # batches
          BY <4>3, <5>1 DEF Running, TasksOf
        <5>3. ForceDue
          BY <1>2, <3>1, <5>2 DEF Run, Setup, Poll, Handle, FetchFails, Save, memoryVars
        <5>4. PICK e \in DueEpochs :
                batches' = Append(batches, [forces |-> [x \in Due |-> Open(x[2])], last |-> e])
          BY <5>2, <5>3 DEF ForceDue
        <5>5. t[1] \in Due
          <6>1. /\ batches \in Seq(Batch) /\ DOMAIN batches' = 1 .. Len(batches) + 1
                /\ \A k \in 1 .. Len(batches) : batches'[k] = batches[k]
                /\ DOMAIN batches'[Len(batches) + 1].forces = Due
            BY <1>0, <5>4, BatchTypes, AppendProperties, LenProperties DEF TypeInv
          <6>2. DOMAIN batches = 1 .. Len(batches) /\ Len(batches) \in Nat
            BY <6>1, LenProperties
          <6>3. CASE i \in 1 .. Len(batches)
            BY <4>3, <5>1, <6>1, <6>2, <6>3 DEF Running, TasksOf
          <6>4. CASE i = Len(batches) + 1
            BY <5>1, <6>1, <6>4 DEF TasksOf
          <6>5. QED
            BY <6>1, <6>2, <6>3, <6>4
        <5>6. t[1][2] \in PendingEpochs
          BY <5>5 DEF Due, PendingEpochs
        <5>7. SentFor(About[t])
          BY <1>5, <3>1 DEF SentFor, accountVars
        <5>8. t[1][2] \in picked
          BY <1>2, <2>0, <5>7, AboutFact DEF Once
        <5>9. QED
          BY <1>2, <5>6, <5>8 DEF Forward
      <4>4. QED
        BY <2>1, <4>2, <4>3
    <3>4. QED
      BY <3>2, <3>3
  <2>3. CASE EndOfBatch
    <3> PICK i \in DOMAIN batches : EndBatchAt(i) /\ Forget(TasksOf(i))
      BY <2>3 DEF EndOfBatch
    <3>1. PICK k \in DOMAIN batches : k # i /\ t \in TasksOf(k)
      <4>1. PICK j \in DOMAIN batches' : t \in TasksOf(j)'
        BY DEF Running
      <4>2. batches \in Seq(Batch) /\ batches' = RemoveAt(batches, i)
        BY <1>0 DEF EndBatchAt, TypeInv
      <4>3. /\ j < i => j \in DOMAIN batches /\ batches'[j] = batches[j]
            /\ j >= i => j + 1 \in DOMAIN batches /\ batches'[j] = batches[j + 1]
        BY <4>2, TakenOut
      <4>4. j \in Int /\ i \in Int
        BY <4>2, TakenOut, LenProperties
      <4>5. PICK k \in DOMAIN batches : k # i /\ batches'[j] = batches[k]
        BY <4>3, <4>4
      <4>6. QED
        BY <4>1, <4>5 DEF TasksOf, Tasks, Entries, Epochs
    <3>2. t \notin TasksOf(i)
      BY <1>2, <3>1 DEF Forward, TasksOf
    <3>3. taskPc'[t] = taskPc[t]
      BY <2>0, <3>2 DEF Forget
    <3>4. t \in Running /\ SentFor(About[t])
      BY <1>5, <2>3, <3>1 DEF Running, EndOfBatch, SentFor, accountVars
    <3>5. InDoubt(t)
      BY <1>2, <1>5, <3>3, <3>4 DEF Once
    <3>6. QED
      BY <2>3, <3>5 DEF EndOfBatch, InDoubt, guardVars, accountVars, TP!TransactionCount
  <2>4. CASE Chain
    <3>1. CASE (NewBlock \/ Tick) /\ UNCHANGED serviceVars
      <4>1. t \in Running
        BY <3>1 DEF NewBlock, Tick, memoryVars, Running, TasksOf, Tasks, Entries, Epochs
      <4>2. QED
        BY <2>1, <3>1, <4>1 DEF serviceVars, taskVars
    <3>2. CASE T!MineNext /\ UNCHANGED <<detectorVars, rewound>>
      <4>1. t \in Running /\ taskPc'[t] = taskPc[t]
        BY <3>2 DEF detectorVars, vars, memoryVars, Running, TasksOf, Tasks, Entries, Epochs, T!MineNext,
                    T!taskVars
      <4>2. SentFor(About[t])
        BY <1>5, <2>0, <3>2, SentBefore, AboutFact
      <4>3. InDoubt(t)
        BY <1>2, <1>5, <4>1, <4>2 DEF Once
      <4>4. QED
        BY <1>0, <2>0, <3>2, <4>3, DoubtMined
    <3>3. QED
      BY <2>4, <3>1, <3>2 DEF Chain
  <2>5. ASSUME NEW u \in Tasks, TaskStep(u) PROVE InDoubt(t)'
    <3>1. TP!Step(u) /\ T!Step(u) /\ t \in Running
      BY <2>5, SameSteps
         DEF TaskStep, detectorVars, vars, memoryVars, Running, TasksOf, Tasks, Entries, Epochs
    <3>2. CASE u # t
      <4>1. SentFor(About[t])
        <5>1. u \in Running
          BY <2>5 DEF TaskStep
        <5>2. About[u] # About[t]
          BY <1>2, <3>1, <3>2, <5>1, RunningApart
        <5>3. QED
          BY <1>5, <2>0, <3>1, <5>2, SentByStep, AboutFact
      <4>2. taskPc'[t] = taskPc[t]
        BY <1>0, <2>0, <3>1, <3>2, OthersStay
      <4>3. InDoubt(t)
        BY <1>2, <1>5, <3>1, <4>1, <4>2 DEF Once
      <4>4. QED
        BY <1>0, <2>0, <3>1, <3>2, <4>3, DoubtStays
    <3>3. CASE u = t
      <4>1. ASSUME taskPc[t] \in Retries, UNCHANGED accountVars PROVE InDoubt(t)
        <5>1. SentFor(About[t])
          BY <1>5, <4>1 DEF SentFor, accountVars
        <5>2. QED
          BY <1>2, <3>1, <4>1, <5>1 DEF Once
      <4>2. QED
        BY <1>0, <1>5, <2>0, <3>1, <3>3, <4>1, ComesToDoubt
    <3>4. QED
      BY <3>2, <3>3
  <2>6. CASE UNCHANGED allVars
    <3>1. t \in Running
      BY <2>6 DEF allVars, detectorVars, vars, memoryVars, Running, TasksOf, Tasks, Entries, Epochs
    <3>2. QED
      BY <2>1, <2>6, <3>1 DEF allVars, serviceVars, taskVars
  <2>7. QED
    BY <1>2, <2>2, <2>3, <2>4, <2>5, <2>6 DEF ForceNext, ServiceCrash
<1>6. QED
  BY <1>3, <1>4, <1>5 DEF Once

-----------------------------------------------------------------------------
(* The theorems about what is sent.                                        *)

\* The invariants of the service, together.
LEMMA ForceInvariance == ForceSpec => [](ServiceInv /\ DetectorInv /\ OnceInv /\ ExpiryInv)
<1>1. ForceInit => ServiceInv /\ ExpiryInv /\ OnceInv
  BY ServiceInit, ExpiryInit, OnceInit
<1>2. ExpiryInv => DetectorInv
  BY DEF ExpiryInv
<1>3. QED
  BY <1>1, <1>2, ServiceStep, ExpiryStep, OnceStep, PTL DEF ForceSpec

\* Through all batches and restarts the nonce is used by one task at a time and
\* leaves no gap, and no pending transaction waits behind a nonce nobody has.
THEOREM NonceStaysWhole == ForceSpec => []NonceKept
<1>1. ServiceInv /\ OnceInv => NonceKept
  <2> SUFFICES ASSUME ServiceInv, OnceInv PROVE NonceKept
    OBVIOUS
  <2>1. T!OneAtATime /\ T!NoGap
    BY DEF ServiceInv, TP!NonceInv, TP!OneAtATime, T!OneAtATime, TP!NoGap, T!NoGap,
           TP!TransactionCount, T!TransactionCount
  <2>2. TP!PoolWhole
    BY TaskAssumptions, TP!PoolSize
       DEF ServiceInv, OnceInv, TP!NonceInv, TP!TypeOK, TP!PoolInv
  <2>3. T!PoolWhole
    BY <2>2, Zenon DEF TP!PoolWhole, T!PoolWhole, TP!TransactionCount, T!TransactionCount,
                       TP!Cardinality, T!Cardinality
  <2>4. QED
    BY <2>1, <2>3 DEF NonceKept
<1>2. QED
  BY <1>1, ForceInvariance, PTL

\* No project is forced by two transactions until the detector fails, restarts, or is
\* taken back by a node that is behind its last block: not when an answer gets lost
\* and the task sends again, not when batches overlap, not when blocks are passed over,
\* not when the node asked for the head lags without taking it back.
THEOREM ForcesOnce == ForceSpec => []ForcedOnce
<1>1. ServiceInv /\ OnceInv => ForcedOnce
  <2> SUFFICES ASSUME ServiceInv, OnceInv, ~Disturbed, NEW g \in Targets
               PROVE  Cardinality({n \in DOMAIN pool : pool[n].about = g})
                        + Cardinality({i \in DOMAIN mined : mined[i].tx.about = g}) <= 1
    BY DEF ForcedOnce
  <2> DEFINE P == {n \in DOMAIN pool : pool[n].about = g}
             M == {i \in DOMAIN mined : mined[i].tx.about = g}
  <2>1. PICK k \in Nat : TP!PoolUpTo(k)
    BY DEF OnceInv, TP!PoolInv
  <2>2. /\ SentInOrder = [i \in 1 .. k |-> IF i <= Len(mined) THEN mined[i].tx.about
                                                              ELSE pool[i - 1].about]
        /\ Len(mined) \in 0 .. k /\ DOMAIN pool = Len(mined) .. k - 1
        /\ DOMAIN mined = 1 .. Len(mined)
    BY <2>1, OrderIs DEF InOrder, OrderUpTo, ServiceInv
  <2>3. \A n \in P : n + 1 \in 1 .. k /\ n + 1 > Len(mined) /\ SentInOrder[n + 1] = g
    <3> SUFFICES ASSUME NEW n \in P
                 PROVE  n + 1 \in 1 .. k /\ n + 1 > Len(mined) /\ SentInOrder[n + 1] = g
      OBVIOUS
    <3>1. n + 1 \in 1 .. k /\ n + 1 > Len(mined) /\ (n + 1) - 1 = n /\ ~(n + 1 <= Len(mined))
      BY <2>2
    <3>2. QED
      BY <2>2, <3>1
  <2>4. \A i \in M : i \in 1 .. k /\ i <= Len(mined) /\ SentInOrder[i] = g
    BY <2>2
  <2>5. \A i, j \in 1 .. k : SentInOrder[i] = g /\ SentInOrder[j] = g => i = j
    BY <2>2 DEF OnceInv, Once
  <2>6. /\ P \subseteq Int /\ M \subseteq Int
        /\ \A m, n \in P : m = n
        /\ \A i, j \in M : i = j
        /\ P = {} \/ M = {}
    <3>1. P \subseteq Int /\ M \subseteq Int
      BY <2>2
    <3>2. \A m, n \in P : m = n
      <4> SUFFICES ASSUME NEW m \in P, NEW n \in P PROVE m = n
        OBVIOUS
      <4>1. m + 1 = n + 1
        BY <2>3, <2>5
      <4>2. QED
        BY <3>1, <4>1
    <3>3. \A i, j \in M : i = j
      BY <2>4, <2>5
    <3>4. ASSUME NEW n \in P, NEW i \in M PROVE FALSE
      <4>1. n + 1 = i
        BY <2>3, <2>4, <2>5
      <4>2. QED
        BY <2>2, <2>3, <2>4, <4>1
    <3>5. QED
      BY <3>1, <3>2, <3>3, <3>4
  <2> HIDE DEF P, M
  <2>7. ASSUME NEW S, \A x, y \in S : x = y
        PROVE  Cardinality(S) \in {0, 1} /\ (S = {} => Cardinality(S) = 0)
    <3>1. CASE S = {}
      BY <3>1, FS_EmptySet
    <3>2. ASSUME NEW x \in S PROVE Cardinality(S) = 1
      <4>1. S = {x}
        BY <2>7, <3>2
      <4>2. QED
        BY <4>1, FS_Singleton
    <3>3. QED
      BY <3>1, <3>2
  <2>8. Cardinality(P) + Cardinality(M) <= 1
    <3>1. Cardinality(P) \in {0, 1} /\ (P = {} => Cardinality(P) = 0)
      BY <2>6, <2>7
    <3>2. Cardinality(M) \in {0, 1} /\ (M = {} => Cardinality(M) = 0)
      BY <2>6, <2>7
    <3>3. QED
      BY <2>6, <3>1, <3>2
  <2>9. QED
    BY <2>8 DEF P, M
<1>2. QED
  BY <1>1, ForceInvariance, PTL

\* The service, with its batches, tasks and retries, keeps the promise of ForceLedger:
\* its account is a ledger that only grows, each entry about a project of an epoch that
\* may be forced by then, none twice until the detector fails, restarts, or is taken
\* back by a node that is behind its last block.
THEOREM ImplementsPromise == ForceSpec => KeepsPromise
<1>1. ForceInit => Promise!ForcingInit
  <2> SUFFICES ASSUME ForceInit PROVE Promise!ForcingInit
    OBVIOUS
  <2>1. Forcible = {}
    BY DEF ForceInit, Init, Forcible, ReleasedIn, Logged, NoEvent, Height
  <2>2. SentInOrder = <<>>
    BY SentNothing
  <2>3. Disturbed = FALSE
    BY DEF ForceInit, Init, Disturbed
  <2>4. QED
    BY <2>1, <2>2, <2>3 DEF Promise!ForcingInit
<1>2. ServiceInv /\ DetectorInv /\ OnceInv /\ ExpiryInv /\ [ForceNext]_allVars
        => [Promise!ForcingNext]_<<Forcible, SentInOrder, Disturbed>>
  <2> SUFFICES ASSUME ServiceInv, DetectorInv, OnceInv, ExpiryInv, [ForceNext]_allVars
               PROVE  Promise!ForcingNext
    OBVIOUS
  <2>1. [Next]_vars /\ TypeInv
    BY DetectorMoves DEF DetectorInv
  <2>2. Disturbed => Disturbed'
    BY <2>1, StillUp
  <2>3. CASE SentInOrder' = SentInOrder
    <3>1. Forcible \subseteq Forcible' /\ Forcible' \subseteq Targets
      <4>1. Forcible \subseteq Forcible'
        BY <2>1, ForcibleGrows DEF DetectorInv
      <4>2. QED
        BY <4>1 DEF Forcible, Targets, Epochs
    <3>2. QED
      BY <2>2, <2>3, <3>1 DEF Promise!ForcingNext, Promise!Expire
  <2>4. ASSUME NEW t \in Tasks, Sends(t) PROVE Promise!ForcingNext
    <3> PICK g \in Targets : g = About[t]
      BY AboutFact
    <3>1. t \in Running /\ UNCHANGED detectorVars /\ SentInOrder' = Append(SentInOrder, g)
      BY <2>4 DEF Sends, TaskStep
    <3>2. g \in Forcible
      BY <3>1 DEF ExpiryInv, Running
    <3>3. Forcible' = Forcible
      BY <3>1 DEF detectorVars, vars, chainVars, Forcible, ReleaseTime, ReleasedIn, SubmittedIn,
                  Logged, Height
    <3>4. Disturbed \/ g \notin Range(SentInOrder)
      <4> SUFFICES ASSUME ~Disturbed PROVE g \notin Range(SentInOrder)
        OBVIOUS
      <4>1. ~SentFor(g)
        BY <2>4, NotSentYet DEF OnceInv, ServiceInv
      <4>2. QED
        BY <4>1, SentIsListed DEF SentAreListed, OnceInv, ServiceInv
    <3>5. Promise!Force(g)
      <4>1. SentInOrder' = Append(SentInOrder, g) /\ UNCHANGED Forcible
        BY <3>1, <3>3
      <4>2. Disturbed' \/ g \notin Range(SentInOrder)
        BY <2>2, <3>4
      <4>3. QED
        BY <3>2, <4>1, <4>2 DEF Promise!Force, Promise!Range, Range
    <3>6. QED
      BY <2>2, <3>5 DEF Promise!ForcingNext
  <2>5. QED
    BY <2>3, <2>4, SendsOrNot DEF OnceInv
<1>3. QED
  BY <1>1, <1>2, ForceInvariance, PTL DEF ForceSpec, KeepsPromise, Promise!ForcingSpec
=============================================================================
