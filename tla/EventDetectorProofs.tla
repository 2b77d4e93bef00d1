------------------------ MODULE EventDetectorProofs ------------------------
(***************************************************************************)
(* What EventDetector guarantees for every value of its constants.         *)
(***************************************************************************)
EXTENDS EventDetector, FiniteSetTheorems, SequenceTheorems, TLAPS

-----------------------------------------------------------------------------
(* The anchor chain.                                                       *)

Block ==
  {NoEvent}
  \cup [kind : {"released"}, epoch : Epochs, project : {0}, time : Nat]
  \cup [kind : {"submitted", "finalized"}, epoch : Epochs, project : Projects, time : {0}]

IsRelease(b, e) == chain[b].kind = "released" /\ chain[b].epoch = e

\* An epoch is released once, before anything is submitted for it.
ChainInv ==
  /\ chain \in Seq(Block) /\ Height >= 1 /\ clock \in Nat
  /\ chain[1] = NoEvent
  /\ \A b \in 1 .. Height : chain[b].time <= clock
  /\ \A b, d \in 1 .. Height, e \in Epochs : IsRelease(b, e) /\ IsRelease(d, e) => b = d
  /\ \A b \in 1 .. Height :
       chain[b].kind \in {"submitted", "finalized"} =>
         \E d \in 1 .. b - 1 : IsRelease(d, chain[b].epoch)
  /\ \E k \in 0 .. MaxEpoch : ReleasedIn(1 .. Height) = 1 .. k

\* The first block has no event.
LEMMA ChainStart == Init => ChainInv
<1> SUFFICES ASSUME Init PROVE ChainInv
  OBVIOUS
<1>1. chain = <<NoEvent>> /\ clock = 0
  BY DEF Init
<1>2. NoEvent \in Block
  BY DEF NoEvent, Block
<1>3. Height = 1 /\ chain[1] = NoEvent /\ chain \in Seq(Block)
  BY <1>1, <1>2 DEF Height
<1>4. \A b \in 1 .. Height : b = 1 /\ chain[b].kind = "none" /\ chain[b].time = 0
  BY <1>3 DEF NoEvent
<1>5. ReleasedIn(1 .. Height) = {}
  BY <1>4 DEF ReleasedIn, Logged
<1>6. 0 \in 0 .. MaxEpoch /\ 1 .. 0 = {}
  BY DetectorAssumption
<1>7. \E k \in 0 .. MaxEpoch : ReleasedIn(1 .. Height) = 1 .. k
  BY <1>5, <1>6
<1>8. \A b \in 1 .. Height : /\ chain[b].time <= clock
                             /\ \A e \in Epochs : ~IsRelease(b, e)
                             /\ chain[b].kind \notin {"submitted", "finalized"}
  BY <1>1, <1>4 DEF IsRelease
<1>9. clock \in Nat /\ Height >= 1
  BY <1>1, <1>3
<1>10. QED
  BY <1>3, <1>7, <1>8, <1>9 DEF ChainInv

\* What a set of blocks says, in terms of the blocks.
LEMMA Says ==
  ASSUME ChainInv, NEW B \in SUBSET (1 .. Height), NEW e \in Epochs
  PROVE  /\ e \in ReleasedIn(B) <=> \E b \in B : IsRelease(b, e)
         /\ SubmittedIn(B, e) =
              {chain[b].project : b \in {x \in B : chain[x].kind = "submitted"
                                                   /\ chain[x].epoch = e}}
         /\ FinalizedIn(B, e) =
              {chain[b].project : b \in {x \in B : chain[x].kind = "finalized"
                                                   /\ chain[x].epoch = e}}
<1>1. DOMAIN chain = 1 .. Height
  BY DEF ChainInv, Height
<1>2. B \cap DOMAIN chain = B
  BY <1>1
<1>3. QED
  BY <1>2 DEF ReleasedIn, SubmittedIn, FinalizedIn, Logged, IsRelease

\* An event of the contract, as a block.
LEMMA EventFact ==
  ASSUME ChainInv, NEW ev \in Event
  PROVE  /\ ev \in Block /\ ev.time <= clock
         /\ ev.kind = "released" => ev.epoch = Cardinality(ReleasedIn(1 .. Height)) + 1
                                    /\ ev.epoch \in Epochs
         /\ ev.kind \in {"submitted", "finalized"} => ev.epoch \in ReleasedIn(1 .. Height)
<1>1. clock \in Nat /\ Epochs \subseteq Nat
  BY DEF ChainInv, Epochs
<1>2. CASE ev = NoEvent
  BY <1>1, <1>2 DEF NoEvent, Block
<1>3. CASE \E e \in {Cardinality(ReleasedIn(1 .. Height)) + 1} \cap Epochs :
             ev = [kind |-> "released", epoch |-> e, project |-> 0, time |-> clock]
  BY <1>1, <1>3 DEF Block
<1>4. CASE \E e \in ReleasedIn(1 .. Height), p \in Projects :
             ev = [kind |-> "submitted", epoch |-> e, project |-> p, time |-> 0]
  BY <1>1, <1>4 DEF Block, ReleasedIn
<1>5. CASE \E e \in ReleasedIn(1 .. Height) : \E p \in SubmittedIn(1 .. Height, e) :
             ev = [kind |-> "finalized", epoch |-> e, project |-> p, time |-> 0]
  <2> PICK e \in ReleasedIn(1 .. Height) : \E p \in SubmittedIn(1 .. Height, e) :
             ev = [kind |-> "finalized", epoch |-> e, project |-> p, time |-> 0]
    BY <1>5
  <2> PICK p \in SubmittedIn(1 .. Height, e) :
             ev = [kind |-> "finalized", epoch |-> e, project |-> p, time |-> 0]
    OBVIOUS
  <2>1. p \in Projects
    <3>1. PICK b \in DOMAIN chain : p = chain[b].project /\ chain[b].kind = "submitted"
      BY DEF SubmittedIn, Logged
    <3>2. chain[b] \in Block
      BY <3>1, ElementOfSeq DEF ChainInv
    <3>3. QED
      BY <3>1, <3>2 DEF Block, NoEvent
  <2>2. QED
    BY <1>1, <2>1 DEF Block, ReleasedIn
<1>6. QED
  BY <1>2, <1>3, <1>4, <1>5 DEF Event

\* A new block adds to the chain and changes nothing before it.
LEMMA NewBlockFact ==
  ASSUME ChainInv, NewBlock
  PROVE  \E ev \in Event :
           /\ chain' = Append(chain, ev) /\ chain' \in Seq(Block)
           /\ Height' = Height + 1 /\ chain'[Height + 1] = ev
           /\ \A b \in 1 .. Height : chain'[b] = chain[b]
<1> PICK ev \in Event : chain' = Append(chain, ev)
  BY DEF NewBlock
<1>1. ev \in Block /\ chain \in Seq(Block)
  BY EventFact DEF ChainInv
<1>2. QED
  BY <1>1, AppendProperties DEF Height

\* An epoch is released by a new block only if it was not before.
LEMMA NewRelease ==
  ASSUME ChainInv, NEW ev \in Event, ev.kind = "released"
  PROVE  /\ ev.epoch \notin ReleasedIn(1 .. Height)
         /\ \E k \in 0 .. MaxEpoch : ReleasedIn(1 .. Height) \cup {ev.epoch} = 1 .. k
<1> PICK k \in 0 .. MaxEpoch : ReleasedIn(1 .. Height) = 1 .. k
  BY DEF ChainInv
<1>1. k \in Nat /\ MaxEpoch \in Nat
  BY DetectorAssumption
<1>2. Cardinality(1 .. k) = k
  BY <1>1, FS_Interval
<1>3. ev.epoch = k + 1 /\ ev.epoch \in 1 .. MaxEpoch
  BY <1>2, EventFact DEF Epochs
<1>4. (1 .. k) \cup {k + 1} = 1 .. (k + 1) /\ k + 1 \in 0 .. MaxEpoch /\ k + 1 \notin 1 .. k
  BY <1>1, <1>3
<1>5. QED
  BY <1>3, <1>4

\* The chain keeps its order.
LEMMA ChainStep == ChainInv /\ [Next]_vars => ChainInv'
<1> SUFFICES ASSUME ChainInv, [Next]_vars PROVE ChainInv'
  OBVIOUS
<1>0. chain \in Seq(Block) /\ Height \in Nat /\ Height >= 1 /\ clock \in Nat
  BY LenProperties DEF ChainInv, Height
<1>1. CASE NewBlock
  <2> PICK ev \in Event :
           /\ chain' = Append(chain, ev) /\ chain' \in Seq(Block)
           /\ Height' = Height + 1 /\ chain'[Height + 1] = ev
           /\ \A b \in 1 .. Height : chain'[b] = chain[b]
    BY <1>1, NewBlockFact
  <2>1. clock' = clock
    BY <1>1 DEF NewBlock
  <2>2. /\ ev \in Block /\ ev.time <= clock
        /\ ev.kind = "released" => ev.epoch \in Epochs
        /\ ev.kind \in {"submitted", "finalized"} => ev.epoch \in ReleasedIn(1 .. Height)
    BY EventFact
  <2>3. \A b \in 1 .. Height' : b \in 1 .. Height \/ b = Height + 1
    BY <1>0
  <2>4. \A b \in 1 .. Height' : chain'[b].time <= clock'
    BY <2>1, <2>2, <2>3 DEF ChainInv
  <2>5. \A b \in 1 .. Height, e \in Epochs : IsRelease(b, e)' <=> IsRelease(b, e)
    BY DEF IsRelease
  <2>6. \A e \in Epochs : e \in ReleasedIn(1 .. Height) <=>
                            \E b \in 1 .. Height : IsRelease(b, e)
    BY Says
  <2>7. \A b \in {Height + 1}, e \in Epochs :
          IsRelease(b, e)' <=> ev.kind = "released" /\ ev.epoch = e
    BY DEF IsRelease
  <2>8. \A b \in {Height + 1}, d \in 1 .. Height, e \in Epochs :
          ~(IsRelease(b, e)' /\ IsRelease(d, e))
    BY <2>6, <2>7, NewRelease
  <2>9. \A b, d \in 1 .. Height', e \in Epochs :
          IsRelease(b, e)' /\ IsRelease(d, e)' => b = d
    <3>1. ASSUME NEW b \in 1 .. Height', NEW d \in 1 .. Height', NEW e \in Epochs,
                 IsRelease(b, e)', IsRelease(d, e)'
          PROVE  b = d
      <4>1. CASE b \in 1 .. Height /\ d \in 1 .. Height
        BY <2>5, <3>1, <4>1 DEF ChainInv
      <4>2. CASE b = Height + 1 /\ d \in 1 .. Height
        BY <2>5, <2>8, <3>1, <4>2
      <4>3. CASE d = Height + 1 /\ b \in 1 .. Height
        BY <2>5, <2>8, <3>1, <4>3
      <4>4. CASE b = Height + 1 /\ d = Height + 1
        BY <4>4
      <4>5. QED
        BY <2>3, <4>1, <4>2, <4>3, <4>4
    <3>2. QED
      BY <3>1
  <2>10. ASSUME NEW b \in 1 .. Height', chain'[b].kind \in {"submitted", "finalized"}
         PROVE  \E d \in 1 .. b - 1 : IsRelease(d, chain[b].epoch)'
    <3>1. CASE b \in 1 .. Height
      <4>1. PICK d \in 1 .. b - 1 : IsRelease(d, chain[b].epoch)
        BY <2>10, <3>1 DEF ChainInv
      <4>2. d \in 1 .. Height
        BY <1>0, <3>1
      <4>3. QED
        BY <3>1, <4>1, <4>2 DEF IsRelease
    <3>2. CASE b = Height + 1
      <4>1. ev.epoch \in ReleasedIn(1 .. Height) /\ ev.epoch \in Epochs
        BY <2>2, <2>10, <3>2 DEF ReleasedIn
      <4>2. PICK d \in 1 .. Height : IsRelease(d, ev.epoch)
        BY <2>6, <4>1
      <4>3. d \in 1 .. b - 1
        BY <1>0, <3>2
      <4>4. QED
        BY <3>2, <4>2, <4>3 DEF IsRelease
    <3>3. QED
      BY <2>3, <3>1, <3>2
  <2>11. DOMAIN chain' = 1 .. Height + 1 /\ DOMAIN chain = 1 .. Height
    BY <1>0 DEF Height
  <2>12. (ReleasedIn(1 .. Height))' =
           {e \in Epochs : \E b \in 1 .. Height + 1 : IsRelease(b, e)'}
    BY <2>11 DEF ReleasedIn, Logged, IsRelease
  <2>13. (ReleasedIn(1 .. Height))' =
           ReleasedIn(1 .. Height) \cup (IF ev.kind = "released" THEN {ev.epoch} ELSE {})
    <3>1. ASSUME NEW e \in Epochs
          PROVE  e \in (ReleasedIn(1 .. Height))' <=>
                   e \in ReleasedIn(1 .. Height) \/ (ev.kind = "released" /\ ev.epoch = e)
      <4>1. \A b \in 1 .. Height + 1 : b \in 1 .. Height \/ b = Height + 1
        BY <1>0
      <4>2. 1 .. Height \subseteq 1 .. Height + 1 /\ Height + 1 \in 1 .. Height + 1
        BY <1>0
      <4>3. QED
        <5>1. CASE \E b \in 1 .. Height : IsRelease(b, e)
          BY <2>5, <2>6, <2>12, <4>2, <5>1
        <5>2. CASE ~\E b \in 1 .. Height : IsRelease(b, e)
          <6>1. (\E b \in 1 .. Height + 1 : IsRelease(b, e)')
                  <=> (\E b \in {Height + 1} : IsRelease(b, e)')
            BY <2>5, <4>1, <4>2, <5>2
          <6>2. QED
            BY <2>6, <2>7, <2>12, <5>2, <6>1
        <5>3. QED
          BY <5>1, <5>2
    <3>2. ReleasedIn(1 .. Height) \subseteq Epochs /\ (ReleasedIn(1 .. Height))' \subseteq Epochs
      BY <2>12 DEF ReleasedIn
    <3>3. QED
      BY <2>2, <3>1, <3>2
  <2>14. \E k \in 0 .. MaxEpoch : (ReleasedIn(1 .. Height))' = 1 .. k
    <3>1. CASE ev.kind = "released"
      BY <2>13, <3>1, NewRelease
    <3>2. CASE ev.kind # "released"
      BY <2>13, <3>2 DEF ChainInv
    <3>3. QED
      BY <3>1, <3>2
  <2>15. chain'[1] = NoEvent /\ Height' >= 1
    BY <1>0 DEF ChainInv
  <2>16. QED
    BY <1>0, <2>1, <2>4, <2>9, <2>10, <2>14, <2>15 DEF ChainInv
<1>2. CASE Tick
  <2>1. chain' = chain /\ clock' = clock + 1
    BY <1>2 DEF Tick
  <2>2. \A b \in 1 .. Height : chain[b].time <= clock + 1
    <3>1. ASSUME NEW b \in 1 .. Height PROVE chain[b].time \in Nat
      <4>1. chain[b] \in Block
        BY <1>0, ElementOfSeq DEF Height
      <4>2. QED
        BY <4>1 DEF Block, NoEvent
    <3>2. QED
      BY <1>0, <3>1 DEF ChainInv
  <2>3. QED
    BY <1>0, <2>1, <2>2 DEF ChainInv, Height, IsRelease, ReleasedIn, Logged
<1>3. ASSUME UNCHANGED chainVars PROVE ChainInv'
  BY <1>3 DEF chainVars, ChainInv, Height, IsRelease, ReleasedIn, Logged
<1>4. QED
  BY <1>1, <1>2, <1>3
     DEF Next, Run, Setup, Poll, Handle, FetchFails, ForceDue, Save, EndBatch, EndBatchAt,
         Crash, vars

\* What a block can be.
LEMMA BlockFact ==
  ASSUME ChainInv, NEW b \in 1 .. Height
  PROVE  /\ chain[b].time \in Nat
         /\ chain[b].kind \in {"submitted", "finalized"} => chain[b].project \in Projects
<1>1. chain[b] \in Block
  BY ElementOfSeq DEF ChainInv, Height
<1>2. QED
  BY <1>1 DEF Block, NoEvent

\* What the chain says up to a block never changes.
LEMMA Stable ==
  ASSUME ChainInv, [Next]_vars
  PROVE  /\ Height <= Height' /\ clock <= clock'
         /\ \A b \in 1 .. Height : chain'[b] = chain[b]
         /\ \A l \in 0 .. Height :
              /\ ReleasedIn(1 .. l)' = ReleasedIn(1 .. l)
              /\ \A e \in Epochs : /\ SubmittedIn(1 .. l, e)' = SubmittedIn(1 .. l, e)
                                   /\ FinalizedIn(1 .. l, e)' = FinalizedIn(1 .. l, e)
<1>0. Height \in Nat /\ clock \in Nat
  BY LenProperties DEF ChainInv, Height
<1>1. Height <= Height' /\ \A b \in 1 .. Height : chain'[b] = chain[b]
  <2>1. CASE NewBlock
    BY <1>0, <2>1, NewBlockFact
  <2>2. CASE chain' = chain
    BY <1>0, <2>2 DEF Height
  <2>3. QED
    BY <2>1, <2>2
       DEF Next, Run, Setup, Poll, Handle, FetchFails, ForceDue, Save, EndBatch, EndBatchAt,
           Crash, Tick, vars, chainVars
<1>2. clock <= clock'
  <2>1. CASE Tick
    BY <1>0, <2>1 DEF Tick
  <2>2. CASE clock' = clock
    BY <1>0, <2>2
  <2>3. QED
    BY <2>1, <2>2
       DEF Next, Run, Setup, Poll, Handle, FetchFails, ForceDue, Save, EndBatch, EndBatchAt,
           Crash, NewBlock, vars, chainVars
<1>3. ChainInv'
  BY ChainStep
<1>4. ASSUME NEW l \in 0 .. Height
      PROVE  /\ ReleasedIn(1 .. l)' = ReleasedIn(1 .. l)
             /\ \A e \in Epochs : /\ SubmittedIn(1 .. l, e)' = SubmittedIn(1 .. l, e)
                                  /\ FinalizedIn(1 .. l, e)' = FinalizedIn(1 .. l, e)
  <2>1. Height' \in Nat
    BY <1>3, LenProperties DEF ChainInv, Height
  <2>2. \A b \in 1 .. l : b \in 1 .. Height /\ b \in 1 .. Height'
    BY <1>0, <1>1, <2>1
  <2>3. DOMAIN chain = 1 .. Height /\ DOMAIN chain' = 1 .. Height'
    BY <1>3 DEF ChainInv, Height
  <2>4. (1 .. l) \cap DOMAIN chain = 1 .. l /\ (1 .. l) \cap DOMAIN chain' = 1 .. l
    BY <2>2, <2>3
  <2>5. \A b \in 1 .. l : chain'[b] = chain[b]
    BY <1>1, <2>2
  <2>6. \A kind, e : Logged(1 .. l, kind, e)' = Logged(1 .. l, kind, e)
    BY <2>4, <2>5 DEF Logged
  <2>7. \A kind, e : Logged(1 .. l, kind, e) \subseteq 1 .. l
    BY DEF Logged
  <2>8. QED
    BY <2>5, <2>6, <2>7 DEF ReleasedIn, SubmittedIn, FinalizedIn
<1>5. QED
  BY <1>1, <1>2, <1>4

\* What is read in two pieces is what is read at once; what is said of an epoch
\* is said after its release.
LEMMA Pieces ==
  ASSUME ChainInv, NEW c \in 0 .. Height, NEW l \in 0 .. c
  PROVE  /\ ReleasedIn(1 .. c) = ReleasedIn(1 .. l) \cup ReleasedIn(l + 1 .. c)
         /\ ReleasedIn(1 .. l) \cap ReleasedIn(l + 1 .. c) = {}
         /\ \A e \in Epochs :
              /\ SubmittedIn(1 .. c, e) = SubmittedIn(1 .. l, e) \cup SubmittedIn(l + 1 .. c, e)
              /\ FinalizedIn(1 .. c, e) = FinalizedIn(1 .. l, e) \cup FinalizedIn(l + 1 .. c, e)
              /\ e \in ReleasedIn(l + 1 .. c) =>
                   SubmittedIn(1 .. l, e) = {} /\ FinalizedIn(1 .. l, e) = {}
<1>0. Height \in Nat /\ DOMAIN chain = 1 .. Height
  BY LenProperties DEF ChainInv, Height
<1>1. /\ 1 .. c = (1 .. l) \cup (l + 1 .. c) /\ (1 .. l) \cap (l + 1 .. c) = {}
      /\ 1 .. c \subseteq 1 .. Height
  BY <1>0
<1>2. /\ (1 .. c) \in SUBSET (1 .. Height) /\ (1 .. l) \in SUBSET (1 .. Height)
      /\ (l + 1 .. c) \in SUBSET (1 .. Height)
  BY <1>1
<1>3. \A kind, e : Logged(1 .. c, kind, e) = Logged(1 .. l, kind, e)
                                             \cup Logged(l + 1 .. c, kind, e)
  BY <1>1 DEF Logged
<1>4. \A e \in Epochs :
        /\ e \in ReleasedIn(1 .. l) <=> \E b \in 1 .. l : IsRelease(b, e)
        /\ e \in ReleasedIn(l + 1 .. c) <=> \E b \in l + 1 .. c : IsRelease(b, e)
  BY <1>2, Says
<1>5. ReleasedIn(1 .. l) \cap ReleasedIn(l + 1 .. c) = {}
  <2>1. ASSUME NEW e \in Epochs, NEW b \in 1 .. l, NEW d \in l + 1 .. c,
               IsRelease(b, e), IsRelease(d, e)
        PROVE  FALSE
    <3>1. b \in 1 .. Height /\ d \in 1 .. Height
      BY <1>2
    <3>2. b = d
      BY <2>1, <3>1 DEF ChainInv
    <3>3. QED
      BY <1>1, <3>2
  <2>2. ReleasedIn(1 .. l) \subseteq Epochs
    BY DEF ReleasedIn
  <2>3. QED
    BY <1>4, <2>1, <2>2
<1>6. ASSUME NEW e \in Epochs, e \in ReleasedIn(l + 1 .. c)
      PROVE  SubmittedIn(1 .. l, e) = {} /\ FinalizedIn(1 .. l, e) = {}
  <2>1. ~\E d \in 1 .. l : IsRelease(d, e)
    BY <1>4, <1>5, <1>6
  <2>2. ASSUME NEW b \in 1 .. l, chain[b].kind \in {"submitted", "finalized"},
               chain[b].epoch = e
        PROVE  FALSE
    <3>1. b \in 1 .. Height
      BY <1>2
    <3>2. PICK d \in 1 .. b - 1 : IsRelease(d, e)
      BY <2>2, <3>1 DEF ChainInv
    <3>3. d \in 1 .. l
      BY <1>0
    <3>4. QED
      BY <2>1, <3>2, <3>3
  <2>3. QED
    BY <2>2 DEF SubmittedIn, FinalizedIn, Logged
<1>7. ReleasedIn(1 .. c) = ReleasedIn(1 .. l) \cup ReleasedIn(l + 1 .. c)
  BY <1>3 DEF ReleasedIn
<1>8. \A e \in Epochs :
        SubmittedIn(1 .. c, e) = SubmittedIn(1 .. l, e) \cup SubmittedIn(l + 1 .. c, e)
  BY <1>3 DEF SubmittedIn
<1>9. \A e \in Epochs :
        FinalizedIn(1 .. c, e) = FinalizedIn(1 .. l, e) \cup FinalizedIn(l + 1 .. c, e)
  BY <1>3 DEF FinalizedIn
<1>10. QED
  BY <1>5, <1>6, <1>7, <1>8, <1>9

\* Projects come from the contract.
LEMMA SaysTypes ==
  ASSUME ChainInv, NEW B \in SUBSET Int, NEW e
  PROVE  /\ ReleasedIn(B) \subseteq Epochs
         /\ SubmittedIn(B, e) \subseteq Projects /\ FinalizedIn(B, e) \subseteq Projects
<1>1. DOMAIN chain = 1 .. Height
  BY DEF ChainInv, Height
<1>2. \A b \in Logged(B, "submitted", e) \cup Logged(B, "finalized", e) :
        chain[b].project \in Projects
  BY <1>1, BlockFact DEF Logged
<1>3. QED
  BY <1>2 DEF ReleasedIn, SubmittedIn, FinalizedIn

-----------------------------------------------------------------------------
(* Types.                                                                  *)

EntryType == Nat \X Epochs
Batch == [forces : UNION {[E -> SUBSET Projects] : E \in SUBSET EntryType}, last : Epochs]

\* The epoch to clean up after is one of the batch.
CleansOwn(b) == \E x \in DOMAIN b.forces : b.last = x[2]

TypeInv ==
  /\ pc \in Locations
  /\ last \in 0 .. Height /\ current \in 0 .. Height /\ checkpoint \in 0 .. Height
  /\ pending \subseteq (0 .. clock) \X Epochs
  /\ submitted \in [Epochs -> SUBSET Projects]
  /\ finalized \in [Epochs -> SUBSET Projects]
  /\ batches \in Seq(Batch)
  /\ \A i \in DOMAIN batches : CleansOwn(batches[i])
  /\ picked \subseteq Epochs /\ missed \in BOOLEAN /\ faults \in Nat

\* A batch taken out leaves batches.
LEMMA TakenOut ==
  ASSUME NEW S, NEW s \in Seq(S), NEW i \in DOMAIN s
  PROVE  /\ RemoveAt(s, i) \in Seq(S) /\ Len(RemoveAt(s, i)) < Len(s)
         /\ \A j \in DOMAIN RemoveAt(s, i) : \E k \in DOMAIN s : RemoveAt(s, i)[j] = s[k]
         /\ \A j \in DOMAIN RemoveAt(s, i) :
              /\ j < i => j \in DOMAIN s /\ RemoveAt(s, i)[j] = s[j]
              /\ j >= i => j + 1 \in DOMAIN s /\ RemoveAt(s, i)[j] = s[j + 1]
<1>0. Len(s) \in Nat /\ DOMAIN s = 1 .. Len(s) /\ i \in 1 .. Len(s)
  BY LenProperties
<1>1. PICK front \in Seq(S) :
        /\ front = SubSeq(s, 1, i - 1) /\ Len(front) = i - 1
        /\ \A j \in 1 .. i - 1 : front[j] = s[j]
  <2>1. \A j \in 1 .. i - 1 : s[j] \in S
    BY <1>0, ElementOfSeq
  <2>2. /\ SubSeq(s, 1, i - 1) \in Seq(S) /\ Len(SubSeq(s, 1, i - 1)) = i - 1
        /\ \A j \in 1 .. i - 1 : SubSeq(s, 1, i - 1)[j] = s[j]
    BY <1>0, <2>1, SubSeqProperties
  <2>3. QED
    BY <2>2
<1>2. PICK back \in Seq(S) :
        /\ back = SubSeq(s, i + 1, Len(s)) /\ Len(back) = Len(s) - i
        /\ \A j \in 1 .. Len(s) - i : back[j] = s[i + j]
  <2>1. /\ SubSeq(s, i + 1, Len(s)) \in Seq(S)
        /\ Len(SubSeq(s, i + 1, Len(s))) = Len(s) - i
        /\ \A j \in 1 .. Len(s) - i : SubSeq(s, i + 1, Len(s))[j] = s[i + j]
    OBVIOUS
  <2>2. QED
    BY <2>1
<1>3. PICK t \in Seq(S) :
        /\ t = front \o back /\ Len(t) = Len(front) + Len(back)
        /\ \A j \in 1 .. Len(front) + Len(back) :
             t[j] = IF j <= Len(front) THEN front[j] ELSE back[j - Len(front)]
  <2>1. /\ front \o back \in Seq(S) /\ Len(front \o back) = Len(front) + Len(back)
        /\ \A j \in 1 .. Len(front) + Len(back) :
             (front \o back)[j] = IF j <= Len(front) THEN front[j] ELSE back[j - Len(front)]
    BY ConcatProperties
  <2>2. QED
    BY <2>1
<1>4. t = RemoveAt(s, i)
  BY <1>1, <1>2, <1>3 DEF RemoveAt
<1>5. Len(t) = Len(s) - 1 /\ DOMAIN t = 1 .. Len(s) - 1
  <2>1. Len(t) = (i - 1) + (Len(s) - i)
    BY <1>1, <1>2, <1>3
  <2>2. Len(t) = Len(s) - 1
    BY <1>0, <2>1
  <2>3. QED
    BY <2>2, LenProperties
<1>6. ASSUME NEW j \in 1 .. Len(s) - 1
      PROVE  /\ j < i => j \in DOMAIN s /\ t[j] = s[j]
             /\ j >= i => j + 1 \in DOMAIN s /\ t[j] = s[j + 1]
  <2>1. CASE j <= i - 1
    <3>1. j \in 1 .. Len(front) + Len(back) /\ j \in 1 .. i - 1 /\ j \in DOMAIN s
      BY <1>0, <1>1, <1>2, <2>1
    <3>2. t[j] = s[j]
      BY <1>1, <1>3, <2>1, <3>1
    <3>3. QED
      BY <1>0, <2>1, <3>1, <3>2
  <2>2. CASE j > i - 1
    <3>1. /\ j \in 1 .. Len(front) + Len(back) /\ j - Len(front) \in 1 .. Len(s) - i
          /\ j + 1 \in DOMAIN s /\ ~(j <= Len(front)) /\ i + (j - Len(front)) = j + 1
      <4>1. Len(front) = i - 1 /\ Len(back) = Len(s) - i
        BY <1>1, <1>2
      <4>2. QED
        BY <1>0, <2>2, <4>1
    <3>2. t[j] = back[j - Len(front)]
      BY <1>3, <3>1
    <3>3. t[j] = s[j + 1]
      BY <1>2, <3>1, <3>2
    <3>4. QED
      BY <1>0, <2>2, <3>1, <3>3
  <2>3. QED
    BY <1>0, <2>1, <2>2
<1>7. Len(t) < Len(s)
  BY <1>0, <1>5
<1>8. ASSUME NEW j \in 1 .. Len(s) - 1 PROVE \E k \in DOMAIN s : t[j] = s[k]
  <2>1. CASE j < i
    BY <1>6, <2>1
  <2>2. CASE j >= i
    BY <1>6, <2>2
  <2>3. QED
    BY <1>0, <2>1, <2>2
<1>9. QED
  BY <1>4, <1>5, <1>6, <1>7, <1>8

\* Where a poll goes on: at the block that is known, unless blocks are passed over.
LEMMA PollFact ==
  ASSUME TypeInv, ChainInv, NEW h \in ObservedHeads
  PROVE  /\ h \in 1 .. Height /\ AfterJump(h, LastProcessed(h)) \in 0 .. Height
         /\ ~PassesOver(h) => /\ AfterJump(h, LastProcessed(h)) = Known
                              /\ Known <= h
<1>1. h \in 1 .. Height /\ Height \in Nat
  BY DetectorAssumption, LenProperties DEF ObservedHeads, ChainInv, Height
<1>2. LastProcessed(h) \in 0 .. Height
  BY <1>1 DEF LastProcessed, TypeInv
<1>3. ~PassesOver(h) => LastProcessed(h) = Known
  BY <1>1 DEF LastProcessed, PassesOver, Known, TypeInv
<1>4. Buffer \in Nat \ {0}
  BY DetectorAssumption
<1>5. AfterJump(h, LastProcessed(h)) \in 0 .. Height
  BY <1>1, <1>2, <1>4 DEF AfterJump
<1>6. ASSUME ~PassesOver(h) PROVE AfterJump(h, LastProcessed(h)) = Known /\ Known <= h
  <2>1. Known \in 0 .. Height /\ h - Known <= Buffer /\ Known <= h
    BY <1>1, <1>2, <1>3, <1>4, <1>6 DEF PassesOver
  <2>2. QED
    BY <1>1, <1>3, <1>4, <1>6, <2>1 DEF AfterJump
<1>7. QED
  BY <1>1, <1>5, <1>6

LEMMA TypeInit == Init => TypeInv
<1> SUFFICES ASSUME Init PROVE TypeInv
  OBVIOUS
<1>1. Height = 1
  BY DEF Init, Height
<1>2. checkpoint \in 0 .. Height
  BY <1>1, DetectorAssumption DEF Init
<1>3. batches \in Seq(Batch) /\ DOMAIN batches = {}
  BY DEF Init
<1>4. last \in 0 .. Height /\ current \in 0 .. Height /\ faults \in Nat
  BY <1>1 DEF Init
<1>5. /\ submitted \in [Epochs -> SUBSET Projects] /\ finalized \in [Epochs -> SUBSET Projects]
      /\ pending \subseteq (0 .. clock) \X Epochs /\ picked \subseteq Epochs
  BY DEF Init, NoProjects
<1>6. pc \in Locations /\ missed \in BOOLEAN
  BY DEF Init, Locations
<1>7. QED
  BY <1>2, <1>3, <1>4, <1>5, <1>6 DEF TypeInv

\* What a step adds to the memory has its types.
LEMMA MemoryTypes ==
  ASSUME TypeInv, ChainInv, NEW B \in SUBSET Int
  PROVE  /\ pending \cup {<<clock, e>> : e \in ReleasedIn(B)} \subseteq (0 .. clock) \X Epochs
         /\ [e \in Epochs |-> submitted[e] \cup SubmittedIn(B, e)] \in [Epochs -> SUBSET Projects]
         /\ [e \in Epochs |-> finalized[e] \cup FinalizedIn(B, e)] \in [Epochs -> SUBSET Projects]
<1>1. clock \in 0 .. clock
  BY DEF ChainInv
<1>2. pending \cup {<<clock, e>> : e \in ReleasedIn(B)} \subseteq (0 .. clock) \X Epochs
  <2>1. ReleasedIn(B) \subseteq Epochs /\ pending \subseteq (0 .. clock) \X Epochs
    BY SaysTypes DEF TypeInv
  <2>2. \A e \in ReleasedIn(B) : <<clock, e>> \in (0 .. clock) \X Epochs
    BY <1>1, <2>1
  <2>3. QED
    BY <2>1, <2>2
<1>3. [e \in Epochs |-> submitted[e] \cup SubmittedIn(B, e)] \in [Epochs -> SUBSET Projects]
  BY SaysTypes DEF TypeInv
<1>4. [e \in Epochs |-> finalized[e] \cup FinalizedIn(B, e)] \in [Epochs -> SUBSET Projects]
  BY SaysTypes DEF TypeInv
<1>5. QED
  BY <1>2, <1>3, <1>4

\* A new batch is a batch.
LEMMA BatchTypes ==
  ASSUME TypeInv, NEW e \in DueEpochs
  PROVE  /\ DueEpochs \subseteq Epochs
         /\ [forces |-> [x \in Due |-> Open(x[2])], last |-> e] \in Batch
         /\ CleansOwn([forces |-> [x \in Due |-> Open(x[2])], last |-> e])
<1>1. Due \subseteq EntryType /\ DueEpochs \subseteq Epochs
  BY DEF DueEpochs, Due, TypeInv, EntryType
<1>2. \A x \in Due : Open(x[2]) \in SUBSET Projects
  BY <1>1 DEF Open, TypeInv, EntryType
<1>3. [x \in Due |-> Open(x[2])] \in [Due -> SUBSET Projects]
  BY <1>2
<1>4. [x \in Due |-> Open(x[2])] \in UNION {[E -> SUBSET Projects] : E \in SUBSET EntryType}
  BY <1>1, <1>3
<1>5. \E x \in Due : e = x[2]
  BY DEF DueEpochs
<1>6. QED
  BY <1>1, <1>4, <1>5 DEF Batch, CleansOwn

\* Every step keeps the types.
LEMMA TypeStep == TypeInv /\ ChainInv /\ [Next]_vars => TypeInv'
<1> SUFFICES ASSUME TypeInv, ChainInv, [Next]_vars PROVE TypeInv'
  OBVIOUS
<1>0. /\ Height \in Nat /\ Height' \in Nat /\ Height <= Height'
      /\ clock \in Nat /\ clock' \in Nat /\ clock <= clock'
  <2>1. ChainInv'
    BY ChainStep
  <2>2. QED
    BY <2>1, Stable, LenProperties DEF ChainInv, Height
<1>1. ASSUME last' \in {last, current} \/ last' \in 0 .. Height,
             current' = current \/ current' \in 0 .. Height,
             checkpoint' \in {checkpoint, last}
      PROVE  last' \in 0 .. Height' /\ current' \in 0 .. Height' /\ checkpoint' \in 0 .. Height'
  <2>1. last' \in 0 .. Height /\ current' \in 0 .. Height /\ checkpoint' \in 0 .. Height
    BY <1>1 DEF TypeInv
  <2>2. QED
    BY <1>0, <2>1
<1>2. ASSUME pending' \subseteq (0 .. clock) \X Epochs
      PROVE  pending' \subseteq (0 .. clock') \X Epochs
  BY <1>0, <1>2
<1>3. pending \subseteq (0 .. clock) \X Epochs
  BY DEF TypeInv
<1>4. ASSUME Exit, UNCHANGED <<checkpoint, picked, missed>>, faults' = faults + 1 PROVE TypeInv'
  <2>1. last' \in 0 .. Height' /\ current' \in 0 .. Height' /\ checkpoint' \in 0 .. Height'
    BY <1>0, <1>1, <1>4 DEF Exit
  <2>2. /\ pc' \in Locations /\ faults' \in Nat /\ batches' \in Seq(Batch)
        /\ DOMAIN batches' = {} /\ pending' \subseteq (0 .. clock') \X Epochs
    BY <1>4 DEF Exit, Locations, TypeInv
  <2>3. /\ submitted' \in [Epochs -> SUBSET Projects]
        /\ finalized' \in [Epochs -> SUBSET Projects]
    BY <1>4 DEF Exit, NoProjects
  <2>4. QED
    BY <1>4, <2>1, <2>2, <2>3 DEF TypeInv
<1>5. CASE Setup \/ NewBlock \/ Tick \/ UNCHANGED vars
  <2>1. UNCHANGED <<last, current, checkpoint, memoryVars, history, faults>>
    BY <1>5 DEF Setup, NewBlock, Tick, vars
  <2>2. pc' \in Locations
    BY <1>5 DEF Setup, NewBlock, Tick, vars, Locations, TypeInv
  <2>3. last' \in 0 .. Height' /\ current' \in 0 .. Height' /\ checkpoint' \in 0 .. Height'
    BY <1>1, <2>1
  <2>4. pending' \subseteq (0 .. clock') \X Epochs
    BY <1>2, <1>3, <2>1 DEF memoryVars
  <2>5. QED
    BY <2>1, <2>2, <2>3, <2>4 DEF TypeInv, memoryVars, history
<1>6. CASE Poll
  <2>1. ASSUME NEW h \in ObservedHeads, last' = AfterJump(h, LastProcessed(h)),
               missed' = (missed \/ PassesOver(h)),
               IF last' = h THEN UNCHANGED <<pc, current>> ELSE pc' = "fetch" /\ current' = h,
               UNCHANGED <<memoryVars, faults, chainVars, checkpoint, picked>>
        PROVE  TypeInv'
    <3>1. last' \in 0 .. Height /\ (current' = current \/ current' \in 0 .. Height)
      BY <1>0, <2>1, PollFact
    <3>2. last' \in 0 .. Height' /\ current' \in 0 .. Height' /\ checkpoint' \in 0 .. Height'
      BY <1>1, <2>1, <3>1
    <3>3. pending' \subseteq (0 .. clock') \X Epochs
      BY <1>2, <1>3, <2>1 DEF memoryVars
    <3>4. pc' \in Locations /\ missed' \in BOOLEAN
      BY <2>1 DEF TypeInv, Locations
    <3>5. QED
      BY <2>1, <3>2, <3>3, <3>4 DEF TypeInv, memoryVars
  <2>2. CASE last = 0 /\ Fault("redis") /\ Exit /\ UNCHANGED <<missed, checkpoint, picked>>
    BY <1>4, <2>2 DEF Fault
  <2>3. QED
    BY <1>6, <2>1, <2>2 DEF Poll
<1>7. CASE Handle
  <2> PICK to \in Height - LogLag .. Height :
        /\ pending' = pending \cup {<<clock, e>> : e \in ReleasedIn(Answered(to))}
        /\ submitted' = [e \in Epochs |-> submitted[e] \cup SubmittedIn(Answered(to), e)]
        /\ finalized' = [e \in Epochs |-> finalized[e] \cup FinalizedIn(Answered(to), e)]
        /\ missed' = (missed \/ to < current)
    BY <1>7 DEF Handle
  <2>1. Answered(to) \in SUBSET Int
    BY <1>0, DetectorAssumption DEF Answered, TypeInv
  <2>2. last' \in 0 .. Height' /\ current' \in 0 .. Height' /\ checkpoint' \in 0 .. Height'
    BY <1>1, <1>7 DEF Handle
  <2>3. /\ pending' \subseteq (0 .. clock') \X Epochs
        /\ submitted' \in [Epochs -> SUBSET Projects]
        /\ finalized' \in [Epochs -> SUBSET Projects]
    BY <1>2, <2>1, MemoryTypes
  <2>4. pc' \in Locations /\ missed' \in BOOLEAN /\ UNCHANGED <<batches, picked, faults>>
    BY <1>7 DEF Handle, Locations
  <2>5. QED
    BY <2>2, <2>3, <2>4 DEF TypeInv
<1>8. CASE FetchFails
  <2>1. UNCHANGED <<last, current, checkpoint, memoryVars, history>> /\ pc' \in Locations
    BY <1>8 DEF FetchFails, Locations
  <2>2. faults' \in Nat
    BY <1>8 DEF FetchFails, Fault, TypeInv
  <2>3. last' \in 0 .. Height' /\ current' \in 0 .. Height' /\ checkpoint' \in 0 .. Height'
    BY <1>1, <2>1
  <2>4. pending' \subseteq (0 .. clock') \X Epochs
    BY <1>2, <1>3, <2>1 DEF memoryVars
  <2>5. QED
    BY <2>1, <2>2, <2>3, <2>4 DEF TypeInv, memoryVars, history
<1>9. CASE ForceDue
  <2>1. /\ UNCHANGED <<last, current, checkpoint, submitted, finalized, missed, faults>>
        /\ pc' \in Locations
    BY <1>9 DEF ForceDue, Locations
  <2>2. last' \in 0 .. Height' /\ current' \in 0 .. Height' /\ checkpoint' \in 0 .. Height'
    BY <1>1, <2>1
  <2>3. pending' \subseteq (0 .. clock') \X Epochs /\ picked' \subseteq Epochs
    <3>1. pending' \subseteq (0 .. clock) \X Epochs /\ DueEpochs \subseteq Epochs
      BY <1>3, <1>9 DEF ForceDue, DueEpochs, Due
    <3>2. QED
      BY <1>2, <1>9, <3>1 DEF ForceDue, TypeInv
  <2>4. /\ batches' \in Seq(Batch)
        /\ \A i \in DOMAIN batches' : CleansOwn(batches'[i])
    <3>1. CASE batches' = batches
      BY <3>1 DEF TypeInv
    <3>2. ASSUME NEW e \in DueEpochs,
                 batches' = Append(batches, [forces |-> [x \in Due |-> Open(x[2])], last |-> e])
          PROVE  /\ batches' \in Seq(Batch)
                 /\ \A i \in DOMAIN batches' : CleansOwn(batches'[i])
      <4> DEFINE new == [forces |-> [x \in Due |-> Open(x[2])], last |-> e]
      <4>1. new \in Batch /\ CleansOwn(new)
        BY BatchTypes
      <4> HIDE DEF new
      <4>2. batches' = Append(batches, new) /\ batches \in Seq(Batch)
        BY <3>2 DEF new, TypeInv
      <4>3. /\ batches' \in Seq(Batch) /\ Len(batches') = Len(batches) + 1
            /\ \A i \in 1 .. Len(batches) : batches'[i] = batches[i]
            /\ batches'[Len(batches) + 1] = new
        BY <4>1, <4>2, AppendProperties
      <4>4. \A i \in DOMAIN batches' : i \in DOMAIN batches \/ i = Len(batches) + 1
        BY <4>2, <4>3, LenProperties
      <4>5. \A i \in DOMAIN batches : i \in 1 .. Len(batches)
        BY <4>2, LenProperties
      <4>6. QED
        BY <4>1, <4>3, <4>4, <4>5 DEF TypeInv
    <3>3. QED
      BY <1>9, <3>1, <3>2 DEF ForceDue
  <2>5. QED
    BY <2>1, <2>2, <2>3, <2>4 DEF TypeInv
<1>10. CASE Save
  <2>1. CASE /\ checkpoint' = SaveLast /\ pc' = "poll"
             /\ UNCHANGED <<last, current, memoryVars, faults, history>>
    <3>1. last' \in 0 .. Height' /\ current' \in 0 .. Height' /\ checkpoint' \in 0 .. Height'
      BY <1>1, <2>1 DEF SaveLast
    <3>2. pending' \subseteq (0 .. clock') \X Epochs
      BY <1>2, <1>3, <2>1 DEF memoryVars
    <3>3. pc' \in Locations
      BY <2>1 DEF Locations
    <3>4. QED
      BY <2>1, <3>1, <3>2, <3>3 DEF TypeInv, memoryVars, history
  <2>2. CASE Fault("redis") /\ Exit /\ UNCHANGED <<checkpoint, history>>
    BY <1>4, <2>2 DEF Fault, history
  <2>3. QED
    BY <1>10, <2>1, <2>2 DEF Save
<1>11. CASE EndBatch
  <2> PICK i \in DOMAIN batches : EndBatchAt(i)
    BY <1>11 DEF EndBatch
  <2>1. UNCHANGED <<pc, last, current, checkpoint, pending, history, faults>>
    BY DEF EndBatchAt
  <2>2. last' \in 0 .. Height' /\ current' \in 0 .. Height' /\ checkpoint' \in 0 .. Height'
    BY <1>1, <2>1
  <2>3. /\ submitted' \in [Epochs -> SUBSET Projects]
        /\ finalized' \in [Epochs -> SUBSET Projects]
    BY DEF EndBatchAt, CleanUp, TypeInv
  <2>4. /\ batches' \in Seq(Batch)
        /\ \A j \in DOMAIN batches' : CleansOwn(batches'[j])
    <3>1. /\ batches \in Seq(Batch) /\ batches' = RemoveAt(batches, i)
          /\ \A k \in DOMAIN batches : CleansOwn(batches[k])
      BY DEF EndBatchAt, TypeInv
    <3>2. QED
      BY <3>1, TakenOut
  <2>5. pending' \subseteq (0 .. clock') \X Epochs
    BY <1>2, <1>3, <2>1
  <2>6. QED
    BY <2>1, <2>2, <2>3, <2>4, <2>5 DEF TypeInv, history
<1>12. CASE Crash
  BY <1>4, <1>12 DEF Crash, Fault, history
<1>13. QED
  BY <1>5, <1>6, <1>7, <1>8, <1>9, <1>10, <1>11, <1>12 DEF Next, Run

-----------------------------------------------------------------------------
(* The memory, as long as no block is missed.                              *)

\* An entry of the pending epochs is no older than the release.
PendingReleased ==
  \A x \in pending : \E b \in 1 .. Height : IsRelease(b, x[2]) /\ chain[b].time <= x[1]

\* What is remembered is what the blocks handled say; a batch still running is
\* about epochs that are not pending, so that its clean-up takes nothing away.
Remembered ==
  /\ PendingEpochs \subseteq ReleasedIn(1 .. last)
  /\ \A x, y \in pending : x[2] = y[2] => x = y
  /\ \A i \in DOMAIN batches : \A x \in DOMAIN batches[i].forces :
       x[2] \in ReleasedIn(1 .. last) \ PendingEpochs
  /\ \A e \in Epochs : /\ submitted[e] \subseteq SubmittedIn(1 .. last, e)
                       /\ finalized[e] \subseteq FinalizedIn(1 .. last, e)
  /\ \A e \in PendingEpochs : /\ SubmittedIn(1 .. last, e) \subseteq submitted[e]
                              /\ FinalizedIn(1 .. last, e) \subseteq finalized[e]
  /\ pc = "fetch" => last <= current

MemoryInv == ~missed => Remembered

\* Without a restart, every epoch handled is pending or was picked, never both.
Kept ==
  /\ picked \cap PendingEpochs = {} /\ picked \subseteq ReleasedIn(1 .. last)
  /\ ReleasedIn(1 .. last) \cup ReleasedIn(1 .. checkpoint) \subseteq PendingEpochs \cup picked

SteadyInv == faults = 0 /\ ~missed => Kept

DetectorInv == ChainInv /\ TypeInv /\ PendingReleased /\ MemoryInv /\ SteadyInv

\* The first block says nothing.
LEMMA Empty ==
  ASSUME ChainInv, NEW l \in {0, 1}
  PROVE  /\ ReleasedIn(1 .. l) = {}
         /\ \A e \in Epochs : SubmittedIn(1 .. l, e) = {} /\ FinalizedIn(1 .. l, e) = {}
<1>1. \A b \in 1 .. l : chain[b].kind = "none"
  BY DEF ChainInv, NoEvent
<1>2. \A kind \in {"released", "submitted", "finalized"}, e \in Epochs :
        Logged(1 .. l, kind, e) = {}
  BY <1>1 DEF Logged
<1>3. QED
  BY <1>2 DEF ReleasedIn, SubmittedIn, FinalizedIn

LEMMA DetectorInit == Init => DetectorInv
<1> SUFFICES ASSUME Init PROVE DetectorInv
  OBVIOUS
<1>1. ChainInv /\ TypeInv
  BY ChainStart, TypeInit
<1>2. /\ pending = {} /\ PendingEpochs = {} /\ picked = {} /\ DOMAIN batches = {}
      /\ last = 0 /\ checkpoint \in {0, 1} /\ pc = "down"
      /\ \A e \in Epochs : submitted[e] = {} /\ finalized[e] = {}
  BY DetectorAssumption DEF Init, PendingEpochs, NoProjects
<1>3. PendingReleased
  BY <1>2 DEF PendingReleased
<1>4. Remembered
  BY <1>2 DEF Remembered
<1>5. Kept
  BY <1>1, <1>2, Empty DEF Kept
<1>6. QED
  BY <1>1, <1>3, <1>4, <1>5 DEF DetectorInv, MemoryInv, SteadyInv

\* An entry keeps its release.
LEMMA ReleasedStep == DetectorInv /\ [Next]_vars => PendingReleased'
<1> SUFFICES ASSUME DetectorInv, [Next]_vars PROVE PendingReleased'
  OBVIOUS
<1>0. /\ ChainInv /\ TypeInv /\ Height \in Nat /\ Height' \in Nat /\ Height <= Height'
      /\ \A b \in 1 .. Height : chain'[b] = chain[b] /\ b \in 1 .. Height'
  <2>1. ChainInv /\ ChainInv'
    BY ChainStep DEF DetectorInv
  <2>2. Height \in Nat /\ Height' \in Nat /\ Height <= Height'
    BY <2>1, Stable, LenProperties DEF ChainInv, Height
  <2>3. QED
    BY <2>1, <2>2, Stable DEF DetectorInv
<1>1. ASSUME pending' \subseteq pending PROVE PendingReleased'
  <2>1. ASSUME NEW x \in pending' PROVE (\E b \in 1 .. Height : IsRelease(b, x[2]) /\ chain[b].time <= x[1])'
    <3>1. PICK b \in 1 .. Height : IsRelease(b, x[2]) /\ chain[b].time <= x[1]
      BY <1>1 DEF DetectorInv, PendingReleased
    <3>2. b \in 1 .. Height' /\ chain'[b] = chain[b]
      BY <1>0
    <3>3. QED
      BY <3>1, <3>2 DEF IsRelease
  <2>2. QED
    BY <2>1 DEF PendingReleased
<1>2. CASE Handle
  <2> PICK to \in Height - LogLag .. Height :
        pending' = pending \cup {<<clock, e>> : e \in ReleasedIn(Answered(to))}
    BY <1>2 DEF Handle
  <2>1. chain' = chain
    BY <1>2 DEF Handle, chainVars
  <2>2. ASSUME NEW e \in ReleasedIn(Answered(to))
        PROVE  \E b \in 1 .. Height : IsRelease(b, e) /\ chain[b].time <= clock
    <3>1. PICK b \in DOMAIN chain : IsRelease(b, e)
      BY DEF ReleasedIn, Logged, IsRelease
    <3>2. b \in 1 .. Height
      BY <1>0 DEF Height, ChainInv
    <3>3. QED
      BY <1>0, <3>1, <3>2 DEF ChainInv
  <2>3. ASSUME NEW x \in pending' PROVE \E b \in 1 .. Height : IsRelease(b, x[2]) /\ chain[b].time <= x[1]
    <3>1. CASE x \in pending
      BY <3>1 DEF DetectorInv, PendingReleased
    <3>2. CASE \E e \in ReleasedIn(Answered(to)) : x = <<clock, e>>
      BY <2>2, <3>2
    <3>3. QED
      BY <3>1, <3>2
  <2>4. QED
    BY <2>1, <2>3 DEF PendingReleased, IsRelease, Height
<1>3. CASE ~Handle
  <2>1. pending' \subseteq pending
    BY <1>3 DEF Next, Run, Setup, Poll, FetchFails, ForceDue, Save, EndBatch, EndBatchAt,
                Crash, Exit, NewBlock, Tick, vars, memoryVars
  <2>2. QED
    BY <1>1, <2>1
<1>4. QED
  BY <1>2, <1>3

\* A step changes what is read of the chain only by changing how far it is read.
LEMMA SaidNow ==
  ASSUME ChainInv, [Next]_vars, last' \in 0 .. Height, checkpoint' \in 0 .. Height
  PROVE  /\ ReleasedIn(1 .. last)' = ReleasedIn(1 .. last')
         /\ ReleasedIn(1 .. checkpoint)' = ReleasedIn(1 .. checkpoint')
         /\ \A e \in Epochs : /\ SubmittedIn(1 .. last, e)' = SubmittedIn(1 .. last', e)
                              /\ FinalizedIn(1 .. last, e)' = FinalizedIn(1 .. last', e)
<1> PICK l \in 0 .. Height : l = last'
  OBVIOUS
<1> PICK c \in 0 .. Height : c = checkpoint'
  OBVIOUS
<1>1. /\ ReleasedIn(1 .. l)' = ReleasedIn(1 .. l) /\ ReleasedIn(1 .. c)' = ReleasedIn(1 .. c)
      /\ \A e \in Epochs : /\ SubmittedIn(1 .. l, e)' = SubmittedIn(1 .. l, e)
                           /\ FinalizedIn(1 .. l, e)' = FinalizedIn(1 .. l, e)
  BY Stable
<1>2. /\ ReleasedIn(1 .. last)' = ReleasedIn(1 .. l)'
      /\ ReleasedIn(1 .. checkpoint)' = ReleasedIn(1 .. c)'
  BY DEF ReleasedIn, Logged
<1>3. \A e \in Epochs : /\ SubmittedIn(1 .. last, e)' = SubmittedIn(1 .. l, e)'
                        /\ FinalizedIn(1 .. last, e)' = FinalizedIn(1 .. l, e)'
  BY DEF SubmittedIn, FinalizedIn, Logged
<1>4. QED
  BY <1>1, <1>2, <1>3

\* What a batch picks is not pending any more.
LEMMA PickedFact ==
  ASSUME TypeInv, \A x, y \in pending : x[2] = y[2] => x = y, pending' = pending \ Due
  PROVE  PendingEpochs' = PendingEpochs \ DueEpochs /\ DueEpochs \subseteq PendingEpochs
<1>1. Due \subseteq pending
  BY DEF Due
<1>2. QED
  BY <1>1 DEF PendingEpochs, DueEpochs

\* What a step adds to the pending entries, it adds to the pending epochs.
LEMMA Gained ==
  ASSUME NEW R
  PROVE  {x[2] : x \in pending \cup {<<clock, e>> : e \in R}} = {x[2] : x \in pending} \cup R
<1>1. {x[2] : x \in pending \cup {<<clock, e>> : e \in R}}
        = {x[2] : x \in pending} \cup {x[2] : x \in {<<clock, e>> : e \in R}}
  OBVIOUS
<1>2. {x[2] : x \in {<<clock, e>> : e \in R}} = R
  <2>1. ASSUME NEW r \in R PROVE r \in {x[2] : x \in {<<clock, e>> : e \in R}}
    <3>1. <<clock, r>> \in {<<clock, e>> : e \in R} /\ <<clock, r>>[2] = r
      OBVIOUS
    <3>2. QED
      BY <3>1
  <2>2. ASSUME NEW x \in {<<clock, e>> : e \in R} PROVE x[2] \in R
    <3>1. PICK e \in R : x = <<clock, e>>
      OBVIOUS
    <3>2. QED
      BY <3>1
  <2>3. QED
    BY <2>1, <2>2
<1>3. QED
  BY <1>1, <1>2

\* What a step of the process adds to the memory and takes away from it.
LEMMA MemoryStep == DetectorInv /\ [Next]_vars => MemoryInv'
<1> SUFFICES ASSUME DetectorInv, [Next]_vars, ~missed' PROVE Remembered'
  BY DEF MemoryInv
<1>0. ChainInv /\ TypeInv /\ last \in 0 .. Height /\ current \in 0 .. Height
      /\ checkpoint \in 0 .. Height /\ Height \in Nat
  BY LenProperties DEF DetectorInv, TypeInv, ChainInv, Height
<1>1. Remembered
  <2>1. ~missed
    BY DEF Next, Run, Setup, Poll, Handle, FetchFails, ForceDue, Save, EndBatch, EndBatchAt,
           Crash, NewBlock, Tick, vars, history
  <2>2. QED
    BY <2>1 DEF DetectorInv, MemoryInv
<1>2. ASSUME UNCHANGED <<last, memoryVars>>,
             pc' = "fetch" => pc = "fetch" /\ current' = current
      PROVE  Remembered'
  <2>1. /\ PendingEpochs' = PendingEpochs
        /\ ReleasedIn(1 .. last)' = ReleasedIn(1 .. last)
        /\ \A e \in Epochs : /\ SubmittedIn(1 .. last, e)' = SubmittedIn(1 .. last, e)
                             /\ FinalizedIn(1 .. last, e)' = FinalizedIn(1 .. last, e)
    <3> PICK l \in 0 .. Height : l = last
      BY <1>0
    <3>1. /\ ReleasedIn(1 .. l)' = ReleasedIn(1 .. l)
          /\ \A e \in Epochs : /\ SubmittedIn(1 .. l, e)' = SubmittedIn(1 .. l, e)
                               /\ FinalizedIn(1 .. l, e)' = FinalizedIn(1 .. l, e)
      BY <1>0, Stable
    <3>2. l = last'
      BY <1>2
    <3>3. /\ ReleasedIn(1 .. last)' = ReleasedIn(1 .. l)'
          /\ \A e \in Epochs : /\ SubmittedIn(1 .. last, e)' = SubmittedIn(1 .. l, e)'
                               /\ FinalizedIn(1 .. last, e)' = FinalizedIn(1 .. l, e)'
      BY <3>2 DEF ReleasedIn, SubmittedIn, FinalizedIn, Logged
    <3>4. PendingEpochs' = PendingEpochs
      BY <1>2 DEF PendingEpochs, memoryVars
    <3>5. QED
      BY <3>1, <3>3, <3>4
  <2>2. PendingEpochs \subseteq Epochs
    BY <1>0 DEF PendingEpochs, TypeInv
  <2>3. UNCHANGED <<last, pending, submitted, finalized, batches>>
    BY <1>2 DEF memoryVars
  <2>4. (pc = "fetch" => last <= current)'
    BY <1>1, <1>2 DEF Remembered
  <2>5. QED
    BY <1>1, <2>1, <2>2, <2>3, <2>4 DEF Remembered
<1>3. ASSUME Exit PROVE Remembered'
  <2>1. /\ pending' = {} /\ PendingEpochs' = {} /\ DOMAIN batches' = {} /\ pc' = "down"
        /\ \A e \in Epochs : submitted'[e] = {} /\ finalized'[e] = {}
    BY <1>3 DEF Exit, PendingEpochs, NoProjects
  <2>2. QED
    BY <2>1 DEF Remembered
<1>4. CASE Poll
  <2>1. ASSUME NEW h \in ObservedHeads, last' = AfterJump(h, LastProcessed(h)), ~PassesOver(h),
               IF last' = h THEN UNCHANGED <<pc, current>> ELSE pc' = "fetch" /\ current' = h,
               UNCHANGED <<memoryVars, checkpoint>>
        PROVE  Remembered'
    <3>1. last' = Known /\ Known <= h /\ last' \in 0 .. Height /\ checkpoint' \in 0 .. Height
      BY <1>0, <2>1, PollFact
    <3>2. last \in 0 .. last' /\ (last' = last \/ last = 0)
      BY <1>0, <3>1 DEF Known
    <3>3. PendingEpochs' = PendingEpochs /\ UNCHANGED <<pending, submitted, finalized, batches>>
      BY <2>1 DEF PendingEpochs, memoryVars
    <3>4. PendingEpochs \subseteq Epochs
      BY <1>0 DEF PendingEpochs, TypeInv
    <3>5. /\ ReleasedIn(1 .. last)' = ReleasedIn(1 .. last')
          /\ \A e \in Epochs : /\ SubmittedIn(1 .. last, e)' = SubmittedIn(1 .. last', e)
                               /\ FinalizedIn(1 .. last, e)' = FinalizedIn(1 .. last', e)
      BY <1>0, <3>1, SaidNow
    <3>6. /\ ReleasedIn(1 .. last) \subseteq ReleasedIn(1 .. last')
          /\ \A e \in Epochs : /\ SubmittedIn(1 .. last, e) \subseteq SubmittedIn(1 .. last', e)
                               /\ FinalizedIn(1 .. last, e) \subseteq FinalizedIn(1 .. last', e)
      BY <1>0, <3>1, <3>2, Pieces
    <3>7. last' = last \/ PendingEpochs = {}
      BY <1>0, <1>1, <3>2, Empty DEF Remembered
    <3>8. (pc = "fetch" => last <= current)'
      BY <1>4, <2>1, <3>1 DEF Poll
    <3>9. QED
      BY <1>1, <3>3, <3>4, <3>5, <3>6, <3>7, <3>8 DEF Remembered
  <2>2. CASE Exit
    BY <1>3, <2>2
  <2>3. QED
    BY <1>4, <2>1, <2>2 DEF Poll
<1>5. CASE Handle
  <2> PICK to \in Height - LogLag .. Height :
        /\ pending' = pending \cup {<<clock, e>> : e \in ReleasedIn(Answered(to))}
        /\ submitted' = [e \in Epochs |-> submitted[e] \cup SubmittedIn(Answered(to), e)]
        /\ finalized' = [e \in Epochs |-> finalized[e] \cup FinalizedIn(Answered(to), e)]
        /\ ~(to < current)
    BY <1>5 DEF Handle
  <2>1. /\ pc = "fetch" /\ last' = current /\ pc' = "force" /\ batches' = batches
        /\ checkpoint' = checkpoint
    BY <1>5 DEF Handle
  <2>2. last \in 0 .. current
    BY <1>0, <1>1, <2>1 DEF Remembered
  <2> DEFINE new == last + 1 .. current
  <2>3. Answered(to) = new
    BY <1>0, DetectorAssumption DEF Answered
  <2>4. PendingEpochs' = PendingEpochs \cup ReleasedIn(new)
    BY <2>3, Gained DEF PendingEpochs
  <2>5. /\ ReleasedIn(1 .. last)' = ReleasedIn(1 .. current)
        /\ \A e \in Epochs : /\ SubmittedIn(1 .. last, e)' = SubmittedIn(1 .. current, e)
                             /\ FinalizedIn(1 .. last, e)' = FinalizedIn(1 .. current, e)
    <3>1. last' \in 0 .. Height /\ checkpoint' \in 0 .. Height
      BY <1>0, <2>1
    <3>2. QED
      BY <1>0, <2>1, <3>1, SaidNow
  <2>6. /\ ReleasedIn(1 .. current) = ReleasedIn(1 .. last) \cup ReleasedIn(new)
        /\ ReleasedIn(1 .. last) \cap ReleasedIn(new) = {}
        /\ \A e \in Epochs :
             /\ SubmittedIn(1 .. current, e) = SubmittedIn(1 .. last, e) \cup SubmittedIn(new, e)
             /\ FinalizedIn(1 .. current, e) = FinalizedIn(1 .. last, e) \cup FinalizedIn(new, e)
             /\ e \in ReleasedIn(new) =>
                  SubmittedIn(1 .. last, e) = {} /\ FinalizedIn(1 .. last, e) = {}
    BY <1>0, <2>2, Pieces
  <2>7. \A e \in Epochs : /\ submitted'[e] = submitted[e] \cup SubmittedIn(new, e)
                          /\ finalized'[e] = finalized[e] \cup FinalizedIn(new, e)
    BY <2>3
  <2>8. ReleasedIn(new) \subseteq Epochs /\ PendingEpochs \subseteq Epochs
    BY <1>0 DEF ReleasedIn, PendingEpochs, TypeInv
  <2>9. \A x, y \in pending' : x[2] = y[2] => x = y
    <3>1. \A x \in pending : x[2] \in PendingEpochs
      BY DEF PendingEpochs
    <3>2. \A x \in pending : x[2] \notin ReleasedIn(new)
      BY <1>1, <2>6, <3>1 DEF Remembered
    <3>3. \A x \in pending' : x \in pending \/ \E e \in ReleasedIn(new) : x = <<clock, e>>
      BY <2>3
    <3>4. QED
      BY <1>1, <3>2, <3>3 DEF Remembered
  <2> HIDE DEF new
  <2>10. PendingEpochs' \subseteq ReleasedIn(1 .. last)'
    BY <1>1, <2>4, <2>5, <2>6 DEF Remembered
  <2>11. \A i \in DOMAIN batches' : \A x \in DOMAIN batches'[i].forces :
           x[2] \in ReleasedIn(1 .. last)' \ PendingEpochs'
    BY <1>1, <2>1, <2>4, <2>5, <2>6 DEF Remembered
  <2>12. \A e \in Epochs : /\ submitted'[e] \subseteq SubmittedIn(1 .. last, e)'
                           /\ finalized'[e] \subseteq FinalizedIn(1 .. last, e)'
    BY <1>1, <2>5, <2>6, <2>7 DEF Remembered
  <2>13. \A e \in PendingEpochs' : /\ SubmittedIn(1 .. last, e)' \subseteq submitted'[e]
                                  /\ FinalizedIn(1 .. last, e)' \subseteq finalized'[e]
    BY <1>1, <2>4, <2>5, <2>6, <2>7, <2>8 DEF Remembered
  <2>14. QED
    BY <2>1, <2>9, <2>10, <2>11, <2>12, <2>13 DEF Remembered
<1>6. CASE ForceDue
  <2>1. /\ pending' = pending \ Due /\ UNCHANGED <<last, checkpoint, submitted, finalized>>
        /\ pc' = "save"
    BY <1>6 DEF ForceDue
  <2>2. PendingEpochs' = PendingEpochs \ DueEpochs /\ DueEpochs \subseteq PendingEpochs
    BY <1>0, <1>1, <2>1, PickedFact DEF Remembered
  <2>3. /\ ReleasedIn(1 .. last)' = ReleasedIn(1 .. last)
        /\ \A e \in Epochs : /\ SubmittedIn(1 .. last, e)' = SubmittedIn(1 .. last, e)
                             /\ FinalizedIn(1 .. last, e)' = FinalizedIn(1 .. last, e)
    <3>1. last' \in 0 .. Height /\ checkpoint' \in 0 .. Height
      BY <1>0, <2>1
    <3>2. QED
      BY <1>0, <2>1, <3>1, SaidNow
  <2>4. PendingEpochs \subseteq Epochs
    BY <1>0 DEF PendingEpochs, TypeInv
  <2>5. \A i \in DOMAIN batches' : \A x \in DOMAIN batches'[i].forces :
          x[2] \in ReleasedIn(1 .. last)' \ PendingEpochs'
    <3>1. CASE batches' = batches
      BY <1>1, <2>2, <2>3, <3>1 DEF Remembered
    <3>2. ASSUME NEW e \in DueEpochs,
                 batches' = Append(batches, [forces |-> [x \in Due |-> Open(x[2])], last |-> e])
          PROVE  \A i \in DOMAIN batches' : \A x \in DOMAIN batches'[i].forces :
                   x[2] \in ReleasedIn(1 .. last)' \ PendingEpochs'
      <4> DEFINE new == [forces |-> [x \in Due |-> Open(x[2])], last |-> e]
      <4>1. new \in Batch /\ DOMAIN new.forces = Due
        BY <1>0, BatchTypes
      <4> HIDE DEF new
      <4>2. batches' = Append(batches, new) /\ batches \in Seq(Batch)
        BY <1>0, <3>2 DEF new, TypeInv
      <4>3. /\ batches' \in Seq(Batch) /\ Len(batches') = Len(batches) + 1
            /\ \A i \in 1 .. Len(batches) : batches'[i] = batches[i]
            /\ batches'[Len(batches) + 1] = new
        BY <4>1, <4>2, AppendProperties
      <4>4. \A i \in DOMAIN batches' : i \in DOMAIN batches \/ i = Len(batches) + 1
        BY <4>2, <4>3, LenProperties
      <4>5. \A i \in DOMAIN batches : i \in 1 .. Len(batches)
        BY <4>2, LenProperties
      <4>6. \A x \in Due : x[2] \in ReleasedIn(1 .. last)' \ PendingEpochs'
        BY <1>1, <2>2, <2>3 DEF Remembered, DueEpochs
      <4>7. ASSUME NEW i \in DOMAIN batches, NEW x \in DOMAIN batches'[i].forces
            PROVE  x[2] \in ReleasedIn(1 .. last)' \ PendingEpochs'
        BY <1>1, <2>2, <2>3, <4>3, <4>5 DEF Remembered
      <4>8. QED
        BY <4>1, <4>3, <4>4, <4>6, <4>7
    <3>3. QED
      BY <1>6, <3>1, <3>2 DEF ForceDue
  <2>6. \A x, y \in pending' : x[2] = y[2] => x = y
    BY <1>1, <2>1 DEF Remembered
  <2>7. QED
    BY <1>1, <2>1, <2>2, <2>3, <2>4, <2>5, <2>6 DEF Remembered
<1>7. CASE EndBatch
  <2> PICK i \in DOMAIN batches : EndBatchAt(i)
    BY <1>7 DEF EndBatch
  <2>1. /\ UNCHANGED <<pc, last, current, checkpoint, pending>>
        /\ PendingEpochs' = PendingEpochs /\ batches' = RemoveAt(batches, i)
    BY DEF EndBatchAt, PendingEpochs
  <2>2. /\ ReleasedIn(1 .. last)' = ReleasedIn(1 .. last)
        /\ \A e \in Epochs : /\ SubmittedIn(1 .. last, e)' = SubmittedIn(1 .. last, e)
                             /\ FinalizedIn(1 .. last, e)' = FinalizedIn(1 .. last, e)
    <3>1. last' \in 0 .. Height /\ checkpoint' \in 0 .. Height
      BY <1>0, <2>1
    <3>2. QED
      BY <1>0, <2>1, <3>1, SaidNow
  <2>3. PendingEpochs \subseteq Epochs /\ batches[i].last \notin PendingEpochs
    BY <1>0, <1>1 DEF PendingEpochs, TypeInv, Remembered, CleansOwn
  <2>4. \A e \in Epochs : /\ submitted'[e] \subseteq submitted[e]
                          /\ finalized'[e] \subseteq finalized[e]
                          /\ e # batches[i].last => submitted'[e] = submitted[e]
                                                   /\ finalized'[e] = finalized[e]
    BY <1>0 DEF EndBatchAt, CleanUp, TypeInv
  <2>5. \A j \in DOMAIN batches' : \E k \in DOMAIN batches : batches'[j] = batches[k]
    BY <1>0, <2>1, TakenOut DEF TypeInv
  <2>6. \A j \in DOMAIN batches' : \A x \in DOMAIN batches'[j].forces :
          x[2] \in ReleasedIn(1 .. last)' \ PendingEpochs'
    BY <1>1, <2>1, <2>2, <2>5 DEF Remembered
  <2>7. \A e \in Epochs : /\ submitted'[e] \subseteq SubmittedIn(1 .. last, e)'
                          /\ finalized'[e] \subseteq FinalizedIn(1 .. last, e)'
    BY <1>1, <2>2, <2>4 DEF Remembered
  <2>8. \A e \in PendingEpochs' : /\ SubmittedIn(1 .. last, e)' \subseteq submitted'[e]
                                 /\ FinalizedIn(1 .. last, e)' \subseteq finalized'[e]
    BY <1>1, <2>1, <2>2, <2>3, <2>4 DEF Remembered
  <2>9. QED
    BY <1>1, <2>1, <2>2, <2>6, <2>7, <2>8 DEF Remembered
<1>8. CASE Setup \/ FetchFails \/ NewBlock \/ Tick \/ UNCHANGED vars
  BY <1>2, <1>8 DEF Setup, FetchFails, NewBlock, Tick, vars
<1>9. CASE Save
  <2>1. CASE Exit
    BY <1>3, <2>1
  <2>2. CASE pc' = "poll" /\ UNCHANGED <<last, memoryVars>>
    BY <1>2, <2>2
  <2>3. QED
    BY <1>9, <2>1, <2>2 DEF Save
<1>10. CASE Crash
  BY <1>3, <1>10 DEF Crash
<1>11. QED
  BY <1>4, <1>5, <1>6, <1>7, <1>8, <1>9, <1>10 DEF Next, Run

\* Without a restart nothing handled gets lost, and nothing picked comes back.
LEMMA SteadyStep == DetectorInv /\ [Next]_vars => SteadyInv'
<1> SUFFICES ASSUME DetectorInv, [Next]_vars, faults' = 0, ~missed' PROVE Kept'
  BY DEF SteadyInv
<1>0. ChainInv /\ TypeInv /\ last \in 0 .. Height /\ current \in 0 .. Height
      /\ checkpoint \in 0 .. Height /\ Height \in Nat /\ faults \in Nat
  BY LenProperties DEF DetectorInv, TypeInv, ChainInv, Height
<1>1. ~Exit \/ faults' # faults + 1
  BY <1>0
<1>2. faults = 0 /\ ~missed
  <2>1. faults' \in {faults, faults + 1}
    BY DEF Next, Run, Setup, Poll, Handle, FetchFails, ForceDue, Save, EndBatch, EndBatchAt,
           Crash, NewBlock, Tick, vars, Fault
  <2>2. ~missed
    BY DEF Next, Run, Setup, Poll, Handle, FetchFails, ForceDue, Save, EndBatch, EndBatchAt,
           Crash, NewBlock, Tick, vars, history
  <2>3. QED
    BY <1>0, <2>1, <2>2
<1>3. Kept /\ Remembered
  BY <1>2 DEF DetectorInv, SteadyInv, MemoryInv
<1>4. ASSUME NEW kind, Fault(kind) PROVE FALSE
  BY <1>0, <1>4 DEF Fault
<1>5. ASSUME last' = last \/ (last = 0 /\ last' = checkpoint),
             checkpoint' = checkpoint \/ checkpoint' = last,
             UNCHANGED <<pending, picked>>
      PROVE  Kept'
  <2>1. last' \in 0 .. Height /\ checkpoint' \in 0 .. Height
    BY <1>0, <1>5
  <2>2. /\ ReleasedIn(1 .. last)' = ReleasedIn(1 .. last')
        /\ ReleasedIn(1 .. checkpoint)' = ReleasedIn(1 .. checkpoint')
    BY <1>0, <2>1, SaidNow
  <2>3. PendingEpochs' = PendingEpochs
    BY <1>5 DEF PendingEpochs
  <2>4. ReleasedIn(1 .. last) \subseteq ReleasedIn(1 .. last')
    BY <1>0, <1>5, Empty
  <2>5. QED
    BY <1>3, <1>5, <2>2, <2>3, <2>4 DEF Kept
<1>6. CASE Poll
  <2> PICK h \in ObservedHeads :
        last' = AfterJump(h, LastProcessed(h)) /\ ~PassesOver(h) /\ UNCHANGED memoryVars
    BY <1>4, <1>6 DEF Poll
  <2>1. last' = Known
    BY <1>0, PollFact
  <2>2. UNCHANGED <<pending, checkpoint, picked>>
    BY <1>6 DEF Poll, memoryVars
  <2>3. last' = last \/ (last = 0 /\ last' = checkpoint)
    BY <2>1 DEF Known
  <2>4. QED
    BY <1>5, <2>2, <2>3
<1>7. CASE Handle
  <2> PICK to \in Height - LogLag .. Height :
        /\ pending' = pending \cup {<<clock, e>> : e \in ReleasedIn(Answered(to))}
        /\ ~(to < current)
    BY <1>7 DEF Handle
  <2>1. pc = "fetch" /\ last' = current /\ checkpoint' = checkpoint /\ picked' = picked
    BY <1>7 DEF Handle
  <2>2. last \in 0 .. current
    BY <1>0, <1>3, <2>1 DEF Remembered
  <2> DEFINE new == last + 1 .. current
  <2>3. Answered(to) = new
    BY <1>0, DetectorAssumption DEF Answered
  <2>4. PendingEpochs' = PendingEpochs \cup ReleasedIn(new)
    BY <2>3, Gained DEF PendingEpochs
  <2>5. /\ ReleasedIn(1 .. last)' = ReleasedIn(1 .. current)
        /\ ReleasedIn(1 .. checkpoint)' = ReleasedIn(1 .. checkpoint)
    <3>1. last' \in 0 .. Height /\ checkpoint' \in 0 .. Height
      BY <1>0, <2>1
    <3>2. QED
      BY <1>0, <2>1, <3>1, SaidNow
  <2>6. /\ ReleasedIn(1 .. current) = ReleasedIn(1 .. last) \cup ReleasedIn(new)
        /\ ReleasedIn(1 .. last) \cap ReleasedIn(new) = {}
    BY <1>0, <2>2, Pieces
  <2> HIDE DEF new
  <2>7. QED
    BY <1>3, <2>1, <2>4, <2>5, <2>6 DEF Kept
<1>8. CASE ForceDue
  <2>1. /\ pending' = pending \ Due /\ UNCHANGED <<last, checkpoint>>
        /\ picked' = picked \cup DueEpochs
    BY <1>8 DEF ForceDue
  <2>2. PendingEpochs' = PendingEpochs \ DueEpochs /\ DueEpochs \subseteq PendingEpochs
    BY <1>0, <1>3, <2>1, PickedFact DEF Remembered
  <2>3. /\ ReleasedIn(1 .. last)' = ReleasedIn(1 .. last)
        /\ ReleasedIn(1 .. checkpoint)' = ReleasedIn(1 .. checkpoint)
    <3>1. last' \in 0 .. Height /\ checkpoint' \in 0 .. Height
      BY <1>0, <2>1
    <3>2. QED
      BY <1>0, <2>1, <3>1, SaidNow
  <2>4. DueEpochs \subseteq ReleasedIn(1 .. last)
    BY <1>3, <2>2 DEF Remembered
  <2>5. QED
    BY <1>3, <2>1, <2>2, <2>3, <2>4 DEF Kept
<1>9. CASE Save
  <2>1. checkpoint' = last /\ UNCHANGED <<last, pending, picked>>
    BY <1>4, <1>9 DEF Save, SaveLast, memoryVars, history
  <2>2. QED
    BY <1>5, <2>1
<1>10. CASE Setup \/ FetchFails \/ EndBatch \/ NewBlock \/ Tick \/ UNCHANGED vars
  <2>1. UNCHANGED <<last, checkpoint, pending, picked>>
    BY <1>10 DEF Setup, FetchFails, EndBatch, EndBatchAt, NewBlock, Tick, vars, memoryVars,
                history
  <2>2. QED
    BY <1>5, <2>1
<1>11. CASE Crash
  BY <1>4, <1>11 DEF Crash
<1>12. QED
  BY <1>6, <1>7, <1>8, <1>9, <1>10, <1>11 DEF Next, Run

-----------------------------------------------------------------------------
(* The theorems.                                                           *)

\* The invariant holds, whatever fails, lags or restarts.
LEMMA Invariance == Spec => []DetectorInv
<1>1. Init => DetectorInv
  BY DetectorInit
<1>2. DetectorInv /\ [Next]_vars => DetectorInv'
  BY ChainStep, TypeStep, ReleasedStep, MemoryStep, SteadyStep DEF DetectorInv
<1>3. QED
  BY <1>1, <1>2, PTL DEF Spec

\* Types: no block number turns negative, and redis never holds a block the chain
\* does not have.
THEOREM DetectorTypes == Spec => []TypeOK
<1>1. DetectorInv => TypeOK
  <2> SUFFICES ASSUME TypeInv, ChainInv PROVE TypeOK
    BY DEF DetectorInv
  <2>1. last \in Nat /\ current \in Nat
    BY DEF TypeInv
  <2>2. QED
    BY <2>1 DEF TypeInv, TypeOK, CleansOwn
<1>2. QED
  BY <1>1, Invariance, PTL

\* What the process remembers of a pending epoch is what the chain says, across
\* restarts and clean-ups, until a block is missed.
THEOREM RemembersAll == Spec => []MemoryExact
<1>1. DetectorInv => MemoryExact
  <2> SUFFICES ASSUME TypeInv, Remembered PROVE \A e \in PendingEpochs :
                          /\ submitted[e] = SubmittedIn(1 .. last, e)
                          /\ finalized[e] = FinalizedIn(1 .. last, e)
    BY DEF DetectorInv, MemoryInv, MemoryExact
  <2>1. PendingEpochs \subseteq Epochs
    BY DEF PendingEpochs, TypeInv
  <2>2. QED
    BY <2>1 DEF Remembered
<1>2. QED
  BY <1>1, Invariance, PTL

\* Until a fault or a missed block, an epoch the checkpoint covers is pending or
\* was dealt with.
THEOREM LosesNoEpoch == Spec => []SteadyKeeps
<1>1. DetectorInv => SteadyKeeps
  BY DEF DetectorInv, SteadyInv, Kept, SteadyKeeps, NoEpochLost
<1>2. QED
  BY <1>1, Invariance, PTL

\* Until a fault or a missed block, no epoch is dealt with twice.
THEOREM PicksOnce == Spec => PickedOnce
<1>1. DetectorInv /\ [Next]_vars =>
        [pc = "force" /\ pc' = "save" /\ faults = 0 /\ ~missed => DueEpochs \cap picked = {}]_vars
  <2> SUFFICES ASSUME DetectorInv, faults = 0, ~missed PROVE DueEpochs \cap picked = {}
    OBVIOUS
  <2>1. DueEpochs \subseteq PendingEpochs
    BY DEF DueEpochs, Due, PendingEpochs
  <2>2. QED
    BY <2>1 DEF DetectorInv, SteadyInv, Kept
<1>2. QED
  BY <1>1, Invariance, PTL DEF Spec, PickedOnce

\* An epoch is due in memory only after its window is over on the chain.
LEMMA DueIsOver ==
  ASSUME DetectorInv, NEW e \in DueEpochs
  PROVE  clock > ReleaseTime(e) + Window
<1>1. PICK x \in pending : x[2] = e /\ x[1] + Window < clock
  BY DEF DueEpochs, Due, Expired
<1>2. PICK b \in 1 .. Height : IsRelease(b, e) /\ chain[b].time <= x[1]
  BY <1>1 DEF DetectorInv, PendingReleased
<1>3. e \in Epochs /\ x[1] \in Nat
  BY <1>1 DEF DetectorInv, TypeInv
<1>4. \A d \in Logged(1 .. Height, "released", e) : d = b
  BY <1>2, <1>3 DEF Logged, DetectorInv, ChainInv, IsRelease
<1>5. b \in Logged(1 .. Height, "released", e)
  BY <1>2 DEF Logged, DetectorInv, ChainInv, IsRelease, Height
<1>6. ReleaseTime(e) = chain[b].time
  BY <1>4, <1>5 DEF ReleaseTime
<1>7. chain[b].time \in Nat /\ clock \in Nat /\ Window \in Nat
  BY BlockFact, DetectorAssumption DEF DetectorInv, ChainInv
<1>8. QED
  BY <1>1, <1>2, <1>3, <1>6, <1>7

\* A batch forces epochs whose window is over on the anchor chain, and, until a
\* block is missed, exactly the projects open there.
THEOREM ForcesWhatIsOpen == Spec => ForcesOpen
<1> DEFINE Forced ==
      Len(batches') > Len(batches) =>
        LET forces == batches'[Len(batches')].forces IN
        \A x \in DOMAIN forces :
          /\ clock > ReleaseTime(x[2]) + Window
          /\ ~missed =>
               forces[x] = SubmittedIn(1 .. last, x[2]) \ FinalizedIn(1 .. last, x[2])
<1>1. DetectorInv /\ [Next]_vars => [Forced]_vars
  <2> SUFFICES ASSUME DetectorInv, [Next]_vars, Len(batches') > Len(batches) PROVE Forced
    OBVIOUS
  <2>0. batches \in Seq(Batch) /\ Len(batches) \in Nat /\ TypeInv
    BY LenProperties DEF DetectorInv, TypeInv
  <2>1. CASE ForceDue
    <3>1. PICK e \in DueEpochs :
            batches' = Append(batches, [forces |-> [x \in Due |-> Open(x[2])], last |-> e])
      <4>1. batches' # batches
        BY <2>0
      <4>2. QED
        BY <2>1, <4>1 DEF ForceDue
    <3> DEFINE forces == [x \in Due |-> Open(x[2])]
    <3>2. batches'[Len(batches')].forces = forces
      BY <2>0, <3>1, BatchTypes, AppendProperties
    <3>3. \A x \in Due : clock > ReleaseTime(x[2]) + Window
      BY DueIsOver DEF DueEpochs
    <3>4. ASSUME ~missed, NEW x \in Due
          PROVE  Open(x[2]) = SubmittedIn(1 .. last, x[2]) \ FinalizedIn(1 .. last, x[2])
      <4>1. x[2] \in PendingEpochs /\ x[2] \in Epochs
        BY <2>0 DEF Due, PendingEpochs, TypeInv
      <4>2. /\ submitted[x[2]] = SubmittedIn(1 .. last, x[2])
            /\ finalized[x[2]] = FinalizedIn(1 .. last, x[2])
        BY <3>4, <4>1 DEF DetectorInv, MemoryInv, Remembered
      <4>3. QED
        BY <4>2 DEF Open
    <3>5. QED
      BY <3>2, <3>3, <3>4
  <2>2. CASE EndBatch
    BY <2>0, <2>2, TakenOut DEF EndBatch, EndBatchAt
  <2>3. CASE Exit
    BY <2>0, <2>3 DEF Exit
  <2>4. CASE batches' = batches
    BY <2>0, <2>4
  <2>5. QED
    BY <2>1, <2>2, <2>3, <2>4
       DEF Next, Run, Setup, Poll, Handle, FetchFails, Save, Crash, NewBlock, Tick, vars,
           memoryVars
<1>2. QED
  BY <1>1, Invariance, PTL DEF Spec, ForcesOpen
=============================================================================
