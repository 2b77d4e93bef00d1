------------------------- MODULE ConstructRPCProofs -------------------------
(***************************************************************************)
(* What ConstructRPC guarantees for every list of distinct urls, and every *)
(* limit and number of tries.                                              *)
(***************************************************************************)
EXTENDS ConstructRPC, Integers, SequenceTheorems, TLAPS

\* No url is listed twice.
Distinct == \A i, j \in DOMAIN Urls : Urls[i] = Urls[j] => i = j

-----------------------------------------------------------------------------
(* The invariant.                                                          *)

\* The urls before the m-th were asked k + 1 times in this try, the others k times.
Turn(k, m) == \A j \in DOMAIN Urls : retry[Urls[j]] = IF j < m THEN k + 1 ELSE k

\* A round has asked all urls before the one at hand, and a limit that is reached
\* is reached by all urls together.
TurnInv ==
  /\ pc = "round" => \E k \in 0 .. Limit : Turn(k, 1)
  /\ pc = "ask" => \E k \in 0 .. Limit - 1 : Turn(k, at)
  /\ \E k \in 0 .. Limit : Turn(k, 1) \/ \E m \in 1 .. Len(Urls) + 1 : Turn(k, m) /\ k < Limit

\* A call that gave up heard something, or has asked all there was to ask.
GaveUp ==
  /\ pc \in {"bail", "unbound"} =>
       ~(heard \subseteq {"raises"}) \/ \A u \in Range(Urls) : retry[u] = Limit
  /\ pc = "unbound" => tries + 1 = Tries

CallTypes ==
  /\ pc \in {"idle", "round", "ask"} \cup Over
  /\ procedure \in Procedures
  /\ retry \in [Range(Urls) -> Nat]
  /\ at \in DOMAIN Urls /\ tries \in 0 .. Tries - 1
  /\ heard \subseteq Replies

CallInv == CallTypes /\ TurnInv /\ GaveUp

LEMMA UrlsFact ==
  /\ Len(Urls) \in Nat \ {0} /\ DOMAIN Urls = 1 .. Len(Urls)
  /\ Limit \in Nat /\ Tries \in Nat \ {0}
  /\ \A j \in DOMAIN Urls : Urls[j] \in Range(Urls)
  /\ \A u \in Range(Urls) : \E j \in DOMAIN Urls : u = Urls[j]
<1>1. Urls \in Seq(Range(Urls)) /\ Urls # <<>>
  BY CallAssumption
<1>2. Len(Urls) \in Nat \ {0} /\ DOMAIN Urls = 1 .. Len(Urls)
  BY <1>1, LenProperties, EmptySeq
<1>3. Limit \in Nat /\ Tries \in Nat \ {0}
  BY CallAssumption
<1>4. QED
  BY <1>2, <1>3 DEF Range

\* No requests: all urls are even.
LEMMA NoneAsked ==
  ASSUME retry' = NoRequests
  PROVE  Turn(0, 1)' /\ retry' \in [Range(Urls) -> Nat]
BY UrlsFact DEF Turn, NoRequests

\* One request more moves the turn on.
LEMMA AskedNow ==
  ASSUME Distinct, CallTypes, NEW k \in 0 .. Limit - 1, Turn(k, at)
  PROVE  /\ \A j \in DOMAIN Urls : Counted(Urls[at])[Urls[j]] = IF j < at + 1 THEN k + 1 ELSE k
         /\ Counted(Urls[at]) \in [Range(Urls) -> Nat]
<1>1. at \in DOMAIN Urls /\ retry \in [Range(Urls) -> Nat] /\ Urls[at] \in Range(Urls)
  BY UrlsFact DEF CallTypes
<1>2. Counted(Urls[at]) = [retry EXCEPT ![Urls[at]] = retry[Urls[at]] + 1]
  BY DEF Counted
<1>3. Counted(Urls[at]) \in [Range(Urls) -> Nat]
  BY <1>1, <1>2
<1>4. ASSUME NEW j \in DOMAIN Urls
      PROVE  Counted(Urls[at])[Urls[j]] = IF j < at + 1 THEN k + 1 ELSE k
  <2>1. retry[Urls[j]] = IF j < at THEN k + 1 ELSE k
    BY DEF Turn
  <2>2. CASE j = at
    BY <1>1, <1>2, <2>1, <2>2, UrlsFact
  <2>3. CASE j # at
    <3>1. Counted(Urls[at])[Urls[j]] = retry[Urls[j]]
      BY <1>1, <1>2, <2>3, UrlsFact DEF Distinct
    <3>2. j < at + 1 <=> j < at
      BY <1>1, <2>3, UrlsFact
    <3>3. QED
      BY <2>1, <3>1, <3>2
  <2>4. QED
    BY <2>2, <2>3
<1>5. QED
  BY <1>3, <1>4

LEMMA CallInit == Init => CallInv
<1> SUFFICES ASSUME Init PROVE CallInv
  OBVIOUS
<1>1. retry = NoRequests /\ pc = "idle" /\ at = 1 /\ tries = 0
  BY DEF Init
<1>2. Turn(0, 1) /\ retry \in [Range(Urls) -> Nat]
  BY <1>1, UrlsFact DEF Turn, NoRequests
<1>3. at \in DOMAIN Urls /\ tries \in 0 .. Tries - 1 /\ 0 \in 0 .. Limit
  BY <1>1, UrlsFact
<1>4. CallTypes
  BY <1>1, <1>2, <1>3 DEF Init, CallTypes, Procedures
<1>5. QED
  BY <1>1, <1>2, <1>3, <1>4 DEF CallInv, TurnInv, GaveUp, Over

\* An exception ends the call, or the next try starts without requests.
LEMMA Raised ==
  ASSUME CallTypes, NEW requests \in [Range(Urls) -> Nat], Raise(requests),
         NEW k \in 0 .. Limit, NEW m \in 1 .. Len(Urls) + 1, m = 1 \/ k < Limit,
         \A j \in DOMAIN Urls : requests[Urls[j]] = IF j < m THEN k + 1 ELSE k,
         ~(heard' \subseteq {"raises"}) \/ \A u \in Range(Urls) : requests[u] = Limit,
         heard' \subseteq Replies, procedure' = procedure
  PROVE  CallInv'
<1>1. ASSUME retry' = requests, UNCHANGED <<at, tries>>, pc' \in {"bail", "unbound"},
             pc' = "unbound" => tries + 1 = Tries
      PROVE  CallInv'
  <2>1. CallTypes'
    BY <1>1 DEF CallTypes, Over
  <2>2. Turn(k, m)'
    BY <1>1 DEF Turn
  <2>3. TurnInv'
    <3>1. (\E c \in 0 .. Limit : Turn(c, 1) \/ \E n \in 1 .. Len(Urls) + 1 : Turn(c, n) /\ c < Limit)'
      BY <2>2
    <3>2. QED
      BY <1>1, <3>1 DEF TurnInv
  <2>4. GaveUp'
    BY <1>1 DEF GaveUp
  <2>5. QED
    BY <2>1, <2>3, <2>4 DEF CallInv
<1>2. ASSUME retry' = NoRequests, at' = 1, pc' = "round", tries' \in 0 .. Tries - 1
      PROVE  CallInv'
  <2>1. Turn(0, 1)' /\ retry' \in [Range(Urls) -> Nat] /\ 0 \in 0 .. Limit
    BY <1>2, NoneAsked, UrlsFact
  <2>2. CallTypes'
    BY <1>2, <2>1, UrlsFact DEF CallTypes
  <2>3. QED
    BY <1>2, <2>1, <2>2 DEF CallInv, TurnInv, GaveUp
<1>3. tries \in Nat /\ Tries \in Nat /\ tries <= Tries - 1
  BY UrlsFact DEF CallTypes
<1>4. tries + 1 < Tries => tries + 1 \in 0 .. Tries - 1
  BY <1>3
<1>5. tries + 1 >= Tries => tries + 1 = Tries
  BY <1>3
<1>6. QED
  BY <1>1, <1>2, <1>4, <1>5 DEF Raise

LEMMA CallStep ==
  ASSUME Distinct
  PROVE  CallInv /\ [Next]_vars => CallInv'
<1> SUFFICES ASSUME CallInv, [Next]_vars PROVE CallInv'
  OBVIOUS
<1>0. CallTypes /\ TurnInv /\ GaveUp
  BY DEF CallInv
<1>1. CASE Call
  <2>1. Turn(0, 1)' /\ retry' \in [Range(Urls) -> Nat] /\ 0 \in 0 .. Limit
    BY <1>1, NoneAsked, UrlsFact DEF Call
  <2>2. CallTypes'
    BY <1>1, <2>1, UrlsFact DEF Call, CallTypes
  <2>3. QED
    BY <1>1, <2>1, <2>2 DEF CallInv, TurnInv, GaveUp, Call
<1>2. CASE Round
  <2> PICK k \in 0 .. Limit : Turn(k, 1)
    BY <1>0, <1>2 DEF Round, TurnInv
  <2>0. UNCHANGED <<procedure, heard>> /\ retry \in [Range(Urls) -> Nat] /\ heard \subseteq Replies
    BY <1>0, <1>2 DEF Round, CallTypes
  <2>1. CASE Exhausted /\ Raise(retry)
    <3>1. \A u \in Range(Urls) : retry[u] = Limit
      BY <2>1 DEF Exhausted
    <3>2. \A j \in DOMAIN Urls : retry[Urls[j]] = IF j < 1 THEN k + 1 ELSE k
      BY DEF Turn
    <3>3. 1 \in 1 .. Len(Urls) + 1
      BY UrlsFact
    <3>4. QED
      BY <1>0, <2>0, <2>1, <3>1, <3>2, <3>3, Raised
  <2>2. CASE ~Exhausted /\ pc' = "ask" /\ at' = 1 /\ UNCHANGED <<retry, tries>>
    <3>1. k < Limit
      <4>1. PICK j \in DOMAIN Urls : retry[Urls[j]] # Limit
        BY <2>2, UrlsFact DEF Exhausted
      <4>2. retry[Urls[j]] = k
        BY UrlsFact DEF Turn
      <4>3. QED
        BY <4>1, <4>2, UrlsFact
    <3>2. k \in 0 .. Limit - 1
      BY <3>1, UrlsFact
    <3>3. Turn(k, 1)'
      BY <2>2 DEF Turn
    <3>4. \A n \in {at'} : Turn(k, n)'
      BY <2>2, <3>3
    <3>5. CallTypes'
      BY <1>0, <2>0, <2>2, UrlsFact DEF CallTypes
    <3>6. TurnInv'
      BY <2>2, <3>2, <3>3, <3>4 DEF TurnInv, Turn
    <3>7. QED
      BY <2>2, <3>5, <3>6 DEF CallInv, GaveUp
  <2>3. QED
    BY <1>2, <2>1, <2>2 DEF Round
<1>3. CASE Ask
  <2> PICK reply \in Replies :
        /\ heard' = heard \cup {reply}
        /\ \/ reply = "result" /\ pc' = "answered"
              /\ retry' = Counted(Urls[at]) /\ UNCHANGED <<at, tries>>
           \/ PassedOver(reply) /\ NextUrl
              /\ retry' = Counted(Urls[at]) /\ UNCHANGED tries
           \/ reply # "result" /\ ~PassedOver(reply) /\ Raise(Counted(Urls[at]))
    BY <1>3 DEF Ask
  <2> PICK k \in 0 .. Limit - 1 : Turn(k, at)
    BY <1>0, <1>3 DEF Ask, TurnInv
  <2>0. /\ procedure' = procedure /\ heard' \subseteq Replies /\ k \in 0 .. Limit /\ k < Limit
        /\ at \in 1 .. Len(Urls) /\ at + 1 \in 1 .. Len(Urls) + 1 /\ k + 1 \in 0 .. Limit
    BY <1>0, <1>3, UrlsFact DEF Ask, CallTypes
  <2>1. ASSUME retry' = Counted(Urls[at]), UNCHANGED tries, at' \in DOMAIN Urls,
               pc' \in {"answered", "ask", "round"},
               pc' = "ask" => at' = at + 1, pc' = "round" => at = Len(Urls)
        PROVE  CallInv'
    <3>1. /\ \A j \in DOMAIN Urls : retry'[Urls[j]] = IF j < at + 1 THEN k + 1 ELSE k
          /\ retry' \in [Range(Urls) -> Nat]
      BY <1>0, <2>1, AskedNow
    <3>2. PICK m \in 1 .. Len(Urls) + 1 : m = at + 1
      BY <2>0
    <3>3. Turn(k, m)'
      BY <3>1, <3>2 DEF Turn
    <3>4. pc' = "ask" => Turn(k, at)'
      BY <2>1, <3>1 DEF Turn
    <3>5. ASSUME pc' = "round" PROVE Turn(k + 1, 1)'
      <4>1. \A j \in DOMAIN Urls : j < at + 1 /\ ~(j < 1)
        BY <2>1, <3>5, UrlsFact
      <4>2. PICK c \in 0 .. Limit : c = k + 1
        BY <2>0
      <4>3. Turn(c, 1)'
        BY <3>1, <4>1, <4>2 DEF Turn
      <4>4. QED
        BY <4>2, <4>3
    <3>6. (\E c \in 0 .. Limit : Turn(c, 1) \/ \E n \in 1 .. Len(Urls) + 1 : Turn(c, n) /\ c < Limit)'
      BY <2>0, <3>3
    <3>7. TurnInv'
      BY <2>0, <3>4, <3>5, <3>6 DEF TurnInv
    <3>8. CallTypes'
      BY <1>0, <2>0, <2>1, <3>1 DEF CallTypes, Over
    <3>9. QED
      BY <2>1, <3>7, <3>8 DEF CallInv, GaveUp
  <2>2. CASE reply = "result" /\ pc' = "answered"
             /\ retry' = Counted(Urls[at]) /\ UNCHANGED <<at, tries>>
    BY <1>0, <2>1, <2>2 DEF CallTypes
  <2>3. CASE NextUrl /\ retry' = Counted(Urls[at]) /\ UNCHANGED tries
    <3>1. CASE at < Len(Urls)
      <4>1. at' = at + 1 /\ pc' = "ask" /\ at' \in DOMAIN Urls
        BY <1>3, <2>0, <2>3, <3>1, UrlsFact DEF NextUrl, Ask
      <4>2. QED
        BY <2>1, <2>3, <4>1
    <3>2. CASE ~(at < Len(Urls))
      <4>1. at' = at /\ pc' = "round" /\ at = Len(Urls)
        <5>1. at' = at /\ pc' = "round"
          BY <2>3, <3>2 DEF NextUrl
        <5>2. at = Len(Urls)
          <6>1. at \in 1 .. Len(Urls)
            BY <2>0
          <6>2. Len(Urls) \in Nat
            BY UrlsFact
          <6>3. QED
            BY <3>2, <6>1, <6>2
        <5>3. QED
          BY <5>1, <5>2
      <4>2. QED
        BY <1>0, <2>1, <2>3, <4>1 DEF CallTypes
    <3>3. QED
      BY <3>1, <3>2
  <2>4. CASE reply # "result" /\ ~PassedOver(reply) /\ Raise(Counted(Urls[at]))
    <3>1. ~(heard' \subseteq {"raises"})
      BY <2>4 DEF PassedOver
    <3> DEFINE requests == Counted(Urls[at])
    <3>2. /\ \A j \in DOMAIN Urls : requests[Urls[j]] = IF j < at + 1 THEN k + 1 ELSE k
          /\ requests \in [Range(Urls) -> Nat]
      BY <1>0, AskedNow
    <3>3. QED
      BY <1>0, <2>0, <2>4, <3>1, <3>2, Raised
  <2>5. QED
    BY <2>2, <2>3, <2>4
<1>4. CASE UNCHANGED vars
  BY <1>0, <1>4 DEF vars, CallInv, CallTypes, TurnInv, Turn, GaveUp
<1>5. QED
  BY <1>1, <1>2, <1>3, <1>4 DEF Next

-----------------------------------------------------------------------------
(* The theorems.                                                           *)

LEMMA CallInvariance ==
  ASSUME Distinct
  PROVE  Spec => []CallInv
<1>1. Init => CallInv
  BY CallInit
<1>2. CallInv /\ [Next]_vars => CallInv'
  BY CallStep
<1>3. QED
  BY <1>1, <1>2, PTL DEF Spec

\* No url is asked more than Limit times in one try.
THEOREM CallTypeCorrect ==
  ASSUME Distinct
  PROVE  Spec => []TypeOK
<1>1. CallInv => TypeOK
  <2> SUFFICES ASSUME CallInv PROVE TypeOK
    OBVIOUS
  <2>1. PICK k \in 0 .. Limit :
          Turn(k, 1) \/ \E m \in 1 .. Len(Urls) + 1 : Turn(k, m) /\ k < Limit
    BY DEF CallInv, TurnInv
  <2>2. \A j \in DOMAIN Urls : retry[Urls[j]] \in 0 .. Limit
    BY <2>1, UrlsFact DEF Turn
  <2>3. retry \in [Range(Urls) -> 0 .. Limit]
    BY <2>2, UrlsFact DEF CallInv, CallTypes
  <2>4. QED
    BY <2>3 DEF CallInv, CallTypes, TypeOK
<1>2. QED
  BY <1>1, CallInvariance, PTL

\* The nodes are asked in turn: none is asked twice more than another, and an
\* earlier one never less often than a later one.
THEOREM AsksInTurn ==
  ASSUME Distinct
  PROVE  Spec => []InTurn
<1>1. CallInv => InTurn
  <2> SUFFICES ASSUME CallInv, NEW i \in DOMAIN Urls, NEW j \in DOMAIN Urls, i < j
               PROVE  retry[Urls[i]] - retry[Urls[j]] \in {0, 1}
    BY DEF InTurn
  <2>1. PICK k \in 0 .. Limit, m \in 1 .. Len(Urls) + 1 : Turn(k, m)
    BY UrlsFact DEF CallInv, TurnInv
  <2>2. /\ retry[Urls[i]] = IF i < m THEN k + 1 ELSE k
        /\ retry[Urls[j]] = IF j < m THEN k + 1 ELSE k
    BY <2>1 DEF Turn
  <2>3. QED
    BY <2>2, UrlsFact
<1>2. QED
  BY <1>1, CallInvariance, PTL

\* A call gives up for want of an answer only when every url was asked Limit times,
\* in the last of its tries.
THEOREM GivesUpLast ==
  ASSUME Distinct
  PROVE  Spec => []GivesUpExhausted
<1>1. CallInv => GivesUpExhausted
  BY DEF CallInv, GaveUp, GivesUpExhausted
<1>2. QED
  BY <1>1, CallInvariance, PTL

-----------------------------------------------------------------------------
(* The steps a call has left.                                              *)

\* The steps of r rounds: a request to each url, and the test.
Rounds(r) == r * (Len(Urls) + 1)

\* The steps of the tries after the t-th.
Later(t) == (Tries - t - 1) * (Rounds(Limit) + 1)

\* The steps left, with k rounds over.
LEMMA StepsLeftIs ==
  /\ \A k : retry[Urls[Len(Urls)]] = k =>
       /\ pc = "round" => StepsLeft = Later(tries) + Rounds(Limit - k) + 1
       /\ pc = "ask" => StepsLeft = Later(tries) + (Rounds(Limit - k) - at) + 1
  /\ \A k : retry'[Urls[Len(Urls)]] = k =>
       /\ pc' = "round" => StepsLeft' = Later(tries') + Rounds(Limit - k) + 1
       /\ pc' = "ask" => StepsLeft' = Later(tries') + (Rounds(Limit - k) - at') + 1
  /\ pc' \in Over => StepsLeft' = 0
BY DEF StepsLeft, Later, Rounds, Over

LEMMA RoundsFact ==
  ASSUME NEW r \in Nat
  PROVE  Rounds(r) \in Nat /\ Rounds(r + 1) = Rounds(r) + (Len(Urls) + 1)
<1> PICK m \in Nat : m = Len(Urls) + 1
  BY UrlsFact
<1>1. r * m \in Nat /\ (r + 1) * m = r * m + m
  OBVIOUS
<1>2. QED
  BY <1>1 DEF Rounds

LEMMA LaterFact ==
  ASSUME NEW t \in 0 .. Tries - 1
  PROVE  /\ Later(t) \in Nat
         /\ t + 1 < Tries => Later(t) = Later(t + 1) + Rounds(Limit) + 1
<1> PICK w \in Nat : w = Rounds(Limit) + 1
  BY UrlsFact, RoundsFact
<1> PICK d \in Nat : d = Tries - t - 1
  BY UrlsFact
<1>1. Later(t) = d * w /\ d * w \in Nat
  BY DEF Later
<1>2. ASSUME t + 1 < Tries PROVE Later(t) = Later(t + 1) + Rounds(Limit) + 1
  <2> PICK e \in Nat : d = e + 1
    BY <1>2, UrlsFact
  <2>1. Tries - (t + 1) - 1 = e
    BY UrlsFact
  <2>2. Later(t + 1) = e * w
    BY <2>1 DEF Later
  <2>3. (e + 1) * w = e * w + w /\ e * w \in Nat
    OBVIOUS
  <2>4. Rounds(Limit) \in Nat
    BY UrlsFact, RoundsFact
  <2>5. QED
    BY <1>1, <2>2, <2>3, <2>4
<1>3. QED
  BY <1>1, <1>2

\* An exception leaves at most the later tries.
LEMMA RaisedWork ==
  ASSUME CallTypes, NEW requests, Raise(requests)
  PROVE  StepsLeft' \in 0 .. Later(tries)
<1>1. tries \in 0 .. Tries - 1 /\ Later(tries) \in Nat
  BY LaterFact DEF CallTypes
<1>2. CASE pc' \in Over
  BY <1>1, <1>2, StepsLeftIs
<1>3. CASE tries + 1 < Tries /\ tries' = tries + 1 /\ pc' = "round" /\ retry' = NoRequests
  <2>1. retry'[Urls[Len(Urls)]] = 0
    BY <1>3, UrlsFact DEF NoRequests
  <2>2. StepsLeft' = Later(tries + 1) + Rounds(Limit - 0) + 1
    BY <1>3, <2>1, StepsLeftIs
  <2>3. Limit - 0 = Limit
    BY UrlsFact
  <2>4. Later(tries) = Later(tries + 1) + Rounds(Limit) + 1
    BY <1>1, <1>3, LaterFact
  <2>5. QED
    BY <1>1, <2>2, <2>3, <2>4
<1>4. QED
  BY <1>2, <1>3 DEF Raise, Over

\* The test at the top of the loop is a step less.
LEMMA RoundWork ==
  ASSUME CallInv, Round
  PROVE  StepsLeft' \in 0 .. StepsLeft - 1
<1>0. CallTypes /\ tries \in 0 .. Tries - 1 /\ Later(tries) \in Nat
  BY LaterFact DEF CallInv, CallTypes
<1> PICK k \in 0 .. Limit : Turn(k, 1)
  BY DEF CallInv, TurnInv, Round
<1>1. retry[Urls[Len(Urls)]] = k
  BY UrlsFact DEF Turn
<1> PICK r \in Nat : r = Limit - k
  BY UrlsFact
<1>2. StepsLeft = Later(tries) + Rounds(r) + 1 /\ Rounds(r) \in Nat
  BY <1>1, StepsLeftIs, RoundsFact DEF Round
<1>3. CASE Exhausted /\ Raise(retry)
  <2>1. StepsLeft' \in 0 .. Later(tries)
    BY <1>0, <1>3, RaisedWork
  <2>2. QED
    BY <1>0, <1>2, <2>1
<1>4. CASE ~Exhausted /\ pc' = "ask" /\ at' = 1 /\ UNCHANGED <<retry, tries>>
  <2>1. StepsLeft' = Later(tries) + (Rounds(r) - 1) + 1
    BY <1>1, <1>4, StepsLeftIs
  <2>2. QED
    BY <1>0, <1>2, <2>1
<1>5. QED
  BY <1>3, <1>4 DEF Round

\* And so is a request.
LEMMA AskWork ==
  ASSUME Distinct, CallInv, Ask
  PROVE  StepsLeft' \in 0 .. StepsLeft - 1
<1>0. /\ CallTypes /\ tries \in 0 .. Tries - 1 /\ Later(tries) \in Nat
      /\ at \in 1 .. Len(Urls) /\ Len(Urls) \in DOMAIN Urls /\ Len(Urls) \in Nat
  BY UrlsFact, LaterFact DEF CallInv, CallTypes
<1> PICK k \in 0 .. Limit - 1 : Turn(k, at)
  BY DEF CallInv, TurnInv, Ask
<1>1. retry[Urls[Len(Urls)]] = k
  BY <1>0 DEF Turn
<1> PICK r \in Nat : Limit - k = r + 1 /\ Limit - (k + 1) = r
  BY UrlsFact
<1> PICK s \in Nat : s = Rounds(r)
  BY RoundsFact
<1>2. Rounds(r + 1) = s + (Len(Urls) + 1)
  BY RoundsFact
<1> PICK l \in Nat : l = Later(tries)
  BY <1>0
<1> PICK n \in Nat : n = Len(Urls)
  BY <1>0
<1> PICK a \in 1 .. n : a = at
  BY <1>0
<1>3. StepsLeft = l + ((s + (n + 1)) - a) + 1
  BY <1>0, <1>1, <1>2, StepsLeftIs DEF Ask
<1>4. ASSUME NEW v \in Nat, v <= l + ((s + (n + 1)) - a) PROVE v \in 0 .. StepsLeft - 1
  BY <1>3, <1>4
<1>5. Counted(Urls[at])[Urls[Len(Urls)]] = IF Len(Urls) < at + 1 THEN k + 1 ELSE k
  BY <1>0, AskedNow
<1> PICK reply \in Replies :
      \/ pc' = "answered"
      \/ NextUrl /\ retry' = Counted(Urls[at]) /\ UNCHANGED tries
      \/ Raise(Counted(Urls[at]))
  BY DEF Ask
<1>6. CASE pc' = "answered"
  <2>1. StepsLeft' = 0
    BY <1>6, StepsLeftIs DEF Over
  <2>2. 0 <= l + ((s + (n + 1)) - a)
    OBVIOUS
  <2>3. QED
    BY <1>4, <2>1, <2>2
<1>7. CASE Raise(Counted(Urls[at]))
  <2>1. StepsLeft' \in 0 .. l
    BY <1>0, <1>7, RaisedWork
  <2>2. l <= l + ((s + (n + 1)) - a)
    OBVIOUS
  <2>3. QED
    BY <1>4, <2>1, <2>2
<1>8. CASE NextUrl /\ retry' = Counted(Urls[at]) /\ UNCHANGED tries
  <2>1. CASE at < Len(Urls)
    <3>1. at' = at + 1 /\ pc' = "ask"
      BY <1>8, <2>1 DEF NextUrl, Ask
    <3>2. retry'[Urls[Len(Urls)]] = k
      BY <1>0, <1>5, <1>8, <2>1
    <3>3. StepsLeft' = l + ((s + (n + 1)) - (a + 1)) + 1
      BY <1>2, <1>8, <3>1, <3>2, StepsLeftIs
    <3>4. QED
      <4>1. a + 1 <= n
        BY <1>0, <2>1
      <4>2. l + ((s + (n + 1)) - (a + 1)) + 1 = l + ((s + (n + 1)) - a)
        OBVIOUS
      <4>3. l + ((s + (n + 1)) - a) \in Nat
        BY <4>1
      <4>4. QED
        BY <1>4, <3>3, <4>2, <4>3
  <2>2. CASE ~(at < Len(Urls))
    <3>1. at = Len(Urls) /\ pc' = "round"
      BY <1>0, <1>8, <2>2 DEF NextUrl
    <3>2. retry'[Urls[Len(Urls)]] = k + 1
      BY <1>0, <1>5, <1>8, <3>1
    <3>3. StepsLeft' = l + s + 1
      BY <1>8, <3>1, <3>2, StepsLeftIs
    <3>4. QED
      BY <1>4, <3>1, <3>3
  <2>3. QED
    BY <2>1, <2>2
<1>9. QED
  BY <1>6, <1>7, <1>8

\* Whatever the nodes answer, a call has a bounded number of steps, and each request
\* and each round is one of them, over all its tries.
THEOREM NoCallGoesOn ==
  ASSUME Distinct
  PROVE  Spec => WindsDown
<1>1. CallInv => [Round \/ Ask => StepsLeft' \in 0 .. StepsLeft - 1]_vars
  BY RoundWork, AskWork
<1>2. QED
  BY <1>1, CallInvariance, PTL DEF Spec, WindsDown
=============================================================================
