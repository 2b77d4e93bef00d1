-------------------------- MODULE RpcHelperProofs --------------------------
(***************************************************************************)
(* What RpcHelper guarantees for any number of calls, nodes and limits.    *)
(***************************************************************************)
EXTENDS RpcHelper, FiniteSetTheorems, TLAPS

-----------------------------------------------------------------------------
(* Helpers.                                                                *)

\* The next node is a node, and the one after it in the list, if there is one.
LEMMA NextNodeFact ==
  ASSUME NEW n \in Nodes
  PROVE  NextNode(n) \in Nodes /\ (n + 1 < NodeCount => NextNode(n) = n + 1)
BY HelperAssumption DEF NextNode, Nodes

\* There is a limit to check first.
LEMMA FirstLimit == 1 \in DOMAIN Limits /\ Len(Limits) \in Nat /\ DOMAIN Limits = 1 .. Len(Limits)
BY HelperAssumption, LimiterAssumption

\* A counter is one of a node and one of its limits.
LEMMA WindowFact ==
  ASSUME TypeOK, NEW c \in Calls
  PROVE  /\ Window(c) \in Windows
         /\ span[c] \in Nat \ {0} /\ Limits[limit[c]] \in Nat
         /\ Window(c)[2] = limit[c]
<1>1. node[c] \in Nodes /\ limit[c] \in DOMAIN Limits /\ span[c] \in Nat \ {0}
  BY DEF TypeOK, CallsOK
<1>2. NameOf[node[c]] \in AppIds
  BY <1>1, HelperAssumption
<1>3. QED
  BY <1>1, <1>2, LimiterAssumption DEF Window, Windows

-----------------------------------------------------------------------------
(* Types.                                                                  *)

\* A call that goes on has an attempt left.
AttemptsLeft ==
  \A c \in Calls :
    /\ pc[c] = "idle" => attempt[c] = 0
    /\ pc[c] \notin Over => attempt[c] < Attempts(c)

TypeInv == TypeOK /\ AttemptsLeft

\* The number of attempts of a call.
LEMMA AttemptsFact ==
  ASSUME NEW c \in Calls PROVE Attempts(c) \in 1 .. Retry
BY HelperAssumption DEF Attempts

\* The invariant holds at first.
LEMMA TypeInit == Init => TypeInv
<1> SUFFICES ASSUME Init PROVE TypeInv
  OBVIOUS
<1>1. 0 \in Nodes /\ 0 \in 0 .. Retry
  BY HelperAssumption DEF Nodes
<1>2. LimiterTypeOK
  BY DEF Init, LimiterInit, LimiterTypeOK
<1>3. HelperOK
  BY DEF Init, HelperOK
<1>4. CallsOK
  BY <1>1, FirstLimit DEF Init, CallsOK, Locations, Kinds, Over
<1>5. AttemptsLeft
  BY AttemptsFact DEF Init, AttemptsLeft
<1>6. QED
  BY <1>2, <1>3, <1>4, <1>5 DEF TypeInv, TypeOK, Init

\* No step changes the types of what init sets up.
LEMMA HelperStep == TypeInv /\ [Next]_vars => HelperOK'
<1> SUFFICES ASSUME HelperOK, [Next]_vars PROVE HelperOK'
  BY DEF TypeInv, TypeOK
<1>1. ASSUME NEW c \in Calls, Step(c) PROVE HelperOK'
  BY <1>1 DEF Step, Begin, LoadScripts, CreateClient, FinishInit, CheckLimit, LimiterFails,
              Answered, QueryFails, helperVars, HelperOK
<1>2. CASE GetCurrentNode \/ WindowOver \/ RedisRestarts \/ UNCHANGED vars
  BY <1>2 DEF GetCurrentNode, WindowOver, RedisRestarts, vars, helperVars, HelperOK
<1>3. QED
  BY <1>1, <1>2 DEF Next

\* Counting a call keeps the types of the counters.
LEMMA CountTypes ==
  ASSUME LimiterTypeOK, NEW w \in Windows, NEW by \in Nat \ {0}, Count(w, by),
         scripts' \in BOOLEAN, admitted' \in [Windows -> Nat]
  PROVE  LimiterTypeOK'
<1>1. Incremented(w, by) \in Int
  BY DEF Incremented, LimiterTypeOK
<1>2. DOMAIN counters' = DOMAIN counters \cup {w}
  BY DEF Count
<1>3. counters' \in [DOMAIN counters' -> Int]
  BY <1>1, <1>2 DEF Count, LimiterTypeOK
<1>4. expiring' \subseteq DOMAIN counters'
  BY <1>2 DEF Count, LimiterTypeOK
<1>5. QED
  BY <1>2, <1>3, <1>4 DEF LimiterTypeOK

\* No step changes the types of what is in redis.
LEMMA LimiterStep == TypeInv /\ [Next]_vars => LimiterTypeOK'
<1> SUFFICES ASSUME TypeOK, [Next]_vars PROVE LimiterTypeOK'
  BY DEF TypeInv
<1>0. LimiterTypeOK
  BY DEF TypeOK
<1>1. ASSUME NEW c \in Calls, CheckLimit(c) PROVE LimiterTypeOK'
  <2>1. Window(c) \in Windows /\ span[c] \in Nat \ {0}
    BY WindowFact
  <2>2. admitted' \in [Windows -> Nat]
    <3>1. admitted \in [Windows -> Nat]
      BY <1>0 DEF LimiterTypeOK
    <3>2. CASE Admit(Window(c), span[c])
      BY <2>1, <3>1, <3>2 DEF Admit
    <3>3. QED
      BY <1>1, <3>1, <3>2 DEF CheckLimit
  <2>3. QED
    BY <1>0, <1>1, <2>1, <2>2, CountTypes DEF CheckLimit
<1>2. ASSUME NEW c \in Calls, LimiterFails(c) PROVE LimiterTypeOK'
  <2>1. Window(c) \in Windows /\ span[c] \in Nat \ {0}
    BY WindowFact
  <2>2. admitted' \in [Windows -> Nat]
    BY <1>0, <1>2 DEF LimiterTypeOK, LimiterFails
  <2>3. scripts' \in BOOLEAN
    BY <1>0, <1>2 DEF LimiterTypeOK, LimiterFails, ScriptsAtHand
  <2>4. CASE UNCHANGED <<counters, expiring>>
    BY <1>0, <2>2, <2>3, <2>4 DEF LimiterTypeOK
  <2>5. CASE Count(Window(c), span[c])
    BY <1>0, <2>1, <2>2, <2>3, <2>5, CountTypes
  <2>6. QED
    BY <1>2, <2>4, <2>5 DEF LimiterFails
<1>3. ASSUME NEW c \in Calls, LoadScripts(c) PROVE LimiterTypeOK'
  BY <1>0, <1>3 DEF LoadScripts, LimiterTypeOK
<1>4. ASSUME NEW c \in Calls,
             Begin(c) \/ CreateClient(c) \/ FinishInit(c) \/ Answered(c) \/ QueryFails(c)
      PROVE  LimiterTypeOK'
  BY <1>0, <1>4 DEF Begin, CreateClient, FinishInit, Answered, QueryFails, limiterVars,
                    LimiterTypeOK
<1>5. CASE WindowOver
  <2> PICK w \in expiring : Expire(w)
    BY <1>5 DEF WindowOver
  <2>1. DOMAIN counters' = DOMAIN counters \ {w}
    BY <1>0 DEF Expire, Restrict, LimiterTypeOK
  <2>2. counters' \in [DOMAIN counters' -> Int]
    BY <1>0, <2>1 DEF Expire, Restrict, LimiterTypeOK
  <2>3. admitted' \in [Windows -> Nat]
    BY <1>0 DEF Expire, LimiterTypeOK
  <2>4. QED
    BY <1>0, <2>1, <2>2, <2>3 DEF Expire, LimiterTypeOK
<1>6. CASE RedisRestarts
  <2>1. CASE UNCHANGED <<counters, expiring, admitted>>
    BY <1>0, <1>6, <2>1 DEF RedisRestarts, Restart, LimiterTypeOK
  <2>2. CASE /\ counters' = [w \in {} |-> 0] /\ expiring' = {}
             /\ admitted' = [w \in Windows |-> 0]
    <3>1. scripts' = FALSE
      BY <1>6 DEF RedisRestarts, Restart
    <3>2. QED
      BY <2>2, <3>1 DEF LimiterTypeOK
  <2>3. QED
    BY <1>6, <2>1, <2>2 DEF RedisRestarts, Restart
<1>7. CASE GetCurrentNode \/ UNCHANGED vars
  BY <1>0, <1>7 DEF GetCurrentNode, vars, limiterVars, LimiterTypeOK
<1>8. QED
  BY <1>1, <1>2, <1>3, <1>4, <1>5, <1>6, <1>7 DEF Next, Step

\* A failed attempt keeps the types of the calls, and the next one is left.
LEMMA RaiseTypes ==
  ASSUME TypeInv, NEW c \in Calls, pc[c] \in {"limit", "query"}, Raise(c),
         UNCHANGED <<kind, span>>
  PROVE  CallsOK' /\ AttemptsLeft'
<1> USE DEF TypeInv, TypeOK
<1>1. /\ attempt[c] \in 0 .. Retry /\ Attempts(c) \in 1 .. Retry
      /\ attempt[c] < Attempts(c)
  BY AttemptsFact DEF CallsOK, AttemptsLeft, Over
<1>2. /\ attempt' = [attempt EXCEPT ![c] = attempt[c] + 1]
      /\ attempt[c] + 1 \in 0 .. Retry
  <2>1. attempt' = [attempt EXCEPT ![c] = attempt[c] + 1]
    BY DEF Raise, Counted
  <2>2. attempt[c] + 1 \in 0 .. Retry
    BY <1>1, HelperAssumption
  <2>3. QED
    BY <2>1, <2>2
<1>3. \A d \in Calls : Attempts(d)' = Attempts(d)
  BY DEF Attempts
<1>4. attempt' \in [Calls -> 0 .. Retry]
  BY <1>2 DEF CallsOK
<1>5. node[c] \in Nodes /\ NextNode(node[c]) \in Nodes
  BY NextNodeFact DEF CallsOK
<1>6. failed' \in [Calls -> SUBSET Nodes]
  BY <1>5 DEF Raise, CallsOK
<1>7. node' \in [Calls -> Nodes] /\ limit' \in [Calls -> DOMAIN Limits]
  BY <1>5, FirstLimit DEF Raise, CallsOK
<1>8. pc' \in [Calls -> Locations]
  BY DEF Raise, CallsOK, Goto, Locations, Over
<1>9. CallsOK'
  BY <1>4, <1>6, <1>7, <1>8 DEF CallsOK
<1>10. AttemptsLeft'
  <2> SUFFICES ASSUME NEW d \in Calls
               PROVE  /\ pc'[d] = "idle" => attempt'[d] = 0
                      /\ pc'[d] \notin Over => attempt'[d] < Attempts(d)
    BY <1>3 DEF AttemptsLeft
  <2>1. CASE d # c
    BY <1>2, <2>1 DEF Raise, Goto, AttemptsLeft, CallsOK
  <2>2. CASE d = c
    <3>1. attempt'[c] = attempt[c] + 1
      BY <1>2 DEF CallsOK
    <3>2. CASE Counted(c) < Attempts(c)
      BY <2>2, <3>1, <3>2 DEF Raise, Goto, CallsOK, Counted
    <3>3. CASE ~(Counted(c) < Attempts(c))
      BY <2>2, <3>1, <3>3 DEF Raise, Goto, CallsOK, Over
    <3>4. QED
      BY <3>2, <3>3
  <2>3. QED
    BY <2>1, <2>2
<1>11. QED
  BY <1>9, <1>10

\* A step to another place leaves the counts of attempts alone.
LEMMA MoveTypes ==
  ASSUME TypeInv, NEW c \in Calls, NEW l \in Locations \ {"idle"},
         pc[c] \notin Over, pc[c] # "idle", Goto(c, l),
         UNCHANGED <<kind, span, node, attempt, failed>>,
         limit' \in [Calls -> DOMAIN Limits]
  PROVE  CallsOK' /\ AttemptsLeft'
<1> USE DEF TypeInv, TypeOK
<1>1. \A d \in Calls : Attempts(d)' = Attempts(d)
  BY DEF Attempts
<1>2. CallsOK'
  BY DEF CallsOK, Goto
<1>3. AttemptsLeft'
  BY <1>1 DEF AttemptsLeft, Goto, CallsOK
<1>4. QED
  BY <1>2, <1>3

\* A call that starts has all its attempts left.
LEMMA BeginTypes ==
  ASSUME TypeInv, NEW c \in Calls, Begin(c) PROVE CallsOK' /\ AttemptsLeft'
<1> USE DEF TypeInv, TypeOK
<1>1. PICK k \in Kinds : kind' = [kind EXCEPT ![c] = k]
  BY DEF Begin
<1>2. span' \in [Calls -> Nat \ {0}]
  BY HelperAssumption DEF Begin, CallsOK
<1>3. PICK l \in {"clients", "scripts", "limit"} : Goto(c, l)
  BY DEF Begin
<1>4. UNCHANGED <<node, attempt, limit, failed>>
  BY DEF Begin
<1>5. CallsOK'
  BY <1>1, <1>2, <1>3, <1>4 DEF CallsOK, Goto, Locations
<1>6. AttemptsLeft'
  <2> SUFFICES ASSUME NEW d \in Calls
               PROVE  /\ pc'[d] = "idle" => attempt'[d] = 0
                      /\ pc'[d] \notin Over => attempt'[d] < Attempts(d)'
    BY DEF AttemptsLeft
  <2>1. CASE d = c
    <3>1. attempt'[c] = 0
      BY <1>4 DEF Begin, AttemptsLeft
    <3>2. Attempts(c)' \in 1 .. Retry
      BY HelperAssumption DEF Attempts
    <3>3. pc'[c] # "idle"
      BY <1>3 DEF Goto, CallsOK
    <3>4. QED
      BY <2>1, <3>1, <3>2, <3>3
  <2>2. CASE d # c
    <3>1. pc'[d] = pc[d] /\ attempt'[d] = attempt[d] /\ kind'[d] = kind[d]
      BY <1>1, <1>3, <1>4, <2>2 DEF Goto, CallsOK
    <3>2. QED
      BY <3>1 DEF Attempts, AttemptsLeft
  <2>3. QED
    BY <2>1, <2>2
<1>7. QED
  BY <1>5, <1>6

\* No step changes the types of the calls, or lets one go on without attempts.
LEMMA CallsStep == TypeInv /\ [Next]_vars => CallsOK' /\ AttemptsLeft'
<1> SUFFICES ASSUME TypeInv, [Next]_vars PROVE CallsOK' /\ AttemptsLeft'
  OBVIOUS
<1>0. CallsOK /\ AttemptsLeft
  BY DEF TypeInv, TypeOK
<1>1. ASSUME NEW c \in Calls, Begin(c) PROVE CallsOK' /\ AttemptsLeft'
  BY <1>1, BeginTypes
<1>2. ASSUME NEW c \in Calls, LoadScripts(c) \/ FinishInit(c) \/ Answered(c)
      PROVE  CallsOK' /\ AttemptsLeft'
  <2>1. limit' \in [Calls -> DOMAIN Limits]
    BY <1>0, <1>2 DEF LoadScripts, FinishInit, Answered, CallsOK
  <2>2. PICK l \in Locations \ {"idle"} : Goto(c, l)
    BY <1>2 DEF LoadScripts, FinishInit, Answered, Locations, Over
  <2>3. pc[c] \notin Over /\ pc[c] # "idle" /\ UNCHANGED <<kind, span, node, attempt, failed>>
    BY <1>2 DEF LoadScripts, FinishInit, Answered, Over
  <2>4. QED
    BY <2>1, <2>2, <2>3, MoveTypes
<1>3. ASSUME NEW c \in Calls, CheckLimit(c) PROVE CallsOK' /\ AttemptsLeft'
  <2>1. pc[c] = "limit" /\ UNCHANGED <<kind, span>>
    BY <1>3 DEF CheckLimit
  <2>2. CASE Within(Window(c), span[c])
    <3>1. UNCHANGED <<node, attempt, failed>>
      BY <1>3, <2>2 DEF CheckLimit
    <3>2. limit' \in [Calls -> DOMAIN Limits]
      <4>1. limit[c] \in DOMAIN Limits
        BY <1>0 DEF CallsOK
      <4>2. limit[c] < Len(Limits) => limit[c] + 1 \in DOMAIN Limits
        BY <4>1, FirstLimit
      <4>3. QED
        BY <1>0, <1>3, <2>2, <4>2 DEF CheckLimit, CallsOK
    <3>3. Goto(c, "limit") \/ Goto(c, "query")
      <4>1. UNCHANGED pc => Goto(c, "limit")
        BY <1>0, <2>1 DEF Goto, CallsOK
      <4>2. QED
        BY <1>3, <2>2, <4>1 DEF CheckLimit
    <3>4. QED
      BY <2>1, <3>1, <3>2, <3>3, MoveTypes DEF Locations, Over
  <2>3. CASE ~Within(Window(c), span[c])
    BY <1>3, <2>1, <2>3, RaiseTypes DEF CheckLimit
  <2>4. QED
    BY <2>2, <2>3
<1>4. ASSUME NEW c \in Calls, LimiterFails(c) PROVE CallsOK' /\ AttemptsLeft'
  <2>1. pc[c] = "limit" /\ UNCHANGED <<kind, span>>
    BY <1>4 DEF LimiterFails
  <2>2. CASE Raise(c)
    BY <2>1, <2>2, RaiseTypes
  <2>3. CASE Bail(c)
    BY <1>0, <2>1, <2>3, MoveTypes DEF Bail, Locations, Over, CallsOK
  <2>4. QED
    BY <1>4, <2>2, <2>3 DEF LimiterFails
<1>5. ASSUME NEW c \in Calls, QueryFails(c) PROVE CallsOK' /\ AttemptsLeft'
  <2>1. pc[c] = "query" /\ UNCHANGED <<kind, span>> /\ (Raise(c) \/ Bail(c))
    BY <1>5 DEF QueryFails
  <2>2. CASE Raise(c)
    BY <2>1, <2>2, RaiseTypes
  <2>3. CASE Bail(c)
    BY <1>0, <2>1, <2>3, MoveTypes DEF Bail, Locations, Over, CallsOK
  <2>4. QED
    BY <2>1, <2>2, <2>3
<1>6. ASSUME UNCHANGED callVars PROVE CallsOK' /\ AttemptsLeft'
  BY <1>0, <1>6 DEF callVars, CallsOK, AttemptsLeft, Attempts
<1>7. QED
  BY <1>1, <1>2, <1>3, <1>4, <1>5, <1>6
     DEF Next, Step, CreateClient, GetCurrentNode, WindowOver, RedisRestarts, vars

\* No step makes the number of faults something else.
LEMMA FaultsStep == TypeInv /\ [Next]_vars => faults' \in Nat
<1> SUFFICES ASSUME faults \in Nat, [Next]_vars PROVE faults' \in Nat
  BY DEF TypeInv, TypeOK
<1>1. UNCHANGED faults \/ \E f \in FaultKinds : Fault(f)
  BY DEF Next, Step, Begin, LoadScripts, CreateClient, FinishInit, CheckLimit, LimiterFails,
         Answered, QueryFails, GetCurrentNode, WindowOver, RedisRestarts, vars, Fault
<1>2. QED
  BY <1>1 DEF Fault

\* The types are inductive.
LEMMA TypeStep == TypeInv /\ [Next]_vars => TypeInv'
BY HelperStep, LimiterStep, CallsStep, FaultsStep DEF TypeInv, TypeOK

\* For any number of calls, nodes and attempts, whatever fails: node indices are
\* those of nodes, and no call has more attempts than it may.
THEOREM HelperTypes == Spec => []TypeOK
<1>1. Spec => []TypeInv
  BY TypeInit, TypeStep, PTL DEF Spec
<1>2. TypeInv => TypeOK
  BY DEF TypeInv
<1>3. QED
  BY <1>1, <1>2, PTL

-----------------------------------------------------------------------------
(* A call finds what it needs.                                             *)

AllClients == Nodes \subseteq clients

\* What is set up, from the place of a call in init on.
Prepared ==
  /\ initialized => loaded /\ shas /\ AllClients
  /\ \A c \in Calls :
       /\ pc[c] = "scripts" => loaded
       /\ pc[c] = "clients" => loaded /\ shas
       /\ pc[c] \in {"limit", "query"} =>
            loaded /\ (kind[c] # "receipt" => shas /\ AllClients)

\* What is set up stays so.
LEMMA PreparedStays ==
  [Next]_vars => /\ loaded => loaded'
                 /\ shas => shas'
                 /\ AllClients => AllClients'
BY DEF Next, Step, Begin, LoadScripts, CreateClient, FinishInit, CheckLimit, LimiterFails,
       Answered, QueryFails, GetCurrentNode, WindowOver, RedisRestarts, vars, helperVars,
       AllClients

\* A failed attempt goes on to the limits of the next node, or ends the call.
LEMMA RaisePlace ==
  ASSUME TypeInv, NEW c \in Calls, Raise(c)
  PROVE  pc' = [pc EXCEPT ![c] = pc'[c]] /\ pc'[c] \in {"limit", "aborted", "gave up"}
BY DEF Raise, Goto, TypeInv, TypeOK, CallsOK

\* A call elsewhere than in init or at its start keeps its kind, and its place
\* does not lead back.
LEMMA CallingPlace ==
  ASSUME TypeInv, NEW c \in Calls,
         CheckLimit(c) \/ LimiterFails(c) \/ Answered(c) \/ QueryFails(c)
  PROVE  /\ pc[c] \in {"limit", "query"} /\ pc' = [pc EXCEPT ![c] = pc'[c]]
         /\ pc'[c] \in {"limit", "query"} \cup Over
         /\ UNCHANGED <<helperVars, kind>>
<1>1. pc \in [Calls -> Locations]
  BY DEF TypeInv, TypeOK, CallsOK
<1>2. CASE CheckLimit(c)
  <2>1. CASE Raise(c)
    BY <1>2, <2>1, RaisePlace DEF CheckLimit, Over
  <2>2. CASE UNCHANGED pc
    BY <1>1, <1>2, <2>2 DEF CheckLimit
  <2>3. CASE Goto(c, "query")
    BY <1>1, <1>2, <2>3 DEF CheckLimit, Goto
  <2>4. QED
    BY <1>2, <2>1, <2>2, <2>3 DEF CheckLimit
<1>3. CASE LimiterFails(c)
  <2>1. CASE Raise(c)
    BY <1>3, <2>1, RaisePlace DEF LimiterFails, Over
  <2>2. CASE Bail(c)
    BY <1>1, <1>3, <2>2 DEF LimiterFails, Bail, Goto, Over
  <2>3. QED
    BY <1>3, <2>1, <2>2 DEF LimiterFails
<1>4. CASE Answered(c)
  BY <1>1, <1>4 DEF Answered, Goto, Over
<1>5. CASE QueryFails(c)
  <2>1. CASE Raise(c)
    BY <1>5, <2>1, RaisePlace DEF QueryFails, Over
  <2>2. CASE Bail(c)
    BY <1>1, <1>5, <2>2 DEF QueryFails, Bail, Goto, Over
  <2>3. QED
    BY <1>5, <2>1, <2>2 DEF QueryFails
<1>6. QED
  BY <1>2, <1>3, <1>4, <1>5

\* Nothing is set up at first, and no call is anywhere.
LEMMA PreparedInit == Init => Prepared
BY DEF Init, Prepared

\* Every step into a place brings what the place needs.
LEMMA PreparedStep == TypeInv /\ Prepared /\ [Next]_vars => Prepared'
<1> SUFFICES ASSUME TypeInv, Prepared, [Next]_vars PROVE Prepared'
  OBVIOUS
<1>0. pc \in [Calls -> Locations] /\ kind \in [Calls -> Kinds]
  BY DEF TypeInv, TypeOK, CallsOK
<1> DEFINE Fine(d) == /\ pc[d] = "scripts" => loaded
                      /\ pc[d] = "clients" => loaded /\ shas
                      /\ pc[d] \in {"limit", "query"} =>
                           loaded /\ (kind[d] # "receipt" => shas /\ AllClients)
<1>1. ASSUME NEW d \in Calls, UNCHANGED <<pc[d], kind[d]>> PROVE Fine(d)'
  BY <1>1, PreparedStays DEF Prepared
<1>2. ASSUME UNCHANGED <<pc, kind>> PROVE \A d \in Calls : Fine(d)'
  BY <1>1, <1>2
<1>3. ASSUME UNCHANGED initialized PROVE initialized' => loaded' /\ shas' /\ AllClients'
  BY <1>3, PreparedStays DEF Prepared
<1> HIDE DEF Fine
<1>4. ASSUME NEW c \in Calls, Begin(c) PROVE Prepared'
  <2>1. PICK k \in Kinds :
          /\ kind' = [kind EXCEPT ![c] = k]
          /\ IF NeedsInit(k)
             THEN loaded' = TRUE /\ Goto(c, IF shas THEN "clients" ELSE "scripts")
             ELSE UNCHANGED loaded /\ Goto(c, "limit")
    BY <1>4 DEF Begin
  <2>2. UNCHANGED <<shas, clients, initialized>>
    BY <1>4 DEF Begin
  <2>3. kind'[c] = k
    BY <1>0, <2>1
  <2>4. ASSUME NeedsInit(k) PROVE Fine(c)'
    <3>1. loaded' /\ pc'[c] = IF shas THEN "clients" ELSE "scripts"
      BY <1>0, <2>1, <2>4 DEF Goto
    <3>2. QED
      BY <2>2, <3>1 DEF Fine
  <2>5. ASSUME ~NeedsInit(k) PROVE Fine(c)'
    <3>1. pc'[c] = "limit" /\ UNCHANGED loaded
      BY <1>0, <2>1, <2>5 DEF Goto
    <3>2. loaded /\ (k # "receipt" => initialized)
      BY <2>5 DEF NeedsInit, Prepared
    <3>3. QED
      BY <2>2, <2>3, <3>1, <3>2 DEF Fine, Prepared, AllClients
  <2>6. Fine(c)'
    BY <2>4, <2>5
  <2>7. \A d \in Calls \ {c} : Fine(d)'
    BY <1>0, <1>1, <2>1 DEF Goto
  <2>8. QED
    BY <1>3, <2>2, <2>6, <2>7 DEF Fine, Prepared
<1>5. ASSUME NEW c \in Calls, LoadScripts(c) PROVE Prepared'
  <2>1. \A d \in Calls \ {c} : Fine(d)'
    BY <1>0, <1>1, <1>5 DEF LoadScripts, Goto
  <2>2. pc'[c] = "aborted" \/ (pc'[c] = "clients" /\ shas')
    BY <1>0, <1>5 DEF LoadScripts, Goto
  <2>3. loaded'
    BY <1>5 DEF LoadScripts, Prepared
  <2>4. QED
    BY <1>3, <1>5, <2>1, <2>2, <2>3 DEF LoadScripts, Fine, Prepared
<1>6. ASSUME NEW c \in Calls, FinishInit(c) PROVE Prepared'
  <2>1. \A d \in Calls \ {c} : Fine(d)'
    BY <1>0, <1>1, <1>6 DEF FinishInit, Goto
  <2>2. pc'[c] = "limit" /\ loaded' /\ shas' /\ AllClients'
    BY <1>0, <1>6 DEF FinishInit, Goto, Prepared, AllClients
  <2>3. QED
    BY <2>1, <2>2 DEF Fine, Prepared
<1>7. ASSUME NEW c \in Calls,
             CheckLimit(c) \/ LimiterFails(c) \/ Answered(c) \/ QueryFails(c)
      PROVE  Prepared'
  <2>1. /\ pc[c] \in {"limit", "query"} /\ pc' = [pc EXCEPT ![c] = pc'[c]]
        /\ pc'[c] \in {"limit", "query"} \cup Over
        /\ UNCHANGED <<helperVars, kind>>
    BY <1>7, CallingPlace
  <2>2. \A d \in Calls \ {c} : Fine(d)'
    BY <1>0, <1>1, <2>1
  <2>3. Fine(c)'
    <3>1. loaded' /\ (kind'[c] # "receipt" => shas' /\ AllClients')
      BY <2>1 DEF Prepared, helperVars, AllClients
    <3>2. pc'[c] # "scripts" /\ pc'[c] # "clients"
      BY <2>1 DEF Over
    <3>3. QED
      BY <3>1, <3>2 DEF Fine
  <2>4. QED
    BY <1>3, <2>1, <2>2, <2>3 DEF Fine, Prepared, helperVars
<1>8. ASSUME UNCHANGED <<pc, kind, initialized>> PROVE Prepared'
  BY <1>2, <1>3, <1>8 DEF Fine, Prepared
<1>9. QED
  BY <1>4, <1>5, <1>6, <1>7, <1>8
     DEF Next, Step, CreateClient, GetCurrentNode, WindowOver, RedisRestarts, vars,
         helperVars, callVars

\* However many calls run init at once, and wherever one of them fails, no call
\* but a receipt reaches its node without the scripts' names and a client.
THEOREM CallsReady == Spec => []ReadyToCall
<1>1. Spec => [](TypeInv /\ Prepared)
  BY TypeInit, TypeStep, PreparedInit, PreparedStep, PTL DEF Spec
<1>2. TypeInv /\ Prepared => ReadyToCall
  BY DEF TypeInv, TypeOK, CallsOK, Prepared, ReadyToCall, HasClient, AllClients
<1>3. QED
  BY <1>1, <1>2, PTL

-----------------------------------------------------------------------------
(* The rate limits.                                                        *)

\* Every counter is positive and goes away some day, and counts all that its
\* limit let through, and more.
Metered ==
  /\ CountersExpire
  /\ \A w \in DOMAIN counters : counters[w] > 0
  /\ \A w \in Windows :
       /\ admitted[w] <= Limits[w[2]]
       /\ admitted[w] <= IF w \in DOMAIN counters THEN counters[w] ELSE 0

\* The amounts of limits are numbers.
LEMMA LimitFact ==
  ASSUME NEW w \in Windows PROVE Limits[w[2]] \in Nat
BY LimiterAssumption DEF Windows

\* Counting keeps the counters so, and what is let through is what was counted.
LEMMA CountMeters ==
  ASSUME LimiterTypeOK, Metered, NEW w \in Windows, NEW by \in Nat \ {0}, Count(w, by),
         \/ UNCHANGED admitted
         \/ Within(w, by) /\ Admit(w, by)
  PROVE  Metered'
<1>1. /\ DOMAIN counters' = DOMAIN counters \cup {w}
      /\ \A x \in DOMAIN counters \cup {w} :
           counters'[x] = IF x = w THEN Incremented(w, by) ELSE counters[x]
  BY DEF Count
<1> DEFINE before == IF w \in DOMAIN counters THEN counters[w] ELSE 0
<1>2. before \in Nat /\ (w \in DOMAIN counters => before > 0)
  BY DEF LimiterTypeOK, Metered
<1>3. Incremented(w, by) = before + by
  BY DEF Incremented
<1>4. CountersExpire'
  <2>1. ExpiryDue(w, by) <=> w \notin DOMAIN counters
    <3>1. Incremented(w, by) = by <=> before = 0
      BY <1>2, <1>3
    <3>2. before = 0 <=> w \notin DOMAIN counters
      BY <1>2
    <3>3. QED
      BY <3>1, <3>2 DEF ExpiryDue
  <2>2. QED
    BY <1>1, <2>1 DEF Count, Metered, CountersExpire
<1>5. \A x \in DOMAIN counters' : counters'[x] > 0
  BY <1>1, <1>2, <1>3 DEF Metered
<1>6. ASSUME NEW x \in Windows
      PROVE  /\ admitted'[x] <= Limits[x[2]]
             /\ admitted'[x] <= IF x \in DOMAIN counters' THEN counters'[x] ELSE 0
  <2>1. admitted[x] \in Nat /\ Limits[x[2]] \in Nat /\ admitted[x] <= Limits[x[2]]
    BY LimitFact DEF LimiterTypeOK, Metered
  <2>2. CASE x = w
    <3>1. admitted[w] <= before
      BY <2>2 DEF Metered
    <3>2. x \in DOMAIN counters' /\ counters'[x] = before + by
      BY <1>1, <1>3, <2>2
    <3>3. CASE UNCHANGED admitted
      BY <1>2, <2>1, <2>2, <3>1, <3>2, <3>3
    <3>4. CASE Within(w, by) /\ Admit(w, by)
      <4>1. admitted'[x] = admitted[x] + by
        BY <2>2, <3>4 DEF Admit, LimiterTypeOK
      <4>2. before + by <= Limits[x[2]]
        BY <1>3, <2>2, <3>4 DEF Within
      <4>3. QED
        BY <1>2, <2>1, <2>2, <3>1, <3>2, <4>1, <4>2
    <3>5. QED
      BY <3>3, <3>4
  <2>3. CASE x # w
    <3>1. admitted'[x] = admitted[x]
      BY <2>3 DEF Admit, LimiterTypeOK
    <3>2. x \in DOMAIN counters' <=> x \in DOMAIN counters
      BY <1>1, <2>3
    <3>3. x \in DOMAIN counters => counters'[x] = counters[x]
      BY <1>1, <2>3
    <3>4. QED
      BY <3>1, <3>2, <3>3 DEF Metered
  <2>4. QED
    BY <2>2, <2>3
<1>7. QED
  BY <1>4, <1>5, <1>6 DEF Metered

\* Without counters nothing was let through.
LEMMA EmptyMeters ==
  ASSUME counters = [w \in {} |-> 0], expiring = {}, admitted = [w \in Windows |-> 0]
  PROVE  Metered
<1>1. DOMAIN counters = {}
  OBVIOUS
<1>2. QED
  BY <1>1, LimitFact DEF Metered, CountersExpire

\* No step counts less than it lets through.
LEMMA MeteredStep == TypeInv /\ Metered /\ [Next]_vars => Metered'
<1> SUFFICES ASSUME TypeInv, Metered, [Next]_vars PROVE Metered'
  OBVIOUS
<1>0. TypeOK /\ LimiterTypeOK
  BY DEF TypeInv, TypeOK
<1>1. ASSUME NEW c \in Calls, CheckLimit(c) PROVE Metered'
  BY <1>0, <1>1, WindowFact, CountMeters DEF CheckLimit
<1>2. ASSUME UNCHANGED <<counters, expiring, admitted>> PROVE Metered'
  BY <1>2 DEF Metered, CountersExpire
<1>3. ASSUME NEW c \in Calls, LimiterFails(c) PROVE Metered'
  BY <1>0, <1>2, <1>3, WindowFact, CountMeters DEF LimiterFails
<1>4. CASE WindowOver
  <2> PICK w \in expiring : Expire(w)
    BY <1>4 DEF WindowOver
  <2>1. /\ DOMAIN counters' = DOMAIN counters \ {w}
        /\ \A x \in DOMAIN counters \ {w} : counters'[x] = counters[x]
    BY DEF Expire, Restrict
  <2>2. CountersExpire'
    BY <2>1 DEF Expire, Metered, CountersExpire
  <2>3. \A x \in DOMAIN counters' : counters'[x] > 0
    BY <2>1 DEF Metered
  <2>4. ASSUME NEW x \in Windows
        PROVE  /\ admitted'[x] <= Limits[x[2]]
               /\ admitted'[x] <= IF x \in DOMAIN counters' THEN counters'[x] ELSE 0
    <3>1. CASE x = w
      <4>1. admitted'[x] = 0 /\ x \notin DOMAIN counters'
        BY <1>0, <2>1, <3>1 DEF Expire, LimiterTypeOK
      <4>2. QED
        BY <4>1, LimitFact
    <3>2. CASE x # w
      <4>1. /\ admitted'[x] = admitted[x]
            /\ x \in DOMAIN counters' <=> x \in DOMAIN counters
            /\ x \in DOMAIN counters => counters'[x] = counters[x]
        BY <1>0, <2>1, <3>2 DEF Expire, LimiterTypeOK
      <4>2. QED
        BY <4>1 DEF Metered
    <3>3. QED
      BY <3>1, <3>2
  <2>5. QED
    BY <2>2, <2>3, <2>4 DEF Metered
<1>5. CASE RedisRestarts
  <2>1. CASE /\ counters' = [w \in {} |-> 0] /\ expiring' = {}
             /\ admitted' = [w \in Windows |-> 0]
    <3>1. DOMAIN counters' = {}
      BY <2>1
    <3>2. QED
      BY <2>1, <3>1, LimitFact DEF Metered, CountersExpire
  <2>2. QED
    BY <1>2, <1>5, <2>1 DEF RedisRestarts, Restart
<1>6. QED
  BY <1>1, <1>2, <1>3, <1>4, <1>5
     DEF Next, Step, Begin, LoadScripts, CreateClient, FinishInit, Answered, QueryFails,
         GetCurrentNode, vars, limiterVars

\* The types and the counters together.
LEMMA MeteredAlways == Spec => [](TypeInv /\ Metered)
<1>1. Init => Metered
  BY EmptyMeters DEF Init, LimiterInit
<1>2. QED
  BY <1>1, TypeInit, TypeStep, MeteredStep, PTL DEF Spec

\* However many calls, attempts and nodes share a limit, and whatever is refused,
\* lost or restarted: in no window it lets through more than its amount.
THEOREM LimitsHold == Spec => []WithinLimits
<1>1. TypeInv /\ Metered => WithinLimits
  BY DEF Metered, WithinLimits
<1>2. QED
  BY <1>1, MeteredAlways, PTL

\* No counter is left without a time to live, whatever its first call counts.
THEOREM CountersGo == Spec => []CountersExpire
<1>1. TypeInv /\ Metered => CountersExpire
  BY DEF Metered
<1>2. QED
  BY <1>1, MeteredAlways, PTL

-----------------------------------------------------------------------------
(* Failover.                                                               *)

\* A retried call is at the node of its attempt in its first turn, and all before
\* it have failed; after its first turn all have.
InTurn(c) ==
  IF attempt[c] < NodeCount
  THEN node[c] = attempt[c] /\ failed[c] = 0 .. attempt[c] - 1
  ELSE failed[c] = Nodes

Turns ==
  \A c \in Calls :
    /\ pc[c] = "idle" => attempt[c] = 0 /\ node[c] = 0 /\ failed[c] = {}
    /\ pc[c] \notin Over => IF kind[c] = "head" THEN failed[c] = {} ELSE InTurn(c)

\* After a failed attempt the next node's turn has come.
LEMMA RaiseTurns ==
  ASSUME TypeInv, NEW c \in Calls, pc[c] \in {"limit", "query"}, kind[c] # "head",
         InTurn(c), Raise(c)
  PROVE  IF attempt[c] + 1 < NodeCount
         THEN /\ failed'[c] = 0 .. attempt[c]
              /\ attempt[c] + 1 < Retry => node'[c] = attempt[c] + 1
         ELSE failed'[c] = Nodes
<1>1. attempt[c] \in Nat /\ node[c] \in Nodes /\ NodeCount \in Nat \ {0}
  BY HelperAssumption DEF TypeInv, TypeOK, CallsOK
<1>2. failed'[c] = failed[c] \cup {node[c]}
  BY DEF Raise, TypeInv, TypeOK, CallsOK
<1>3. attempt[c] + 1 < Retry => node'[c] = NextNode(node[c])
  BY DEF Raise, Counted, Attempts, TypeInv, TypeOK, CallsOK
<1>4. CASE attempt[c] + 1 < NodeCount
  <2>1. node[c] = attempt[c] /\ failed[c] = 0 .. attempt[c] - 1
    BY <1>1, <1>4 DEF InTurn
  <2>2. failed'[c] = 0 .. attempt[c]
    BY <1>1, <1>2, <2>1
  <2>3. NextNode(node[c]) = attempt[c] + 1
    BY <1>1, <1>4, <2>1, NextNodeFact
  <2>4. QED
    BY <1>3, <1>4, <2>2, <2>3
<1>5. CASE attempt[c] + 1 = NodeCount
  <2>1. node[c] = attempt[c] /\ failed[c] = 0 .. attempt[c] - 1
    BY <1>1, <1>5 DEF InTurn
  <2>2. failed'[c] = 0 .. NodeCount - 1
    BY <1>1, <1>2, <1>5, <2>1
  <2>3. QED
    BY <1>1, <1>5, <2>2 DEF Nodes
<1>6. CASE attempt[c] + 1 > NodeCount
  <2>1. failed[c] = Nodes
    BY <1>1, <1>6 DEF InTurn
  <2>2. QED
    BY <1>1, <1>2, <1>6, <2>1
<1>7. QED
  BY <1>1, <1>4, <1>5, <1>6

\* A call that asks its node goes on at the same node, or fails there.
LEMMA CallingTurns ==
  ASSUME NEW c \in Calls, CheckLimit(c) \/ LimiterFails(c) \/ Answered(c) \/ QueryFails(c)
  PROVE  Raise(c) \/ UNCHANGED <<node, attempt, failed>>
BY DEF CheckLimit, LimiterFails, Answered, QueryFails, Bail

\* Another call's failed attempt is its own matter.
LEMMA RaiseApart ==
  ASSUME TypeInv, NEW c \in Calls, NEW d \in Calls, c # d, Raise(c)
  PROVE  UNCHANGED <<node[d], attempt[d], failed[d]>>
BY DEF Raise, TypeInv, TypeOK, CallsOK

\* All calls are at node 0 at first.
LEMMA TurnsInit == Init => Turns
<1> SUFFICES ASSUME Init, NEW c \in Calls
             PROVE  /\ attempt[c] = 0 /\ node[c] = 0 /\ failed[c] = {}
                    /\ kind[c] = "head"
  BY DEF Turns
<1>1. QED
  BY DEF Init

\* The turns go on in every step.
LEMMA TurnsStep == TypeInv /\ Turns /\ [Next]_vars => Turns'
<1> SUFFICES ASSUME TypeInv, Turns, [Next]_vars PROVE Turns'
  OBVIOUS
<1>0. /\ pc \in [Calls -> Locations] /\ kind \in [Calls -> Kinds]
      /\ attempt \in [Calls -> 0 .. Retry] /\ NodeCount \in Nat \ {0}
  BY HelperAssumption DEF TypeInv, TypeOK, CallsOK
<1> DEFINE Turn(d) ==
      /\ pc[d] = "idle" => attempt[d] = 0 /\ node[d] = 0 /\ failed[d] = {}
      /\ pc[d] \notin Over => IF kind[d] = "head" THEN failed[d] = {} ELSE InTurn(d)
<1>1. ASSUME NEW d \in Calls, UNCHANGED <<kind[d], node[d], attempt[d], failed[d]>>,
             pc'[d] # "idle" \/ UNCHANGED pc[d], pc[d] \notin Over \/ UNCHANGED pc[d]
      PROVE  Turn(d)'
  BY <1>1 DEF Turns, InTurn
<1> HIDE DEF Turn
<1>2. ASSUME NEW c \in Calls, Begin(c) PROVE Turns'
  <2>1. PICK k \in Kinds, l \in {"scripts", "clients", "limit"} :
          kind' = [kind EXCEPT ![c] = k] /\ Goto(c, l)
    BY <1>2 DEF Begin
  <2>2. UNCHANGED <<node, attempt, failed>>
    BY <1>2 DEF Begin
  <2>3. attempt[c] = 0 /\ node[c] = 0 /\ failed[c] = {}
    BY <1>2 DEF Begin, Turns
  <2>4. 0 .. 0 - 1 = {}
    OBVIOUS
  <2>5. InTurn(c)'
    BY <1>0, <2>2, <2>3, <2>4 DEF InTurn
  <2>6. Turn(c)'
    BY <1>0, <2>1, <2>2, <2>3, <2>5 DEF Turn, Goto
  <2>7. ASSUME NEW d \in Calls \ {c} PROVE Turn(d)'
    BY <1>0, <1>1, <2>1, <2>2 DEF Goto
  <2>8. QED
    BY <2>6, <2>7 DEF Turn, Turns
<1>3. ASSUME NEW c \in Calls, LoadScripts(c) \/ FinishInit(c) PROVE Turns'
  <2>1. /\ UNCHANGED <<kind, node, attempt, failed>> /\ pc[c] \notin Over
        /\ pc' = [pc EXCEPT ![c] = pc'[c]] /\ pc'[c] # "idle"
    BY <1>0, <1>3 DEF LoadScripts, FinishInit, Goto, Over
  <2>2. \A d \in Calls : Turn(d)'
    BY <1>0, <1>1, <2>1
  <2>3. QED
    BY <2>2 DEF Turn, Turns
<1>4. ASSUME NEW c \in Calls,
             CheckLimit(c) \/ LimiterFails(c) \/ Answered(c) \/ QueryFails(c)
      PROVE  Turns'
  <2>1. /\ pc[c] \in {"limit", "query"} /\ pc' = [pc EXCEPT ![c] = pc'[c]]
        /\ pc'[c] \in {"limit", "query"} \cup Over /\ UNCHANGED kind
    BY <1>4, CallingPlace
  <2>2. pc[c] \notin Over /\ pc'[c] # "idle"
    BY <2>1 DEF Over
  <2>3. CASE UNCHANGED <<node, attempt, failed>>
    <3>1. \A d \in Calls : Turn(d)'
      BY <1>0, <1>1, <2>1, <2>2, <2>3
    <3>2. QED
      BY <3>1 DEF Turn, Turns
  <2>4. CASE Raise(c)
    <3>1. ASSUME NEW d \in Calls \ {c} PROVE Turn(d)'
      BY <1>0, <1>1, <2>1, <2>4, RaiseApart
    <3>2. CASE kind[c] = "head"
      <4>1. failed'[c] = {}
        BY <2>2, <2>4, <3>2 DEF Raise, Turns, TypeInv, TypeOK, CallsOK
      <4>2. QED
        BY <2>1, <2>2, <3>1, <3>2, <4>1 DEF Turn, Turns
    <3>3. CASE kind[c] # "head"
      <4>1. InTurn(c)
        BY <2>2, <3>3 DEF Turns
      <4>2. attempt'[c] = attempt[c] + 1
        BY <1>0, <2>4 DEF Raise, Counted
      <4>3. pc'[c] \notin Over => attempt[c] + 1 < Retry
        BY <1>0, <2>4, <3>3 DEF Raise, Goto, Counted, Attempts, Over
      <4>4. pc'[c] \notin Over => InTurn(c)'
        <5>1. IF attempt[c] + 1 < NodeCount
              THEN /\ failed'[c] = 0 .. attempt[c]
                   /\ attempt[c] + 1 < Retry => node'[c] = attempt[c] + 1
              ELSE failed'[c] = Nodes
          BY <2>1, <2>4, <3>3, <4>1, RaiseTurns
        <5>2. (attempt[c] + 1) - 1 = attempt[c]
          BY <1>0
        <5>3. QED
          BY <4>2, <4>3, <5>1, <5>2 DEF InTurn
      <4>5. QED
        BY <2>1, <2>2, <3>1, <3>3, <4>4 DEF Turn, Turns
    <3>4. QED
      BY <3>2, <3>3
  <2>5. QED
    BY <1>4, <2>3, <2>4, CallingTurns
<1>5. ASSUME UNCHANGED callVars PROVE Turns'
  BY <1>5 DEF callVars, Turns, InTurn
<1>6. QED
  BY <1>2, <1>3, <1>4, <1>5
     DEF Next, Step, CreateClient, GetCurrentNode, WindowOver, RedisRestarts, vars

-----------------------------------------------------------------------------
(* A call as its caller sees it.                                           *)

Status == [c \in Calls |-> StatusOf(c)]

\* A step of one call changes its status alone.
LEMMA StatusMove ==
  ASSUME TypeInv, NEW c \in Calls, pc' = [pc EXCEPT ![c] = pc'[c]]
  PROVE  Status' = [Status EXCEPT ![c] = StatusOf(c)']
BY DEF Status, StatusOf, TypeInv, TypeOK, CallsOK

\* A failed attempt is a failed attempt there, too.
LEMMA RaiseRefines ==
  ASSUME TypeInv, Turns, Retry >= NodeCount,
         NEW c \in Calls, pc[c] \in {"limit", "query"}, Raise(c), UNCHANGED kind
  PROVE  Failover!Abort(c) \/ Failover!Fail(c, node[c])
<1>0. /\ pc \in [Calls -> Locations] /\ kind \in [Calls -> Kinds]
      /\ attempt[c] \in Nat /\ node[c] \in Nodes /\ failed \in [Calls -> SUBSET Nodes]
      /\ NodeCount \in Nat \ {0} /\ Retry \in Nat
  BY HelperAssumption DEF TypeInv, TypeOK, CallsOK
<1>1. Status[c] = "open"
  BY DEF Status, StatusOf
<1>2. /\ Status' = [Status EXCEPT ![c] = StatusOf(c)']
      /\ pc'[c] \in {"limit", "aborted", "gave up"}
  BY StatusMove, RaisePlace
<1>3. CASE kind[c] = "head"
  <2>1. failed' = failed
    BY <1>0, <1>3 DEF Raise
  <2>2. ~(Counted(c) < Attempts(c))
    BY <1>0, <1>3 DEF Counted, Attempts
  <2>3. StatusOf(c)' = "aborted"
    BY <1>0, <1>3, <2>2 DEF Raise, Goto, StatusOf
  <2>4. QED
    BY <1>1, <1>2, <2>1, <2>3 DEF Failover!Abort, Status
<1>4. CASE kind[c] # "head"
  <2>1. InTurn(c)
    BY <1>4 DEF Turns, Over
  <2>2. node[c] \notin failed[c] \/ failed[c] = Nodes
    BY <1>0, <2>1 DEF InTurn
  <2>3. failed' = [failed EXCEPT ![c] = failed[c] \cup {node[c]}]
    BY <1>4 DEF Raise
  <2>4. CASE attempt[c] + 1 < Retry
    <3>1. StatusOf(c)' = "open"
      BY <1>0, <1>4, <2>4 DEF Raise, Goto, Counted, Attempts, StatusOf
    <3>2. Status' = Status
      BY <1>1, <1>2, <3>1 DEF Status
    <3>3. QED
      BY <1>1, <2>2, <2>3, <3>2 DEF Failover!Fail, Status
  <2>5. CASE ~(attempt[c] + 1 < Retry)
    <3>1. StatusOf(c)' = "gave up"
      BY <1>0, <1>4, <2>5 DEF Raise, Goto, Counted, Attempts, StatusOf
    <3>2. failed'[c] = Nodes
      <4>1. ~(attempt[c] + 1 < NodeCount)
        BY <1>0, <2>5
      <4>2. QED
        BY <1>4, <2>1, <4>1, RaiseTurns
    <3>3. failed[c] \cup {node[c]} = Nodes
      BY <1>0, <2>3, <3>2
    <3>4. QED
      BY <1>1, <1>2, <2>2, <2>3, <3>1, <3>3 DEF Failover!Fail, Status
  <2>6. QED
    BY <2>4, <2>5
<1>5. QED
  BY <1>3, <1>4

\* What a step does to a call that does not fail an attempt.
LEMMA MoveRefines ==
  ASSUME TypeInv, NEW c \in Calls, pc' = [pc EXCEPT ![c] = pc'[c]], UNCHANGED failed,
         \/ StatusOf(c)' = StatusOf(c)
         \/ StatusOf(c) = "idle" /\ StatusOf(c)' = "open"
         \/ StatusOf(c) = "open" /\ StatusOf(c)' \in {"answered", "aborted"}
  PROVE  \/ Status' = Status
         \/ Failover!Open(c) \/ Failover!Answer(c) \/ Failover!Abort(c)
<1>1. Status' = [Status EXCEPT ![c] = StatusOf(c)'] /\ Status[c] = StatusOf(c)
  BY StatusMove DEF Status
<1>2. CASE StatusOf(c)' = StatusOf(c)
  BY <1>1, <1>2 DEF Status
<1>3. QED
  BY <1>1, <1>2 DEF Failover!Open, Failover!Answer, Failover!Abort, Status

\* Every step is one of NodeFailover, or none.
LEMMA FailoverStep ==
  ASSUME TypeInv, Turns, Retry >= NodeCount, [Next]_vars
  PROVE  Failover!FailoverNext \/ (Status' = Status /\ failed' = failed)
<1>0. pc \in [Calls -> Locations]
  BY DEF TypeInv, TypeOK, CallsOK
<1>1. ASSUME NEW c \in Calls, Begin(c) \/ LoadScripts(c) \/ FinishInit(c) \/ Answered(c)
      PROVE  Failover!FailoverNext \/ (Status' = Status /\ failed' = failed)
  <2>1. pc' = [pc EXCEPT ![c] = pc'[c]] /\ UNCHANGED failed
    BY <1>0, <1>1 DEF Begin, LoadScripts, FinishInit, Answered, Goto
  <2>2. \/ StatusOf(c)' = StatusOf(c)
        \/ StatusOf(c) = "idle" /\ StatusOf(c)' = "open"
        \/ StatusOf(c) = "open" /\ StatusOf(c)' \in {"answered", "aborted"}
    BY <1>0, <1>1 DEF Begin, LoadScripts, FinishInit, Answered, Goto, StatusOf
  <2>3. QED
    BY <2>1, <2>2, MoveRefines DEF Failover!FailoverNext
<1>2. ASSUME NEW c \in Calls, CheckLimit(c) \/ LimiterFails(c) \/ QueryFails(c)
      PROVE  Failover!FailoverNext \/ (Status' = Status /\ failed' = failed)
  <2>1. /\ pc[c] \in {"limit", "query"} /\ pc' = [pc EXCEPT ![c] = pc'[c]]
        /\ UNCHANGED kind
    BY <1>2, CallingPlace
  <2>2. CASE Raise(c)
    <3>1. node[c] \in Nodes
      BY DEF TypeInv, TypeOK, CallsOK
    <3>2. QED
      BY <2>1, <2>2, <3>1, RaiseRefines DEF Failover!FailoverNext
  <2>3. CASE ~Raise(c)
    <3>1. /\ UNCHANGED failed
          /\ UNCHANGED pc \/ Goto(c, "query") \/ Goto(c, "aborted")
      BY <1>2, <2>3 DEF CheckLimit, LimiterFails, QueryFails, Bail
    <3>2. StatusOf(c) = "open" /\ StatusOf(c)' \in {"open", "aborted"}
      BY <1>0, <2>1, <3>1 DEF Goto, StatusOf
    <3>3. QED
      BY <2>1, <3>1, <3>2, MoveRefines DEF Failover!FailoverNext
  <2>4. QED
    BY <2>2, <2>3
<1>3. ASSUME UNCHANGED callVars PROVE Status' = Status /\ failed' = failed
  BY <1>3 DEF callVars, Status, StatusOf
<1>4. QED
  BY <1>1, <1>2, <1>3
     DEF Next, Step, CreateClient, GetCurrentNode, WindowOver, RedisRestarts, vars

\* With at least as many attempts as nodes, every call is one of NodeFailover: it
\* asks no node again before it has asked them all, and gives up only then.
THEOREM ImplementsFailover ==
  ASSUME Retry >= NodeCount PROVE Spec => FailsOver
<1>1. Init => Failover!FailoverInit
  BY DEF Init, Failover!FailoverInit, StatusOf
<1>2. TypeInv /\ Turns /\ [Next]_vars => [Failover!FailoverNext]_(Failover!failoverVars)
  BY FailoverStep DEF Status, Failover!failoverVars
<1>3. Spec => [](TypeInv /\ Turns)
  BY TypeInit, TypeStep, TurnsInit, TurnsStep, PTL DEF Spec
<1>4. QED
  BY <1>1, <1>2, <1>3, PTL DEF Spec, FailsOver, Failover!FailoverSpec

-----------------------------------------------------------------------------
(* The steps a call has left.                                              *)

\* The steps of r whole attempts: each limit, and the query.
Tries(r) == r * (Len(Limits) + 1)

\* The steps a call at place p has left, with r attempts after this one, limit l to
\* check and k clients to create.
Work(p, r, l, k) ==
  CASE p = "idle"    -> Tries(Retry) + k + 3
    [] p = "scripts" -> Tries(Retry) + k + 2
    [] p = "clients" -> Tries(Retry) + k + 1
    [] p = "limit"   -> Tries(r) + (Len(Limits) + 1 - l) + 1
    [] p = "query"   -> Tries(r) + 1
    [] OTHER -> 0

ToCreate == Cardinality(Nodes \ clients)

LEMMA StepsLeftIs ==
  ASSUME NEW c \in Calls
  PROVE  /\ StepsLeft(c) = Work(pc[c], Attempts(c) - attempt[c] - 1, limit[c], ToCreate)
         /\ StepsLeft(c)' = Work(pc'[c], Attempts(c)' - attempt'[c] - 1, limit'[c], ToCreate')
BY DEF StepsLeft, Work, Tries, ToCreate

\* One attempt more is one more turn through the limits.
LEMMA TriesFact ==
  ASSUME NEW r \in Nat
  PROVE  /\ Tries(r) \in Nat /\ Tries(r + 1) = Tries(r) + (Len(Limits) + 1)
         /\ \A q \in 0 .. r : Tries(q) <= Tries(r)
<1> PICK m \in Nat : m = Len(Limits) + 1
  BY FirstLimit
<1>1. Tries(r) = r * m /\ Tries(r + 1) = (r + 1) * m
  BY DEF Tries
<1>2. r * m \in Nat /\ (r + 1) * m = r * m + m
  OBVIOUS
<1>3. ASSUME NEW q \in 0 .. r PROVE q * m <= r * m
  <2> PICK d \in Nat : r = q + d
    OBVIOUS
  <2>1. (q + d) * m = q * m + d * m /\ q * m \in Nat /\ d * m \in Nat
    OBVIOUS
  <2>2. QED
    BY <2>1
<1>4. QED
  BY <1>1, <1>2, <1>3 DEF Tries

\* What the work of a call is at each place.
LEMMA WorkAt ==
  ASSUME NEW r, NEW l, NEW k
  PROVE  /\ Work("idle", r, l, k) = Tries(Retry) + k + 3
         /\ Work("scripts", r, l, k) = Tries(Retry) + k + 2
         /\ Work("clients", r, l, k) = Tries(Retry) + k + 1
         /\ Work("limit", r, l, k) = Tries(r) + (Len(Limits) + 1 - l) + 1
         /\ Work("query", r, l, k) = Tries(r) + 1
BY DEF Work

\* It is a number, and not 0 before the call is over.
LEMMA WorkNat ==
  ASSUME NEW p \in Locations, NEW r \in Int, p \notin Over => r \in Nat,
         NEW l \in DOMAIN Limits, NEW k \in Nat
  PROVE  Work(p, r, l, k) \in Nat /\ (p \notin Over => Work(p, r, l, k) > 0)
<1>1. Tries(Retry) \in Nat /\ (r \in Nat => Tries(r) \in Nat)
  BY HelperAssumption, TriesFact
<1>2. l \in 1 .. Len(Limits) /\ Len(Limits) \in Nat
  BY FirstLimit
<1>3. CASE p \in {"idle", "scripts", "clients"}
  <2>1. Work(p, r, l, k) \in {Tries(Retry) + k + 3, Tries(Retry) + k + 2, Tries(Retry) + k + 1}
    BY <1>3 DEF Work
  <2>2. QED
    BY <1>1, <2>1
<1>4. CASE p \in {"limit", "query"}
  <2>1. r \in Nat
    BY <1>4 DEF Over
  <2> PICK t \in Nat : t = Tries(r)
    BY <1>1, <2>1
  <2> PICK m \in Nat : m = Len(Limits) + 1 - l
    BY <1>2
  <2>2. Work(p, r, l, k) \in {t + m + 1, t + 1}
    BY <1>4 DEF Work
  <2>3. QED
    BY <2>2
<1>5. CASE p \in Over
  <2>1. Work(p, r, l, k) = 0
    BY <1>5 DEF Work, Over
  <2>2. QED
    BY <1>5, <2>1
<1>6. QED
  BY <1>3, <1>4, <1>5 DEF Locations

\* The clients still to create are counted, and one less with each.
LEMMA ToCreateFact == ToCreate \in Nat /\ (ToCreate \in Nat)'
<1>1. IsFiniteSet(Nodes)
  BY HelperAssumption, FS_Interval DEF Nodes
<1>2. \A S : Cardinality(Nodes \ S) \in Nat
  BY <1>1, FS_Subset, FS_CardinalityType
<1>3. QED
  BY <1>2 DEF ToCreate

LEMMA CreatesOne ==
  ASSUME NEW c \in Calls, CreateClient(c)
  PROVE  ToCreate' = ToCreate - 1
<1>1. IsFiniteSet(Nodes)
  BY HelperAssumption, FS_Interval DEF Nodes
<1>2. IsFiniteSet(Nodes \ clients)
  BY <1>1, FS_Subset
<1>3. PICK n \in Nodes \ clients : clients' = clients \cup {n}
  BY DEF CreateClient
<1>4. Nodes \ clients' = (Nodes \ clients) \ {n}
  BY <1>3
<1>5. QED
  BY <1>2, <1>3, <1>4, FS_RemoveElement DEF ToCreate

\* What is left is a number.
LEMMA LeftNat ==
  ASSUME TypeInv, NEW c \in Calls
  PROVE  StepsLeft(c) \in Nat /\ (pc[c] \notin Over => StepsLeft(c) > 0)
<1>1. /\ pc[c] \in Locations /\ limit[c] \in DOMAIN Limits /\ attempt[c] \in 0 .. Retry
      /\ pc[c] \notin Over => attempt[c] < Attempts(c)
  BY DEF TypeInv, TypeOK, CallsOK, AttemptsLeft
<1>2. Attempts(c) \in 1 .. Retry /\ Retry \in Nat
  BY AttemptsFact, HelperAssumption
<1>3. Attempts(c) - attempt[c] - 1 \in Int
      /\ (pc[c] \notin Over => Attempts(c) - attempt[c] - 1 \in Nat)
  BY <1>1, <1>2
<1>4. QED
  BY <1>1, <1>3, StepsLeftIs, ToCreateFact, WorkNat

LEMMA NextLeft ==
  ASSUME TypeInv', NEW c \in Calls
  PROVE  StepsLeft(c)' \in Nat
<1>1. /\ pc'[c] \in Locations /\ limit'[c] \in DOMAIN Limits /\ attempt'[c] \in 0 .. Retry
      /\ pc'[c] \notin Over => attempt'[c] < Attempts(c)'
  BY DEF TypeInv, TypeOK, CallsOK, AttemptsLeft
<1>2. Attempts(c)' \in 1 .. Retry /\ Retry \in Nat
  BY HelperAssumption DEF Attempts
<1>3. Attempts(c)' - attempt'[c] - 1 \in Int
      /\ (pc'[c] \notin Over => Attempts(c)' - attempt'[c] - 1 \in Nat)
  BY <1>1, <1>2
<1>4. QED
  BY <1>1, <1>3, StepsLeftIs, ToCreateFact, WorkNat

\* It depends on the call and the clients alone, and fewer clients are less work.
LEMMA OthersWork ==
  ASSUME TypeInv, NEW c \in Calls,
         UNCHANGED <<pc[c], kind[c], attempt[c], limit[c]>>, ToCreate' <= ToCreate
  PROVE  StepsLeft(c)' <= StepsLeft(c)
<1> PICK r \in Int : r = Attempts(c) - attempt[c] - 1
  BY AttemptsFact, HelperAssumption DEF TypeInv, TypeOK, CallsOK
<1>1. Attempts(c)' - attempt'[c] - 1 = r
  BY DEF Attempts
<1>2. Work(pc[c], r, limit[c], ToCreate') <= Work(pc[c], r, limit[c], ToCreate)
  <2>1. Tries(Retry) \in Nat /\ ToCreate \in Nat /\ ToCreate' \in Nat
    BY HelperAssumption, TriesFact, ToCreateFact
  <2>2. CASE pc[c] \in {"idle", "scripts", "clients"}
    BY <2>1, <2>2, WorkAt
  <2>3. CASE pc[c] \notin {"idle", "scripts", "clients"}
    <3>1. Work(pc[c], r, limit[c], ToCreate') = Work(pc[c], r, limit[c], ToCreate)
      BY <2>3 DEF Work
    <3>2. Work(pc[c], r, limit[c], ToCreate) \in Nat
      BY LeftNat, StepsLeftIs
    <3>3. QED
      BY <3>1, <3>2
  <2>4. QED
    BY <2>2, <2>3
<1>3. QED
  BY <1>1, <1>2, StepsLeftIs

\* The attempts a call has after this one.
LEMMA AttemptsAfter ==
  ASSUME TypeInv, NEW c \in Calls, pc[c] \notin Over
  PROVE  /\ Attempts(c) - attempt[c] - 1 \in Nat
         /\ attempt[c] \in Nat /\ Attempts(c) \in Nat /\ attempt[c] < Attempts(c)
         /\ limit[c] \in Nat /\ Len(Limits) + 1 - limit[c] \in Nat
<1>1. attempt[c] \in 0 .. Retry /\ attempt[c] < Attempts(c)
  BY DEF TypeInv, TypeOK, CallsOK, AttemptsLeft
<1>2. limit[c] \in 1 .. Len(Limits) /\ Len(Limits) \in Nat
  BY FirstLimit DEF TypeInv, TypeOK, CallsOK
<1>3. Attempts(c) \in 1 .. Retry
  BY AttemptsFact
<1>4. Retry \in Nat
  BY HelperAssumption
<1>5. QED
  BY <1>1, <1>2, <1>3, <1>4

\* A failed attempt is one less, and starts over with the first limit.
LEMMA RaiseWork ==
  ASSUME TypeInv, NEW c \in Calls, pc[c] \in {"limit", "query"}, Raise(c), UNCHANGED kind
  PROVE  StepsLeft(c)' < StepsLeft(c)
<1>0. /\ pc[c] \notin Over /\ attempt \in [Calls -> 0 .. Retry]
      /\ pc \in [Calls -> Locations] /\ limit \in [Calls -> DOMAIN Limits]
  BY DEF Over, TypeInv, TypeOK, CallsOK
<1>1. /\ attempt[c] \in Nat /\ Attempts(c) \in Nat /\ Attempts(c)' = Attempts(c)
      /\ attempt'[c] = attempt[c] + 1
  <2>1. attempt' = [attempt EXCEPT ![c] = attempt[c] + 1]
    BY DEF Raise, Counted
  <2>2. attempt'[c] = attempt[c] + 1
    BY <1>0, <2>1
  <2>3. QED
    BY <1>0, <2>2, AttemptsAfter DEF Attempts
<1> PICK r \in Nat : r = Attempts(c) - attempt[c] - 1
  BY <1>0, AttemptsAfter
<1> PICK t \in Nat : t = Tries(r)
  BY TriesFact
<1>2. StepsLeft(c) \in Nat /\ StepsLeft(c) >= t + 1
  <2> PICK m \in Nat : m = Len(Limits) + 1 - limit[c]
    BY <1>0, AttemptsAfter
  <2>1. StepsLeft(c) = Work(pc[c], r, limit[c], ToCreate)
    BY StepsLeftIs
  <2>2. StepsLeft(c) \in {t + m + 1, t + 1}
    BY <2>1 DEF Work
  <2>3. QED
    BY <2>2
<1>3. CASE Counted(c) < Attempts(c)
  <2>1. pc'[c] = "limit" /\ limit'[c] = 1
    BY <1>0, <1>3 DEF Raise, Goto
  <2> PICK q \in Nat : r = q + 1 /\ Attempts(c)' - attempt'[c] - 1 = q
    BY <1>1, <1>3 DEF Counted
  <2>2. Tries(q) \in Nat /\ t = Tries(q) + (Len(Limits) + 1) /\ Len(Limits) \in Nat
    BY TriesFact, FirstLimit
  <2>3. StepsLeft(c)' = Tries(q) + (Len(Limits) + 1 - 1) + 1
    BY <2>1, StepsLeftIs, WorkAt
  <2>4. QED
    BY <1>2, <2>2, <2>3
<1>4. CASE ~(Counted(c) < Attempts(c))
  <2>1. pc'[c] \in {"aborted", "gave up"}
    BY <1>0, <1>4 DEF Raise, Goto
  <2>2. StepsLeft(c)' = 0
    BY <2>1, StepsLeftIs DEF Work
  <2>3. QED
    BY <1>2, <2>2
<1>5. QED
  BY <1>3, <1>4

\* A call that is over has nothing left.
LEMMA OverWork ==
  ASSUME TypeInv, NEW c \in Calls, pc[c] \notin Over, pc'[c] \in Over
  PROVE  StepsLeft(c)' < StepsLeft(c)
<1>1. StepsLeft(c)' = 0
  BY StepsLeftIs DEF Work, Over
<1>2. QED
  BY <1>1, LeftNat

\* The first limit comes after everything that is set up.
LEMMA FirstAttempt ==
  ASSUME TypeInv', NEW c \in Calls, pc'[c] = "limit"
  PROVE  StepsLeft(c)' <= Tries(Retry) /\ Tries(Retry) \in Nat
<1>1. /\ attempt'[c] \in 0 .. Retry /\ limit'[c] \in DOMAIN Limits
      /\ attempt'[c] < Attempts(c)'
  BY DEF TypeInv, TypeOK, CallsOK, AttemptsLeft, Over
<1>2. limit'[c] \in 1 .. Len(Limits) /\ Len(Limits) \in Nat
  BY <1>1, FirstLimit
<1>3. Attempts(c)' \in 1 .. Retry /\ Retry \in Nat
  BY HelperAssumption DEF Attempts
<1> PICK r \in Nat : r = Attempts(c)' - attempt'[c] - 1 /\ r + 1 <= Retry
  BY <1>1, <1>3
<1> PICK m \in Nat : m = Len(Limits) + 1 - limit'[c] /\ m <= Len(Limits)
  BY <1>2
<1>4. StepsLeft(c)' = Tries(r) + m + 1
  BY StepsLeftIs, WorkAt
<1>5. Tries(r) \in Nat /\ Tries(r + 1) = Tries(r) + (Len(Limits) + 1)
  BY TriesFact
<1>6. Tries(r + 1) <= Tries(Retry) /\ Tries(Retry) \in Nat
  <2>1. r + 1 \in 0 .. Retry
    BY <1>3
  <2>2. QED
    BY <1>3, <2>1, TriesFact
<1>7. QED
  BY <1>2, <1>4, <1>5, <1>6

\* Every step of a call is one less of what it has left.
LEMMA StepWork ==
  ASSUME TypeInv, TypeInv', NEW c \in Calls, Step(c)
  PROVE  StepsLeft(c)' < StepsLeft(c)
<1>0. /\ pc \in [Calls -> Locations] /\ limit \in [Calls -> DOMAIN Limits]
      /\ Tries(Retry) \in Nat /\ ToCreate \in Nat
  BY HelperAssumption, TriesFact, ToCreateFact DEF TypeInv, TypeOK, CallsOK
<1>1. CASE Begin(c)
  <2>1. pc[c] = "idle" /\ pc'[c] \in {"scripts", "clients", "limit"} /\ ToCreate' = ToCreate
    BY <1>0, <1>1 DEF Begin, Goto, ToCreate
  <2>2. StepsLeft(c) = Tries(Retry) + ToCreate + 3
    BY <2>1, StepsLeftIs, WorkAt
  <2>3. CASE pc'[c] = "limit"
    BY <1>0, <2>2, <2>3, FirstAttempt, NextLeft
  <2>4. CASE pc'[c] \in {"scripts", "clients"}
    <3>1. StepsLeft(c)' \in {Tries(Retry) + ToCreate + 2, Tries(Retry) + ToCreate + 1}
      BY <2>1, <2>4, StepsLeftIs DEF Work
    <3>2. QED
      BY <1>0, <2>2, <3>1
  <2>5. QED
    BY <2>1, <2>3, <2>4
<1>2. CASE LoadScripts(c)
  <2>1. pc[c] = "scripts" /\ pc'[c] \in {"clients", "aborted"} /\ ToCreate' = ToCreate
    BY <1>0, <1>2 DEF LoadScripts, Goto, ToCreate
  <2>2. StepsLeft(c) = Tries(Retry) + ToCreate + 2
    BY <2>1, StepsLeftIs, WorkAt
  <2>3. StepsLeft(c)' \in {Tries(Retry) + ToCreate + 1, 0}
    BY <2>1, StepsLeftIs DEF Work
  <2>4. QED
    BY <1>0, <2>2, <2>3
<1>3. CASE CreateClient(c)
  <2>1. pc[c] = "clients" /\ pc'[c] = "clients" /\ ToCreate' = ToCreate - 1
    BY <1>3, CreatesOne DEF CreateClient, callVars
  <2>2. StepsLeft(c) = Tries(Retry) + ToCreate + 1 /\ StepsLeft(c)' = Tries(Retry) + ToCreate' + 1
    BY <2>1, StepsLeftIs, WorkAt
  <2>3. QED
    BY <1>0, <2>1, <2>2
<1>4. CASE FinishInit(c)
  <2>1. StepsLeft(c) = Tries(Retry) + ToCreate + 1 /\ pc'[c] = "limit"
    BY <1>0, <1>4, StepsLeftIs, WorkAt DEF FinishInit, Goto
  <2>2. StepsLeft(c)' <= Tries(Retry) /\ StepsLeft(c)' \in Int
    BY <2>1, FirstAttempt, NextLeft
  <2>3. QED
    BY <1>0, <2>1, <2>2
<1>5. CASE CheckLimit(c)
  <2>1. pc[c] = "limit" /\ UNCHANGED kind
    BY <1>5 DEF CheckLimit
  <2>2. CASE ~Within(Window(c), span[c])
    BY <1>5, <2>1, <2>2, RaiseWork DEF CheckLimit
  <2>3. CASE Within(Window(c), span[c])
    <3>1. /\ UNCHANGED attempt /\ Attempts(c)' = Attempts(c)
          /\ \/ pc'[c] = "limit" /\ limit'[c] = limit[c] + 1
             \/ pc'[c] = "query"
      BY <1>0, <1>5, <2>1, <2>3 DEF CheckLimit, Goto, Attempts
    <3>2. pc[c] \notin Over
      BY <2>1 DEF Over
    <3> PICK r \in Nat : r = Attempts(c) - attempt[c] - 1
      BY <3>2, AttemptsAfter
    <3>3. Tries(r) \in Nat /\ Len(Limits) \in Nat /\ limit[c] \in 1 .. Len(Limits)
      BY <1>0, TriesFact, FirstLimit
    <3>4. StepsLeft(c) = Tries(r) + (Len(Limits) + 1 - limit[c]) + 1
      BY <2>1, StepsLeftIs, WorkAt
    <3>5. Attempts(c)' - attempt'[c] - 1 = r
      BY <3>1
    <3>6. CASE pc'[c] = "limit" /\ limit'[c] = limit[c] + 1
      <4>1. StepsLeft(c)' = Tries(r) + (Len(Limits) + 1 - (limit[c] + 1)) + 1
        BY <3>5, <3>6, StepsLeftIs, WorkAt
      <4>2. QED
        BY <3>3, <3>4, <4>1
    <3>7. CASE pc'[c] = "query"
      <4>1. StepsLeft(c)' = Tries(r) + 1
        BY <3>5, <3>7, StepsLeftIs, WorkAt
      <4>2. QED
        BY <3>3, <3>4, <4>1
    <3>8. QED
      BY <3>1, <3>6, <3>7
  <2>4. QED
    BY <2>2, <2>3
<1>6. CASE LimiterFails(c)
  <2>1. pc[c] = "limit" /\ UNCHANGED kind /\ (Raise(c) \/ Bail(c))
    BY <1>6 DEF LimiterFails
  <2>2. CASE Raise(c)
    BY <2>1, <2>2, RaiseWork
  <2>3. CASE Bail(c)
    <3>1. pc[c] \notin Over /\ pc'[c] \in Over
      BY <1>0, <2>1, <2>3 DEF Bail, Goto, Over
    <3>2. QED
      BY <3>1, OverWork
  <2>4. QED
    BY <2>1, <2>2, <2>3
<1>7. CASE Answered(c)
  <2>1. pc[c] \notin Over /\ pc'[c] \in Over
    BY <1>0, <1>7 DEF Answered, Goto, Over
  <2>2. QED
    BY <2>1, OverWork
<1>8. CASE QueryFails(c)
  <2>1. pc[c] = "query" /\ UNCHANGED kind /\ (Raise(c) \/ Bail(c))
    BY <1>8 DEF QueryFails
  <2>2. CASE Raise(c)
    BY <2>1, <2>2, RaiseWork
  <2>3. CASE Bail(c)
    <3>1. pc[c] \notin Over /\ pc'[c] \in Over
      BY <1>0, <2>1, <2>3 DEF Bail, Goto, Over
    <3>2. QED
      BY <3>1, OverWork
  <2>4. QED
    BY <2>1, <2>2, <2>3
<1>9. QED
  BY <1>1, <1>2, <1>3, <1>4, <1>5, <1>6, <1>7, <1>8 DEF Step

\* No step adds to what another call has left.
LEMMA OthersLeft ==
  ASSUME TypeInv, TypeInv', [Next]_vars, NEW c \in Calls, ~Step(c)
  PROVE  StepsLeft(c)' <= StepsLeft(c)
<1>0. ToCreate \in Nat
  BY ToCreateFact
<1>1. ASSUME NEW d \in Calls, Step(d)
      PROVE  UNCHANGED <<pc[c], kind[c], attempt[c], limit[c]>> /\ ToCreate' <= ToCreate
  <2>0. c # d
    BY <1>1
  <2>1. ToCreate' <= ToCreate
    <3>1. CASE CreateClient(d)
      BY <1>0, <3>1, CreatesOne
    <3>2. CASE clients' = clients
      BY <1>0, <3>2 DEF ToCreate
    <3>3. QED
      BY <1>1, <3>1, <3>2
         DEF Step, Begin, LoadScripts, FinishInit, CheckLimit, LimiterFails, Answered, QueryFails,
             helperVars
  <2>2. UNCHANGED <<pc[c], kind[c], attempt[c], limit[c]>>
    <3>0. CallsOK
      BY DEF TypeInv, TypeOK
    <3>1. CASE Begin(d)
      BY <2>0, <3>0, <3>1 DEF Begin, Goto, CallsOK
    <3>2. CASE LoadScripts(d) \/ CreateClient(d) \/ FinishInit(d) \/ Answered(d)
      BY <2>0, <3>0, <3>2 DEF LoadScripts, CreateClient, FinishInit, Answered, callVars, Goto, CallsOK
    <3>3. CASE Raise(d) /\ UNCHANGED kind
      BY <2>0, <3>0, <3>3 DEF Raise, Goto, CallsOK
    <3>4. CASE CheckLimit(d)
      <4>1. CASE Within(Window(d), span[d])
        BY <2>0, <3>0, <3>4, <4>1 DEF CheckLimit, Goto, CallsOK
      <4>2. CASE ~Within(Window(d), span[d])
        BY <3>3, <3>4, <4>2 DEF CheckLimit
      <4>3. QED
        BY <4>1, <4>2
    <3>5. CASE LimiterFails(d)
      <4>1. UNCHANGED kind /\ (Raise(d) \/ Bail(d))
        BY <3>5 DEF LimiterFails
      <4>2. CASE Bail(d)
        BY <2>0, <3>0, <4>1, <4>2 DEF Bail, Goto, CallsOK
      <4>3. QED
        BY <3>3, <4>1, <4>2
    <3>6. CASE QueryFails(d)
      <4>1. UNCHANGED kind /\ (Raise(d) \/ Bail(d))
        BY <3>6 DEF QueryFails
      <4>2. CASE Bail(d)
        BY <2>0, <3>0, <4>1, <4>2 DEF Bail, Goto, CallsOK
      <4>3. QED
        BY <3>3, <4>1, <4>2
    <3>7. QED
      BY <1>1, <3>1, <3>2, <3>4, <3>5, <3>6 DEF Step
  <2>3. QED
    BY <2>1, <2>2
<1>2. CASE GetCurrentNode \/ WindowOver \/ RedisRestarts \/ UNCHANGED vars
  BY <1>0, <1>2, OthersWork
     DEF GetCurrentNode, WindowOver, RedisRestarts, vars, helperVars, callVars, ToCreate
<1>3. QED
  BY <1>1, <1>2, OthersWork DEF Next

\* Whatever fails and however often, a call has a bounded number of steps, and each
\* of its steps is one of them: neither retries nor the set-up go on for ever.
THEOREM NoCallGoesOn == Spec => WindsDown
<1>1. TypeInv /\ TypeInv' /\ [Next]_vars =>
        [\A c \in Calls : /\ StepsLeft(c)' \in 0 .. StepsLeft(c)
                          /\ Step(c) => StepsLeft(c)' < StepsLeft(c)]_vars
  <2> SUFFICES ASSUME TypeInv, TypeInv', [Next]_vars, NEW c \in Calls
               PROVE  /\ StepsLeft(c)' \in 0 .. StepsLeft(c)
                      /\ Step(c) => StepsLeft(c)' < StepsLeft(c)
    OBVIOUS
  <2>1. StepsLeft(c) \in Nat /\ StepsLeft(c)' \in Nat
    BY LeftNat, NextLeft
  <2>2. CASE Step(c)
    BY <2>1, <2>2, StepWork
  <2>3. CASE ~Step(c)
    BY <2>1, <2>3, OthersLeft
  <2>4. QED
    BY <2>2, <2>3
<1>2. Spec => []TypeInv
  BY TypeInit, TypeStep, PTL DEF Spec
<1>3. QED
  BY <1>1, <1>2, PTL DEF Spec, WindsDown
=============================================================================
