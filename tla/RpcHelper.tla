----------------------------- MODULE RpcHelper -----------------------------
(***************************************************************************)
(* rpc.py: calls of the nodes of a chain.  The calls run concurrently and  *)
(* share what init sets up, and the rate limits in redis.  A retried call  *)
(* starts at node 0 and moves on to the next node after each RPCException; *)
(* any other exception ends it at once.                                    *)
(***************************************************************************)
EXTENDS RateLimiter, FiniteSets

CONSTANTS
  Calls,       \* the calls
  NodeCount,   \* the nodes that were initialised
  NameOf,      \* the last part of each node's url
  Retry,       \* settings.chain.rpc.retry
  Spans,       \* the numbers of blocks get_events_logs may be called with
  FaultKinds,  \* what may go wrong
  MaxFaults    \* bound: how often it goes wrong in one behaviour

Nodes == 0 .. NodeCount - 1

ASSUME HelperAssumption ==
  /\ NodeCount \in Nat \ {0} /\ Retry \in Nat \ {0}
  /\ NameOf \in [Nodes -> AppIds]
  /\ Limits # <<>> /\ Spans \subseteq Nat \ {0}
  /\ FaultKinds \subseteq {"node", "redis", "restart"} /\ MaxFaults \in Nat

VARIABLES
  loaded,       \* _sync_nodes_initialized: _nodes and _node_count are set
  shas,         \* is _rate_limit_lua_script_shas set?
  clients,      \* the nodes with a web3_client_async
  initialized,  \* _initialized
  pc,           \* where each call is
  kind,         \* which method it is
  span,         \* limit_incr_by
  node,         \* node_idx
  attempt,      \* failed attempts
  limit,        \* index of the limit to check next
  failed,       \* history: the nodes whose attempts failed
  faults        \* how often something went wrong so far

helperVars == <<loaded, shas, clients, initialized>>
callVars   == <<pc, kind, span, node, attempt, limit, failed>>
vars == <<helperVars, callVars, limiterVars, faults>>

\* get_current_block, get_events_logs, _async_web3_call, get_transaction_receipt
\* and _make_rpc_jsonrpc_call with the batch calls that use it.
Kinds == {"head", "logs", "web3", "receipt", "jsonrpc"}

Fault(f) == f \in FaultKinds /\ faults < MaxFaults /\ faults' = faults + 1

Goto(c, l) == pc' = [pc EXCEPT ![c] = l]

-----------------------------------------------------------------------------
(* init.  It is not exclusive: a call that finds _initialized not set runs *)
(* it too, and skips what another call has done by then.                   *)

\* Mutant: every method looks at the number of nodes.
NeedsNodes(k) == ~loaded
\* get_transaction_receipt looks at the number of nodes instead.
NeedsInit(k) == IF k = "receipt" THEN ~loaded ELSE ~initialized

\* The call starts, and loads the nodes if it runs init; nothing awaits before
\* the scripts are loaded.
Begin(c) ==
  /\ pc[c] = "idle"
  /\ \E k \in Kinds :
       /\ kind' = [kind EXCEPT ![c] = k]
       /\ \E s \in IF k = "logs" THEN Spans ELSE {1} : span' = [span EXCEPT ![c] = s]
       /\ IF NeedsInit(k)
          THEN loaded' = TRUE /\ Goto(c, IF shas THEN "clients" ELSE "scripts")
          ELSE UNCHANGED loaded /\ Goto(c, "limit")
  /\ UNCHANGED <<shas, clients, initialized, node, attempt, limit, failed,
                 limiterVars, faults>>

\* get_current_node loads the nodes, and nothing else.
GetCurrentNode ==
  /\ ~loaded /\ loaded' = TRUE
  /\ UNCHANGED <<shas, clients, initialized, callVars, limiterVars, faults>>

LoadScripts(c) ==
  /\ pc[c] = "scripts"
  /\ \/ /\ shas' = TRUE /\ scripts' = TRUE /\ Goto(c, "clients")
        /\ UNCHANGED faults
     \/ Fault("redis") /\ Goto(c, "aborted") /\ UNCHANGED <<shas, scripts>>
  /\ UNCHANGED <<loaded, clients, initialized, kind, span, node, attempt, limit,
                 failed, counters, expiring, admitted>>

\* One turn of the loop of _load_async_web3_providers.
CreateClient(c) ==
  /\ pc[c] = "clients"
  /\ \E n \in Nodes \ clients :
       /\ \A m \in Nodes \ clients : n <= m
       /\ clients' = clients \cup {n}
  /\ UNCHANGED <<loaded, shas, initialized, callVars, limiterVars, faults>>

FinishInit(c) ==
  /\ pc[c] = "clients" /\ Nodes \subseteq clients
  /\ initialized' = TRUE /\ Goto(c, "limit")
  /\ UNCHANGED <<loaded, shas, clients, kind, span, node, attempt, limit, failed,
                 limiterVars, faults>>

-----------------------------------------------------------------------------
(* An attempt.                                                             *)

\* Mutant: the first node does not follow the last one.
NodeUnwrapped(n) == n + 1
\* Mutant: a call is repeated on the same node.
SameNode(n) == n
\* _on_node_exception.
NextNode(n) == (n + 1) % NodeCount

Attempts(c) == IF kind[c] = "head" THEN 1 ELSE Retry

\* Mutant: a failed attempt is not counted.
NotCounted(c) == attempt[c]
Counted(c) == attempt[c] + 1

\* An RPCException: tenacity repeats the call with the next node, or raises it.
\* get_current_block is not repeated, it asks node 0 only.
Raise(c) ==
  /\ attempt' = [attempt EXCEPT ![c] = Counted(c)]
  /\ failed' = [failed EXCEPT ![c] = IF kind[c] = "head" THEN @ ELSE @ \cup {node[c]}]
  /\ IF Counted(c) < Attempts(c)
     THEN /\ node' = [node EXCEPT ![c] = NextNode(@)]
          /\ limit' = [limit EXCEPT ![c] = 1]
          /\ Goto(c, "limit")
     ELSE /\ Goto(c, IF kind[c] = "head" THEN "aborted" ELSE "gave up")
          /\ UNCHANGED <<node, limit>>

\* Any other exception: the call ends.
Bail(c) == Goto(c, "aborted") /\ UNCHANGED <<node, attempt, limit, failed>>

Window(c) == <<NameOf[node[c]], limit[c]>>

\* check_rpc_rate_limit loads the scripts itself if it is not given their names.
ScriptsAtHand(c) == scripts \/ (~shas /\ limit[c] = 1)

\* check_rpc_rate_limit, one limit.  A refused call is counted, and so are the
\* limits before.
CheckLimit(c) ==
  /\ pc[c] = "limit" /\ ScriptsAtHand(c)
  /\ scripts' = TRUE
  /\ Count(Window(c), span[c])
  /\ IF Within(Window(c), span[c])
     THEN /\ Admit(Window(c), span[c])
          /\ IF limit[c] < Len(Limits)
             THEN limit' = [limit EXCEPT ![c] = @ + 1] /\ UNCHANGED pc
             ELSE UNCHANGED limit /\ Goto(c, "query")
          /\ UNCHANGED <<node, attempt, failed>>
     ELSE Raise(c) /\ UNCHANGED admitted
  /\ UNCHANGED <<helperVars, kind, span, faults>>

\* redis fails, or does not know the script any more; the counter may have been
\* incremented.  Only _async_web3_call makes an RPCException of it.
LimiterFails(c) ==
  /\ pc[c] = "limit"
  /\ \/ ~ScriptsAtHand(c) /\ UNCHANGED <<scripts, counters, expiring, faults>>
     \/ /\ Fault("redis") /\ scripts' \in {scripts, ScriptsAtHand(c)}
        /\ UNCHANGED <<counters, expiring>>
     \/ /\ Fault("redis") /\ ScriptsAtHand(c) /\ scripts' = TRUE
        /\ Count(Window(c), span[c])
  /\ IF kind[c] = "web3" THEN Raise(c) ELSE Bail(c)
  /\ UNCHANGED <<helperVars, kind, span, admitted>>

\* The client the method uses: get_current_block has one of its own, and
\* _make_rpc_jsonrpc_call posts to the url.
HasClient(c) == kind[c] \in {"head", "jsonrpc"} \/ node[c] \in clients

Answered(c) ==
  /\ pc[c] = "query" /\ HasClient(c)
  /\ Goto(c, "answered")
  /\ UNCHANGED <<helperVars, kind, span, node, attempt, limit, failed, limiterVars, faults>>

\* The node fails, or the call is not recorded in redis.  A JSON-RPC answer that is
\* neither an object nor a list of objects is looked into outside the try: the call
\* ends with a TypeError.
QueryFails(c) ==
  /\ pc[c] = "query"
  /\ \/ ~HasClient(c) /\ Raise(c) /\ UNCHANGED faults
     \/ (Fault("node") \/ Fault("redis")) /\ Raise(c)
     \/ kind[c] = "jsonrpc" /\ Fault("node") /\ Bail(c)
  /\ UNCHANGED <<helperVars, kind, span, limiterVars>>

-----------------------------------------------------------------------------
(* Redis.                                                                  *)

WindowOver ==
  /\ \E w \in expiring : Expire(w)
  /\ UNCHANGED <<helperVars, callVars, faults>>

RedisRestarts ==
  /\ Fault("restart") /\ Restart
  /\ UNCHANGED <<helperVars, callVars>>

Init ==
  /\ loaded = FALSE /\ shas = FALSE /\ clients = {} /\ initialized = FALSE
  /\ pc = [c \in Calls |-> "idle"] /\ kind = [c \in Calls |-> "head"]
  /\ span = [c \in Calls |-> 1] /\ node = [c \in Calls |-> 0]
  /\ attempt = [c \in Calls |-> 0] /\ limit = [c \in Calls |-> 1]
  /\ failed = [c \in Calls |-> {}]
  /\ LimiterInit /\ faults = 0

Step(c) ==
  \/ Begin(c) \/ LoadScripts(c) \/ CreateClient(c) \/ FinishInit(c)
  \/ CheckLimit(c) \/ LimiterFails(c) \/ Answered(c) \/ QueryFails(c)

Next == (\E c \in Calls : Step(c)) \/ GetCurrentNode \/ WindowOver \/ RedisRestarts

Spec == Init /\ [][Next]_vars

\* The event loop runs every call.
FairSpec == Spec /\ \A c \in Calls : WF_vars(Step(c))

-----------------------------------------------------------------------------
(* Properties.                                                             *)

Over == {"answered", "gave up", "aborted"}
Locations == {"idle", "scripts", "clients", "limit", "query"} \cup Over

HelperOK ==
  /\ loaded \in BOOLEAN /\ shas \in BOOLEAN /\ initialized \in BOOLEAN
  /\ clients \subseteq Nodes

CallsOK ==
  /\ pc \in [Calls -> Locations] /\ kind \in [Calls -> Kinds]
  /\ span \in [Calls -> Nat \ {0}] /\ node \in [Calls -> Nodes]
  /\ attempt \in [Calls -> 0 .. Retry] /\ limit \in [Calls -> DOMAIN Limits]
  /\ failed \in [Calls -> SUBSET Nodes]

\* Types: in particular, every node index is one of a node.
TypeOK == HelperOK /\ CallsOK /\ LimiterTypeOK /\ faults \in Nat

(***************************************************************************)
(* However the calls that run init interleave, and wherever one of them    *)
(* fails, a call gets through to its node with everything it needs: the    *)
(* nodes, the scripts' names, and a client.  A receipt is the exception:   *)
(* it may find the nodes loaded and nothing else.                          *)
(***************************************************************************)
ReadyToCall ==
  \A c \in Calls :
    pc[c] \in {"limit", "query"} =>
      /\ loaded
      /\ kind[c] # "receipt" => shas /\ HasClient(c)

\* What its callers rely on: every call is a call of NodeFailover.
StatusOf(c) == IF pc[c] \in {"scripts", "clients", "limit", "query"} THEN "open" ELSE pc[c]

Failover == INSTANCE NodeFailover WITH
  Callers <- Calls, Servers <- Nodes, status <- [c \in Calls |-> StatusOf(c)]

FailsOver == Failover!FailoverSpec

\* Steps that call c still takes at most: an attempt checks each limit and queries.
StepsLeft(c) ==
  LET try == Len(Limits) + 1
      tries == (Attempts(c) - attempt[c] - 1) * try
      init == Retry * try + Cardinality(Nodes \ clients) IN
  CASE pc[c] = "idle"    -> init + 3
    [] pc[c] = "scripts" -> init + 2
    [] pc[c] = "clients" -> init + 1
    [] pc[c] = "limit"   -> tries + (try - limit[c]) + 1
    [] pc[c] = "query"   -> tries + 1
    [] OTHER -> 0

\* However often nodes and redis fail, no call goes on for ever: each of its steps is
\* one less of those it still takes, and no step of another call, no window that ends
\* and no restart of redis adds to them.
WindsDown ==
  [][\A c \in Calls : /\ StepsLeft(c)' \in 0 .. StepsLeft(c)
                      /\ Step(c) => StepsLeft(c)' < StepsLeft(c)]_vars

\* Every call comes to an end.
CallsEnd == \A c \in Calls : pc[c] # "idle" ~> pc[c] \in Over
=============================================================================
