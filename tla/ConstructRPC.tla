---------------------------- MODULE ConstructRPC ----------------------------
(***************************************************************************)
(* helpers/rpc_helper.py: the synchronous calls of source chain nodes, one *)
(* at a time.  A call asks the nodes in turn until one of them answers, or *)
(* until each has been asked Limit times.  An answer is taken for what it  *)
(* is only after the loop: a JSON-RPC error is an answer there.            *)
(***************************************************************************)
EXTENDS Naturals, Sequences, Functions

CONSTANTS
  Urls,   \* rpc_nodes.NODES, in order
  Limit,  \* rpc_nodes.RETRY_LIMIT
  Tries   \* tries of auto_retry

ASSUME CallAssumption ==
  Urls \in Seq(Range(Urls)) /\ Urls # <<>> /\ Limit \in Nat /\ Tries \in Nat \ {0}

VARIABLES
  pc,         \* where the call is, or how it ended
  procedure,  \* the method called
  retry,      \* the requests to each url
  at,         \* the url at hand
  tries,      \* failed tries of auto_retry
  heard       \* history: what the nodes made of the requests of this call

vars == <<pc, procedure, retry, at, tries, heard>>

Procedures == {"eth_blockNumber", "eth_getBlockByNumber"}

(***************************************************************************)
(* What becomes of a request: requests.post or json() raises, or the       *)
(* answer holds a result, an empty one, or an error in its place.          *)
(***************************************************************************)
Replies == {"raises", "result", "null", "error"}

\* Ends of a call: a result, BailException, or the UnboundLocalError that
\* `raise exc` of auto_retry is once its except clauses are left.
Over == {"answered", "bail", "unbound"}

NoRequests == [u \in Range(Urls) |-> 0]

Init ==
  /\ pc = "idle" /\ procedure = "eth_blockNumber"
  /\ retry = NoRequests /\ at = 1 /\ tries = 0 /\ heard = {}

Call ==
  /\ pc \in {"idle"} \cup Over
  /\ pc' = "round" /\ procedure' \in Procedures
  /\ retry' = NoRequests /\ at' = 1 /\ tries' = 0 /\ heard' = {}

\* An exception: rpc_eth_blocknumber raises BailException, while auto_retry
\* calls rpc_eth_getblock_by_number again.
Raise(requests) ==
  \/ /\ procedure = "eth_blockNumber"
     /\ pc' = "bail" /\ retry' = requests /\ UNCHANGED <<at, tries>>
  \/ /\ procedure = "eth_getBlockByNumber" /\ tries + 1 < Tries
     /\ pc' = "round" /\ tries' = tries + 1
     /\ retry' = NoRequests /\ at' = 1
  \/ /\ procedure = "eth_getBlockByNumber" /\ tries + 1 >= Tries
     /\ pc' = "unbound" /\ retry' = requests /\ UNCHANGED <<at, tries>>

\* Mutant: the last round is left out.
AlmostExhausted == \A u \in Range(Urls) : retry[u] + 1 = Limit
Exhausted == \A u \in Range(Urls) : retry[u] = Limit

\* The test at the top of the loop.
Round ==
  /\ pc = "round"
  /\ IF Exhausted
     THEN Raise(retry)
     ELSE pc' = "ask" /\ at' = 1 /\ UNCHANGED <<retry, tries>>
  /\ UNCHANGED <<procedure, heard>>

\* Mutant: requests are not counted.
NotCounted(u) == retry
\* Mutant: a request is counted before it is sent and after it.
CountedTwice(u) == [retry EXCEPT ![u] = @ + 2]
Counted(u) == [retry EXCEPT ![u] = @ + 1]

\* Mutant: a failed request ends the round.
EndRound == pc' = "round" /\ UNCHANGED at
\* The next url, or the next round.
NextUrl ==
  IF at < Len(Urls) THEN at' = at + 1 /\ UNCHANGED pc ELSE pc' = "round" /\ UNCHANGED at

\* Of the empty results only those of eth_getBlockByNumber are passed over.
PassedOver(reply) ==
  reply = "raises" \/ (reply = "null" /\ procedure = "eth_getBlockByNumber")

Ask ==
  /\ pc = "ask"
  /\ \E reply \in Replies :
       /\ heard' = heard \cup {reply}
       /\ \/ reply = "result" /\ pc' = "answered"
             /\ retry' = Counted(Urls[at]) /\ UNCHANGED <<at, tries>>
          \/ PassedOver(reply) /\ NextUrl
             /\ retry' = Counted(Urls[at]) /\ UNCHANGED tries
          \/ reply # "result" /\ ~PassedOver(reply) /\ Raise(Counted(Urls[at]))
  /\ UNCHANGED procedure

Next == Call \/ Round \/ Ask

Spec == Init /\ [][Next]_vars

\* The process is not stopped within a call: requests.post has a timeout.
FairSpec == Spec /\ WF_vars(Round \/ Ask)

-----------------------------------------------------------------------------
(* Properties.                                                             *)

\* Types: in particular, no url is asked more than Limit times in one try.
TypeOK ==
  /\ pc \in {"idle", "round", "ask"} \cup Over
  /\ procedure \in Procedures
  /\ retry \in [Range(Urls) -> 0 .. Limit]
  /\ at \in DOMAIN Urls /\ tries \in 0 .. Tries - 1
  /\ heard \subseteq Replies

\* A call gives up for want of an answer only when every url was asked Limit
\* times, in the last of all its tries.  (One error in place of a result is
\* enough to end it, however many healthy nodes there are.)
GivesUpExhausted ==
  pc \in {"bail", "unbound"} /\ heard \subseteq {"raises"}
    => /\ \A u \in Range(Urls) : retry[u] = Limit
       /\ pc = "unbound" => tries + 1 = Tries

\* The nodes are asked in turn: none is asked twice more than another, and an
\* earlier one never less often than a later one.
InTurn ==
  \A i, j \in DOMAIN Urls :
    i < j => retry[Urls[i]] - retry[Urls[j]] \in {0, 1}

\* Steps that the call at hand still takes at most: each try has Limit rounds, and
\* the last url in the list tells how many of them are over.
StepsLeft ==
  LET round == Len(Urls) + 1
      rounds == (Limit - retry[Urls[Len(Urls)]]) * round
      later == (Tries - tries - 1) * (Limit * round + 1) IN
  CASE pc = "round" -> later + rounds + 1
    [] pc = "ask"   -> later + (rounds - at) + 1
    [] OTHER -> 0

\* No call goes on for ever: a request or a round is one less of what is left, also
\* when the counts start again with the next try.
WindsDown == [][Round \/ Ask => StepsLeft' \in 0 .. StepsLeft - 1]_vars

\* Every call comes to an end, whatever the nodes answer.
CallEnds == pc = "round" ~> pc \in Over
=============================================================================
