---------------------------- MODULE NodeFailover ----------------------------
(***************************************************************************)
(* What a caller of the retried calls of RpcHelper relies on: a call comes *)
(* back.  It asks no node again before it has asked them all, it gives up  *)
(* only when all of them failed it, and otherwise it is answered, or       *)
(* aborted for a reason that no node can help with.                        *)
(***************************************************************************)
EXTENDS Integers

CONSTANTS
  Callers,   \* the calls
  Servers    \* the nodes

VARIABLES
  status,    \* what became of each call
  failed     \* the nodes that failed it

failoverVars == <<status, failed>>

FailoverInit ==
  /\ status = [c \in Callers |-> "idle"]
  /\ failed = [c \in Callers |-> {}]

Open(c) ==
  /\ status[c] = "idle" /\ status' = [status EXCEPT ![c] = "open"]
  /\ UNCHANGED failed

Fail(c, s) ==
  /\ status[c] = "open"
  /\ s \notin failed[c] \/ failed[c] = Servers
  /\ failed' = [failed EXCEPT ![c] = @ \cup {s}]
  /\ \/ UNCHANGED status
     \/ failed[c] \cup {s} = Servers /\ status' = [status EXCEPT ![c] = "gave up"]

Answer(c) ==
  /\ status[c] = "open" /\ status' = [status EXCEPT ![c] = "answered"]
  /\ UNCHANGED failed

Abort(c) ==
  /\ status[c] = "open" /\ status' = [status EXCEPT ![c] = "aborted"]
  /\ UNCHANGED failed

FailoverNext ==
  \E c \in Callers :
    Open(c) \/ Answer(c) \/ Abort(c) \/ (\E s \in Servers : Fail(c, s))

FailoverSpec == FailoverInit /\ [][FailoverNext]_failoverVars
=============================================================================
