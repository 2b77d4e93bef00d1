---------------------------- MODULE RateLimiter ----------------------------
(***************************************************************************)
(* utils/rate_limiter.py: every call of a node is counted in redis, in one *)
(* fixed window for each limit of the node, by a script that redis runs    *)
(* atomically.  The nodes are known by the last part of their url, so that *)
(* nodes with the same one share their windows.                            *)
(***************************************************************************)
EXTENDS Integers, Sequences, Functions

CONSTANTS
  AppIds,   \* the last parts of the urls of the nodes
  Limits    \* the amounts of a node's limits, in the order of its rate_limit

ASSUME LimiterAssumption == Limits \in Seq(Nat \ {0})

VARIABLES
  scripts,   \* does redis hold the scripts it was given?
  counters,  \* the counters in redis: a function from those that exist
  expiring,  \* the counters with a time to live
  admitted   \* history: what each limit let through in its current window

limiterVars == <<scripts, counters, expiring, admitted>>

\* One counter for each node name and limit.
Windows == AppIds \X DOMAIN Limits

LimiterInit ==
  /\ scripts = FALSE
  /\ counters = [w \in {} |-> 0] /\ expiring = {}
  /\ admitted = [w \in Windows |-> 0]

\* incrby: a counter that does not exist counts as zero.
Incremented(w, by) == (IF w \in DOMAIN counters THEN counters[w] ELSE 0) + by

\* Mutant: only a counter of one is taken for a new one.
ExpiryDueAtOne(w, by) == Incremented(w, by) = 1
\* SCRIPT_INCR_EXPIRE: the counter is new, and gets a time to live.
ExpiryDue(w, by) == Incremented(w, by) = by

Count(w, by) ==
  /\ counters' = [x \in DOMAIN counters \cup {w} |->
                    IF x = w THEN Incremented(w, by) ELSE counters[x]]
  /\ expiring' = IF ExpiryDue(w, by) THEN expiring \cup {w} ELSE expiring

\* Mutant: what was counted before decides.
WasWithin(w, by) == Incremented(w, by) - by <= Limits[w[2]]
\* AsyncFixedWindowRateLimiter.hit: what was counted is within the limit.
Within(w, by) == Incremented(w, by) <= Limits[w[2]]

Admit(w, by) == admitted' = [admitted EXCEPT ![w] = @ + by]

\* The window is over.
Expire(w) ==
  /\ w \in expiring
  /\ counters' = Restrict(counters, DOMAIN counters \ {w})
  /\ expiring' = expiring \ {w}
  /\ admitted' = [admitted EXCEPT ![w] = 0]
  /\ UNCHANGED scripts

\* redis starts again: the scripts are gone, the counters too unless redis saves
\* them.
Restart ==
  /\ scripts' = FALSE
  /\ \/ UNCHANGED <<counters, expiring, admitted>>
     \/ /\ counters' = [w \in {} |-> 0] /\ expiring' = {}
        /\ admitted' = [w \in Windows |-> 0]

-----------------------------------------------------------------------------
(* Properties.                                                             *)

LimiterTypeOK ==
  /\ scripts \in BOOLEAN
  /\ DOMAIN counters \subseteq Windows /\ counters \in [DOMAIN counters -> Int]
  /\ expiring \subseteq DOMAIN counters
  /\ admitted \in [Windows -> Nat]

\* Every counter goes away some day: none was created, or created anew, without
\* a time to live, whatever the first call in its window counted.
CountersExpire == DOMAIN counters = expiring

\* In no window a limit lets through more than its amount, however many calls,
\* attempts and nodes share it: what was refused or lost counts as well.
WithinLimits == \A w \in Windows : admitted[w] <= Limits[w[2]]
=============================================================================
