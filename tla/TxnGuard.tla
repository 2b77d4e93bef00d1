------------------------------ MODULE TxnGuard ------------------------------
(***************************************************************************)
(* The decorator semaphore_then_aiorwlock_aqcuire_release of               *)
(* utils/helpers.py with the two asyncio objects it uses: a semaphore, and *)
(* the writer side of an aiorwlock.RWLock, which the task that holds it    *)
(* may acquire again and must then release as often.  Which of the waiting *)
(* tasks is served first is left open.                                     *)
(***************************************************************************)
EXTENDS Integers

CONSTANTS
  Tasks,     \* the asyncio tasks
  NoTask,    \* the owner of a free lock
  Permits    \* asyncio.Semaphore(value=20)

ASSUME GuardAssumption ==
  /\ NoTask \notin Tasks
  /\ Permits \in Nat \ {0}

VARIABLES
  permits,   \* value of the semaphore
  owner,     \* the task that holds the writer lock
  depth      \* how often the owner acquired it

guardVars == <<permits, owner, depth>>

GuardInit == permits = Permits /\ owner = NoTask /\ depth = 0

\* Mutant: the semaphore does not make anyone wait.
TakeAnyPermit == permits' = permits - 1 /\ UNCHANGED <<owner, depth>>
\* await self._semaphore.acquire()
TakePermit ==
  /\ permits > 0 /\ permits' = permits - 1
  /\ UNCHANGED <<owner, depth>>

\* Mutant: the writer lock is not taken.
TakeNoLock(t) == owner' = t /\ depth' = depth + 1 /\ UNCHANGED permits
\* await self._rwlock.writer_lock.acquire()
TakeLock(t) ==
  /\ owner \in {NoTask, t}
  /\ owner' = t /\ depth' = depth + 1
  /\ UNCHANGED permits

\* Mutant: the permit is not given back.
LeaveWithPermit(t) ==
  /\ UNCHANGED permits
  /\ depth' = depth - 1
  /\ owner' = IF depth = 1 THEN NoTask ELSE owner
\* Mutant: the writer lock is not given back.
LeaveWithLock(t) == permits' = permits + 1 /\ UNCHANGED <<owner, depth>>
\* The decorated function returned: both are released once.
Leave(t) ==
  /\ permits' = permits + 1
  /\ depth' = depth - 1
  /\ owner' = IF depth = 1 THEN NoTask ELSE owner

\* The decorated function raised: the exception passes, nothing is released.
LeaveByException == UNCHANGED guardVars
=============================================================================
