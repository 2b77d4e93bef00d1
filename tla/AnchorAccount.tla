--------------------------- MODULE AnchorAccount ---------------------------
(***************************************************************************)
(* The account a service signs with, as the anchor chain node keeps it:    *)
(* the transactions already mined, one per nonce, and the transactions     *)
(* still pending.  The node is external to the repository; this module     *)
(* states what the code relies on: get_transaction_count answers with the  *)
(* number of mined transactions, a nonce is consumed by exactly one        *)
(* transaction, transactions are mined in the order of their nonces, and   *)
(* a pending transaction is replaced only by one with a higher gas price.  *)
(***************************************************************************)
EXTENDS Integers, Sequences, Functions

VARIABLES
  mined,   \* mined[n + 1] is the transaction that consumed nonce n, with its status
  pool     \* pending transactions, a function from their nonces

accountVars == <<mined, pool>>

\* w3.eth.get_transaction_count(address): the next nonce by the latest block,
\* blind to what is pending.
TransactionCount == Len(mined)

(***************************************************************************)
(* The answers of send_raw_transaction to transaction tx with nonce n.     *)
(***************************************************************************)
TooLow(n)          == n < TransactionCount
TooHigh(n)         == n > TransactionCount /\ (n - 1) \notin DOMAIN pool
AlreadyKnown(n, tx) == n \in DOMAIN pool /\ pool[n] = tx
Underpriced(n, tx)  ==
  n \in DOMAIN pool /\ pool[n] # tx /\ tx.gas <= pool[n].gas

\* A node may also queue a nonce that leaves a gap, so TooHigh does not
\* exclude acceptance.
Acceptable(n, tx) == ~TooLow(n) /\ ~AlreadyKnown(n, tx) /\ ~Underpriced(n, tx)

\* The kinds of error the callers tell apart: a nonce error, an underpriced
\* replacement, and everything else.
Refusals(n, tx) ==
  {k \in {"nonce", "underpriced", "other"} :
     \/ k = "nonce" /\ (TooLow(n) \/ TooHigh(n))
     \/ k = "underpriced" /\ Underpriced(n, tx)
     \/ k = "other" /\ AlreadyKnown(n, tx)}

Submit(n, tx) ==
  pool' = [m \in DOMAIN pool \cup {n} |-> IF m = n THEN tx ELSE pool[m]]

(***************************************************************************)
(* What wait_for_transaction_receipt can find: the very transaction that   *)
(* was sent, at its nonce.  A replaced transaction never gets a receipt.   *)
(***************************************************************************)
HasReceipt(n, tx)  == n < TransactionCount /\ n >= 0 /\ mined[n + 1].tx = tx
ReceiptOk(n, tx)   == HasReceipt(n, tx) /\ mined[n + 1].ok
ReceiptFailed(n, tx) == HasReceipt(n, tx) /\ ~mined[n + 1].ok

(***************************************************************************)
(* Steps of the chain.                                                     *)
(***************************************************************************)
\* The pending transaction whose turn it is.
Minable  == TransactionCount \in DOMAIN pool
NextTx   == pool[TransactionCount]

Mine(ok) ==
  /\ Minable
  /\ mined' = Append(mined, [tx |-> NextTx, ok |-> ok])
  /\ pool'  = Restrict(pool, DOMAIN pool \ {TransactionCount})

Evict(n) ==
  /\ n \in DOMAIN pool
  /\ pool' = Restrict(pool, DOMAIN pool \ {n})
  /\ UNCHANGED mined

AccountInit == mined = <<>> /\ pool = [n \in {} |-> 0]
=============================================================================
