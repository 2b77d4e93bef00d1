------------------------------ MODULE Shutdown ------------------------------
(***************************************************************************)
(* epoch_generator.py, _generic_exit_handler: the first of the signals     *)
(* INT, TERM and QUIT raises GenericExitOnSignal in the middle of whatever *)
(* the process does, later ones are ignored.  An except clause that        *)
(* catches Exception takes it for a failed call, so that a signal is one   *)
(* more way for a step of EpochGenerator to fail.                          *)
(***************************************************************************)
EXTENDS EpochGenerator

VARIABLE shutdown   \* self._shutdown_initiated

shutdownVars == <<vars, shutdown>>

\* From run on; before, a signal ends the process as any process.
HandlersSet == pc \notin {"down", "fetch"}

(***************************************************************************)
(* The exception meets an except clause: while the head is asked for, in   *)
(* rpc_eth_blocknumber or in run, that is all; while an epoch is released, *)
(* what follows is the recovery, or the next attempt.  Inside of           *)
(* _fetch_epoch_from_contract tenacity catches it, and asks again.         *)
(***************************************************************************)
SignalCaught ==
  \/ pc \in {"poll", "first_wait", "failed_epoch", "error_epoch"} /\ UNCHANGED vars
  \/ /\ \/ BlindRelease \/ ReleaseWithReceipt \/ ReceiptMissing \/ RecoveryFails
        \/ FirstSend \/ FirstReceipt \/ FirstReset
     /\ faults' # faults

\* It meets none: the process sleeps or awaits outside of a try, or in the
\* except clause itself, or the event loop runs when the signal arrives.
SignalEnds == Crash

\* The flag is one of the process.
Flag(value) == shutdown' = (value /\ pc' # "down")

Signal ==
  /\ HandlersSet /\ ~shutdown
  /\ SignalCaught \/ SignalEnds
  /\ Flag(TRUE)

ShutdownInit == Init /\ shutdown = FALSE

ShutdownNext == Signal \/ (Next /\ Flag(shutdown))

ShutdownSpec == ShutdownInit /\ [][ShutdownNext]_shutdownVars

ShutdownFairSpec == ShutdownSpec /\ Fairness

-----------------------------------------------------------------------------
(* Properties.                                                             *)

\* docs/diagrams/epoch_generator.puml: when a shutdown signal is received, the
\* process shuts down.
ShutsDown == shutdown ~> pc = "down"
=============================================================================
