---------------------------- MODULE ForceLedger ----------------------------
(***************************************************************************)
(* What the force consensus service promises to the readers of the         *)
(* Protocol State contract: the transactions of its account, in the order  *)
(* of their nonces and without a hole, each force one project of one epoch *)
(* that may be forced by then; and no project of an epoch twice, until     *)
(* something disturbs the service.                                         *)
(***************************************************************************)
EXTENDS Sequences, Functions

CONSTANT Targets   \* what there is to force: the projects of the epochs

VARIABLES
  forcible,      \* the targets that may be forced
  sent,          \* the targets forced, in the order of their nonces
  disturbed      \* was the service disturbed?

ForcingInit == forcible = {} /\ sent = <<>> /\ disturbed = FALSE

\* The submission window of an epoch is over.
Expire == forcible \subseteq forcible' /\ forcible' \subseteq Targets /\ UNCHANGED sent

Force(g) ==
  /\ g \in forcible /\ sent' = Append(sent, g) /\ UNCHANGED forcible
  /\ disturbed' \/ g \notin Range(sent)

\* Disturbances come at any time, and are not made good.
ForcingNext ==
  /\ Expire \/ (\E g \in Targets : Force(g)) \/ UNCHANGED <<forcible, sent>>
  /\ disturbed => disturbed'

ForcingSpec == ForcingInit /\ [][ForcingNext]_<<forcible, sent, disturbed>>
=============================================================================
